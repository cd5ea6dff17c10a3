----------------------------- MODULE EnsureState -----------------------------
(***************************************************************************)
(* with ensure_state(detector): ...   in sls/client.py.                    *)
(* dump_state reads the properties of the detector that can be written;    *)
(* when the block ends, normally or not, each one is set to what it was.   *)
(* Keys are these properties in the order of dir(), which lists            *)
(* synchronization_mode: setting it always fails.  A program that knows    *)
(* passes the state itself: some keys of what the detector has now.  The   *)
(* program has the detector to itself.                                     *)
(***************************************************************************)
EXTENDS Commands, Sequences

CONSTANTS
  Program,    \* the client that enters the block
  Keys,       \* the properties that can be read and written, in order
  Given       \* the keys of states that programs pass themselves, in order

\* The configuration field behind a property.
Field(k) == IF k = "lock" THEN "readout_flags" ELSE k

\* The two properties of the readout flags both can be written, and dir() lists
\* lock before readout, and both before synchronization_mode.
InOrder(ks) ==
  /\ ks \in Seq((Scalars \ Clocks) \cup {"lock"})
  /\ \A m \in 1..Len(ks) :
       /\ ks[m] = "lock" => \E n \in m + 1..Len(ks) : ks[n] = "readout_flags"
       /\ ks[m] = "synchronization_mode"
            => \A n \in m + 1..Len(ks) : Field(ks[n]) # "readout_flags"

ASSUME EnsureAssumption == Program \in Clients /\ \A ks \in {Keys} \cup Given : InOrder(ks)

VARIABLES
  context,    \* where the program is in the with statement
  keys,       \* the keys of state
  key,        \* the property being read or set
  waiting,    \* is its call on the way?
  saved,      \* state, as dump_state collects it
  before      \* history: the configuration when the block was asked for

ensureVars == <<context, keys, key, waiting, saved, before>>
allVars == <<vars, ensureVars>>

Contexts == {"outside", "dump", "body", "restore", "done", "refused", "raised"}

Here == DetectorOf[Program]

EnsureInit ==
  /\ Init
  /\ context = "outside"
  /\ keys = Keys
  /\ key = 1
  /\ waiting = FALSE
  /\ saved = <<>>
  /\ before = config[Here]

\* Mutant of KeyAt: the last property is set first.
KeyFromEnd(n) == keys[Len(keys) + 1 - n]

\* The property that is the n-th to be set.
KeyAt(n) == keys[n]

\* Position of that property in what dump_state collected.
SavedOf(n) == CHOOSE m \in 1..Len(keys) : keys[m] = KeyAt(n)

\* The program's own call of a property.
Access(op, field, value) ==
  /\ stage[Program] = "idle"
  /\ Request(Program, [op |-> op, field |-> field, index |-> -1, value |-> value], "sent")
  /\ UNCHANGED <<serverVars, outer, shown, info, result_type, reply>>

\* ensure_state is entered and dump_state begins.
Enter ==
  /\ context = "outside" /\ stage[Program] = "idle"
  /\ context' = "dump"
  /\ before' = config[Here]
  /\ UNCHANGED <<vars, keys, key, waiting, saved>>

\* It is entered with a state of what the detector has now, and the body runs.
EnterGiven ==
  /\ context = "outside" /\ stage[Program] = "idle"
  /\ context' = "body"
  /\ keys' \in Given
  /\ before' = config[Here]
  /\ saved' = [n \in 1..Len(keys') |-> config[Here][Field(keys'[n])]]
  /\ UNCHANGED <<vars, key, waiting>>

\* getattr of the next property.
DumpGet ==
  /\ context = "dump" /\ ~waiting /\ key <= Len(keys)
  /\ Access("get", keys[key], 0)
  /\ waiting' = TRUE
  /\ UNCHANGED <<context, keys, key, saved, before>>

DumpGot ==
  /\ context = "dump" /\ waiting /\ stage[Program] = "idle"
  /\ waiting' = FALSE
  /\ IF shown[Program] \in Errors
     THEN context' = "refused" /\ UNCHANGED <<key, saved>>
     ELSE /\ saved' = Append(saved, shown[Program])
          /\ key' = key + 1
          /\ UNCHANGED context
  /\ UNCHANGED <<vars, keys, before>>

\* All properties are read: the body runs.
Begin ==
  /\ context = "dump" /\ ~waiting /\ key > Len(keys)
  /\ context' = "body"
  /\ UNCHANGED <<vars, keys, key, waiting, saved, before>>

Body == context \in {"outside", "body"} /\ Call(Program) /\ UNCHANGED ensureVars

\* The body ends, perhaps with an exception: the finally clause.
Leave ==
  /\ context = "body" /\ stage[Program] = "idle"
  /\ context' = "restore"
  /\ key' = 1
  /\ UNCHANGED <<vars, keys, waiting, saved, before>>

\* setattr of the next property to its old value.
RestoreSet ==
  /\ context = "restore" /\ ~waiting /\ key <= Len(keys)
  /\ Access("set", KeyAt(key), saved[SavedOf(key)])
  /\ waiting' = TRUE
  /\ UNCHANGED <<context, keys, key, saved, before>>

\* An error of one setattr leaves the finally clause.
RestoreDone ==
  /\ context = "restore" /\ waiting /\ stage[Program] = "idle"
  /\ waiting' = FALSE
  /\ IF shown[Program] \in Errors
     THEN context' = "raised" /\ UNCHANGED key
     ELSE key' = key + 1 /\ UNCHANGED context
  /\ UNCHANGED <<vars, keys, saved, before>>

Exit ==
  /\ context = "restore" /\ ~waiting /\ key > Len(keys)
  /\ context' = "done"
  /\ UNCHANGED <<vars, keys, key, waiting, saved, before>>

\* The program's command on the way is served and answered.
Answers ==
  /\ Server(Program) \/ ReplyFail(Program) \/ ReplyOK(Program) \/ ReplyUpdate(Program)
  /\ UNCHANGED ensureVars

EnsureNext ==
  \/ Enter \/ EnterGiven \/ DumpGet \/ DumpGot \/ Begin \/ Body \/ Leave
  \/ RestoreSet \/ RestoreDone \/ Exit \/ Answers

EnsureSpec == EnsureInit /\ [][EnsureNext]_allVars

-----------------------------------------------------------------------------
(* Properties *)

\* The first n properties are what they were when the block was asked for.
Restored(n) == \A m \in 1..n : config[Here][Field(keys[m])] = before[Field(keys[m])]

\* When the block is over every property is back, although lock and readout write
\* the same field and lock writes only 0 or 1.  The loop that brings them back
\* never fails but at synchronization_mode, which it always reaches when dir()
\* made the state: then the properties before that one are back.
RestoredUpToFailure ==
  /\ context = "done" => Restored(Len(keys))
  /\ context = "raised" => keys[key] = "synchronization_mode" /\ Restored(key - 1)
=============================================================================
