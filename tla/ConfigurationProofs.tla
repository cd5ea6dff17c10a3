------------------------- MODULE ConfigurationProofs -------------------------
(***************************************************************************)
(* Theorems about the configuration commands, for any number of detectors, *)
(* clients and hosts and for any requests.  Inv is inductive: a snapshot   *)
(* of the configuration has values only because no field other than the    *)
(* clocks is ever missing, and a client that gets an answer is informed    *)
(* because the reply of UPDATE_CLIENT always carries a snapshot.           *)
(*                                                                         *)
(* Then ensure_state: it brings every property back up to the one that     *)
(* cannot be set, for any list of properties in the order of dir(), any    *)
(* configuration and any calls of the body.  What is read can be written   *)
(* again only because no handler ever stores what a set would not send or  *)
(* could not convert, and lock, which keeps less than it read, is followed *)
(* by the property that holds all of it.                                   *)
(***************************************************************************)
EXTENDS EnsureState, TLAPS

\* Only the clocks can be missing.
ConfigGiven == \A d \in Detectors : \A f \in Scalars \ Clocks : config[d][f] \in Values

\* While a command is on its way there is a call, and when it is answered there
\* is a reply, with a snapshot if it was UPDATE_CLIENT, which never fails.
InFlight ==
  \A k \in Clients :
    /\ stage[k] # "idle" => call[k] \in Calls
    /\ stage[k] = "replied" =>
         /\ reply[k] \in Replies
         /\ call[k].op = "update" => reply[k].result # "FAIL" /\ reply[k].news \in Snapshots

Inv == TypeOK /\ ConfigGiven /\ InFlight /\ AnsweredIsInformed

-----------------------------------------------------------------------------
(* Lemmas about requests and handlers *)

\* What is sent for a call is a request to a field that the server has, of the
\* same kind as the call.
LEMMA WireCalls ==
  ASSUME NEW c \in Calls
  PROVE  /\ Wire(c) \in Calls
         /\ Wire(c).op = c.op
         /\ Wire(c).field \in Scalars \cup ListFields
  BY ZenonT(60), CommandsAssumption DEF Wire, Calls, Scalars, ListFields, Modes

\* A request that is not to a list is to a field of the configuration.
LEMMA ScalarField ==
  ASSUME NEW r \in Calls, r.field \in Scalars \cup ListFields, ~InList(r)
  PROVE  r.field \in Scalars
  BY DEF InList, ListFields, Scalars, Calls

\* A handler that does not raise answers a value.
LEMMA AnswerValue ==
  ASSUME TypeOK, NEW d \in Detectors,
         NEW r \in Calls, r.field \in Scalars \cup ListFields, ~Raises(d, r)
  PROVE  Answer(r, d) \in Values
<1>1. CASE Sets(r)
  BY <1>1 DEF Answer, Calls
<1>2. CASE ~Sets(r) /\ InList(r)
  BY <1>2 DEF Answer, Stored, Raises, TypeOK
<1>3. CASE ~Sets(r) /\ ~InList(r)
  BY <1>3, ScalarField DEF Answer, Stored, Raises, TypeOK
<1> QED BY <1>1, <1>2, <1>3

\* A handler that runs keeps the types of what it stores, and no field but a
\* clock goes missing.
LEMMA StoreTypes ==
  ASSUME TypeOK, ConfigGiven, NEW d \in Detectors,
         NEW r \in Calls, r.field \in Scalars \cup ListFields, Store(d, r)
  PROVE  /\ config' \in [Detectors -> [Scalars -> Values \cup {Missing}]]
         /\ lists' \in [Slots -> Values]
         /\ ConfigGiven'
<1>1. CASE UNCHANGED <<config, lists>>
  BY <1>1 DEF TypeOK, ConfigGiven
<1>2. CASE /\ ~InList(r)
           /\ config' = [config EXCEPT ![d][r.field] = r.value]
           /\ UNCHANGED lists
  BY <1>2, ScalarField DEF TypeOK, ConfigGiven, Calls
<1>3. CASE /\ lists' = [s \in Slots |->
                 IF s = SlotOf(r) \/ (r.field = "module" /\ s = <<"settings", SlotOf(r)[2]>>)
                 THEN r.value ELSE lists[s]]
           /\ UNCHANGED config
  <2>1. r.value \in Values
    BY DEF Calls
  <2> QED BY <1>3, <2>1 DEF TypeOK, ConfigGiven
<1> QED BY <1>1, <1>2, <1>3 DEF Store

\* A handler that raises leaves everything but the clocks as it was.
LEMMA RaisedStore ==
  ASSUME TypeOK, NEW d \in Detectors, NEW r \in Calls, Store(d, r), Raises(d, r)
  PROVE  /\ lists' = lists
         /\ \A e \in Detectors : \A f \in Scalars \ Clocks : config'[e][f] = config[e][f]
<1>1. CASE ~Writes(d, r)
  BY <1>1 DEF Store
<1>2. CASE Writes(d, r)
  <2>1. r.field = "actual_time" /\ ~InList(r)
    BY <1>2 DEF Writes, InList
  <2>2. config' = [config EXCEPT ![d]["actual_time"] = r.value] /\ lists' = lists
    BY <1>2, <2>1 DEF Store
  <2> QED BY <2>2 DEF TypeOK, Clocks
<1> QED BY <1>1, <1>2
-----------------------------------------------------------------------------
(* The invariant *)

\* No detector has been asked, and nobody has been answered, to begin with.
LEMMA InitInv == Init => Inv
<1> SUFFICES ASSUME Init PROVE Inv
  OBVIOUS
<1>1. ConfigGiven /\ config \in [Detectors -> [Scalars -> Values \cup {Missing}]]
  BY CommandsAssumption DEF Init, ConfigGiven, Default
<1>2. TypeOK
  BY <1>1, CommandsAssumption DEF Init, TypeOK, Stages
<1>3. InFlight /\ AnsweredIsInformed
  BY CommandsAssumption DEF Init, InFlight, AnsweredIsInformed
<1> QED BY <1>1, <1>2, <1>3 DEF Inv

\* A call is one of the requests.
LEMMA CallInv ==
  ASSUME Inv, NEW k \in Clients, Call(k)
  PROVE  Inv'
<1>1. PICK c \in Requests : Request(k, c, "sent")
  BY DEF Call
<1>2. c \in Calls
  BY CommandsAssumption
<1>3. TypeOK'
  BY <1>1, <1>2 DEF Inv, Call, TypeOK, Request, Stages, serverVars
<1>4. ConfigGiven' /\ AnsweredIsInformed'
  BY DEF Inv, Call, ConfigGiven, AnsweredIsInformed, serverVars
<1>5. InFlight'
  BY <1>1, <1>2 DEF Inv, Call, TypeOK, InFlight, Request
<1> QED BY <1>3, <1>4, <1>5 DEF Inv

\* Taking a connection only chooses the type of its reply.
LEMMA AcceptInv ==
  ASSUME Inv, NEW k \in Clients, Accept(k)
  PROVE  Inv'
<1>1. TypeOK'
  BY DEF Inv, Accept, TypeOK, Stages, serverVars, clientVars
<1>2. ConfigGiven' /\ AnsweredIsInformed'
  BY DEF Inv, Accept, ConfigGiven, AnsweredIsInformed, serverVars, clientVars
<1>3. InFlight'
  BY DEF Inv, Accept, TypeOK, InFlight, serverVars, clientVars
<1> QED BY <1>1, <1>2, <1>3 DEF Inv

\* A handler stores values and answers a reply.
LEMMA HandleInv ==
  ASSUME Inv, NEW k \in Clients, Handle(k)
  PROVE  Inv'
<1> DEFINE d == DetectorOf[k]
           r == Wire(call[k])
           answer == IF Raises(d, r) THEN Reply("FAIL", None, None)
                     ELSE Reply(result_type[k], Answer(r, d), None)
<1>1. d \in Detectors
  BY CommandsAssumption
<1>2. call[k] \in Calls
  BY DEF Inv, InFlight, Handle
<1>3. r \in Calls /\ r.field \in Scalars \cup ListFields /\ call[k].op # "update"
  BY <1>2, WireCalls DEF Handle
<1>4. Store(d, r)
  BY DEF Handle
<1>5. TypeOK /\ ConfigGiven
  BY DEF Inv
<1> HIDE DEF d, r
<1>6. /\ config' \in [Detectors -> [Scalars -> Values \cup {Missing}]]
      /\ lists' \in [Slots -> Values]
      /\ ConfigGiven'
  BY <1>1, <1>3, <1>4, <1>5, StoreTypes
<1>7. answer \in Replies
  <2>1. CASE Raises(d, r)
    BY <2>1 DEF Reply, Replies
  <2>2. CASE ~Raises(d, r)
    <3>1. Answer(r, d) \in Values
      BY <2>2, <1>1, <1>3, <1>5, AnswerValue
    <3> QED BY <2>2, <3>1, <1>5 DEF Reply, Replies, TypeOK
  <2> QED BY <2>1, <2>2
<1>8. /\ reply' = [reply EXCEPT ![k] = answer]
      /\ stage' = [stage EXCEPT ![k] = "replied"]
      /\ UNCHANGED <<last_client, clientVars, result_type>>
  BY DEF Handle, d, r
<1> HIDE DEF answer
<1>9. TypeOK'
  BY <1>5, <1>6, <1>7, <1>8 DEF TypeOK, Stages, clientVars
<1>10. InFlight'
  BY <1>2, <1>3, <1>5, <1>7, <1>8 DEF Inv, InFlight, TypeOK, clientVars
<1>11. AnsweredIsInformed'
  BY <1>8 DEF Inv, AnsweredIsInformed, clientVars
<1> QED BY <1>6, <1>9, <1>10, <1>11 DEF Inv

\* What UPDATE_CLIENT reports are values: none of its fields is a clock.
LEMMA UpdateClientInv ==
  ASSUME Inv, NEW k \in Clients, UpdateClient(k)
  PROVE  Inv'
<1> DEFINE news == [f \in Updated |-> config[DetectorOf[k]][f]]
           answer == Reply(result_type[k], None, news)
<1>1. DetectorOf[k] \in Detectors
  BY CommandsAssumption
<1>2. Updated \subseteq Scalars \ Clocks
  BY DEF Updated, Scalars, Clocks, Timers
<1>3. news \in Snapshots
  BY <1>1, <1>2 DEF Inv, ConfigGiven, Snapshots
<1>4. /\ reply' = [reply EXCEPT ![k] = answer]
      /\ stage' = [stage EXCEPT ![k] = "replied"]
      /\ call[k] \in Calls
      /\ UNCHANGED <<config, lists, clientVars, result_type>>
  BY DEF UpdateClient, Inv, InFlight
<1>5. answer \in Replies /\ answer.result # "FAIL" /\ answer.news = news
  BY <1>3 DEF Reply, Replies, Inv, TypeOK
<1> HIDE DEF news, answer
<1>6. TypeOK'
  BY <1>4, <1>5 DEF Inv, TypeOK, Stages, clientVars
<1>7. InFlight'
  BY <1>3, <1>4, <1>5 DEF Inv, InFlight, TypeOK, clientVars
<1>8. ConfigGiven' /\ AnsweredIsInformed'
  BY <1>4 DEF Inv, ConfigGiven, AnsweredIsInformed, clientVars
<1> QED BY <1>6, <1>7, <1>8 DEF Inv

\* A FAIL reply ends the call with an exception, which is no answer.
LEMMA ReplyFailInv ==
  ASSUME Inv, NEW k \in Clients, ReplyFail(k)
  PROVE  Inv'
<1>1. PICK error \in Errors : Returns(k, error)
  BY DEF ReplyFail
<1>2. TypeOK'
  BY <1>1 DEF Inv, ReplyFail, Returns, Request, TypeOK, Stages, serverVars
<1>3. ConfigGiven' /\ InFlight'
  BY <1>1 DEF Inv, ReplyFail, Returns, Request, TypeOK, ConfigGiven, InFlight, serverVars
<1>4. AnsweredIsInformed'
  BY <1>1 DEF Inv, ReplyFail, Returns, TypeOK, AnsweredIsInformed
<1> QED BY <1>2, <1>3, <1>4 DEF Inv

\* A reply that is no error either ends the call of a client that has its info
\* or leads to an update.
LEMMA ReplyOKInv ==
  ASSUME Inv, NEW k \in Clients, ReplyOK(k)
  PROVE  Inv'
<1>1. call[k] \in Calls /\ reply[k] \in Replies
  BY DEF Inv, InFlight, ReplyOK
<1>2. reply[k].value \in Values \cup {None}
  BY <1>1 DEF Replies
<1>3. ConfigGiven'
  BY DEF Inv, ReplyOK, ConfigGiven, serverVars
<1>4. CASE /\ outer' = [outer EXCEPT ![k] = reply[k].value]
           /\ Request(k, [call[k] EXCEPT !.op = "update"], "sent")
           /\ UNCHANGED shown
  <2>1. [call[k] EXCEPT !.op = "update"] \in Calls
    BY <1>1 DEF Calls
  <2>2. TypeOK'
    BY <1>2, <1>4, <2>1 DEF Inv, ReplyOK, Request, TypeOK, Stages, serverVars
  <2>3. InFlight'
    BY <1>4, <2>1 DEF Inv, ReplyOK, Request, TypeOK, InFlight
  <2>4. AnsweredIsInformed'
    BY <1>4 DEF Inv, ReplyOK, AnsweredIsInformed
  <2> QED BY <1>3, <2>2, <2>3, <2>4 DEF Inv
<1>5. CASE ~NeedsUpdate(k) /\ Returns(k, reply[k].value)
  <2>1. TypeOK'
    BY <1>2, <1>5 DEF Inv, ReplyOK, Returns, Request, TypeOK, Stages, serverVars
  <2>2. InFlight'
    BY <1>5 DEF Inv, ReplyOK, Returns, Request, TypeOK, InFlight
  <2>3. AnsweredIsInformed'
    BY <1>5 DEF Inv, ReplyOK, Returns, NeedsUpdate, TypeOK, AnsweredIsInformed
  <2> QED BY <1>3, <2>1, <2>2, <2>3 DEF Inv
<1> QED BY <1>4, <1>5 DEF ReplyOK

\* The reply of UPDATE_CLIENT informs its client.
LEMMA ReplyUpdateInv ==
  ASSUME Inv, NEW k \in Clients, ReplyUpdate(k)
  PROVE  Inv'
<1>1. reply[k].news \in Snapshots
  BY DEF Inv, InFlight, ReplyUpdate
<1>2. TypeOK'
  BY <1>1 DEF Inv, ReplyUpdate, Returns, Request, TypeOK, Stages, serverVars
<1>3. ConfigGiven' /\ InFlight'
  BY DEF Inv, ReplyUpdate, Returns, Request, TypeOK, ConfigGiven, InFlight, serverVars
<1>4. AnsweredIsInformed'
  BY <1>1, CommandsAssumption DEF Inv, ReplyUpdate, Returns, TypeOK, AnsweredIsInformed
<1> QED BY <1>2, <1>3, <1>4 DEF Inv

\* Every step of a server or of a client keeps the invariant.
LEMMA NextInv == Inv /\ [Next]_vars => Inv'
<1> SUFFICES ASSUME Inv, [Next]_vars PROVE Inv'
  OBVIOUS
<1>1. CASE UNCHANGED vars
  BY <1>1 DEF Inv, TypeOK, ConfigGiven, InFlight, AnsweredIsInformed,
              vars, serverVars, clientVars
<1>2. ASSUME NEW k \in Clients, Server(k) PROVE Inv'
  BY <1>2, AcceptInv, HandleInv, UpdateClientInv DEF Server
<1>3. ASSUME NEW k \in Clients, Client(k) PROVE Inv'
  BY <1>3, CallInv, ReplyFailInv, ReplyOKInv, ReplyUpdateInv DEF Client
<1> QED BY <1>1, <1>2, <1>3 DEF Next

\* The invariant holds in every reachable state.
LEMMA InvCorrect == Spec => []Inv
  BY InitInv, NextInv, PTL DEF Spec

-----------------------------------------------------------------------------
(* The theorems *)

\* Every variable keeps its type: a set never leaves a value in the
\* configuration that no client gave, and no reply carries what was never set.
THEOREM CommandTypes == Spec => []TypeOK
  BY InvCorrect, PTL DEF Inv

\* Whoever gets an answer from auto_ctrl_connect has its info, for any number of
\* programs that share hosts and whatever the server takes them for.
THEOREM AnswerInforms == Spec => []AnsweredIsInformed
  BY InvCorrect, PTL DEF Inv

\* A handler that raises, and so answers FAIL, has changed nothing.
THEOREM FailureIsAtomic == Spec => FailChangesNothing
<1>1. ASSUME Inv, [Next]_vars, NEW k \in Clients,
             stage[k] = "accepted", stage'[k] = "replied", reply'[k].result = "FAIL"
      PROVE  /\ lists' = lists
             /\ \A d \in Detectors : \A f \in Scalars \ Clocks : config'[d][f] = config[d][f]
  <2>1. Handle(k) \/ UpdateClient(k)
    <3>1. PICK j \in Clients : Server(j) \/ Client(j)
      BY <1>1 DEF Next, vars
    <3>2. PICK s \in Stages : stage' = [stage EXCEPT ![j] = s]
      BY <3>1 DEF Server, Client, Call, Accept, Handle, UpdateClient, ReplyFail,
                  ReplyOK, ReplyUpdate, Returns, Request, Stages
    <3>3. j = k /\ s = "replied"
      BY <1>1, <3>2 DEF Inv, TypeOK
    <3>4. ~Client(k)
      BY <1>1, <3>3 DEF Client, Call, ReplyFail, ReplyOK, ReplyUpdate
    <3>5. ~Accept(k)
      BY <1>1, <3>2, <3>3 DEF Inv, TypeOK, Accept
    <3> QED BY <3>1, <3>3, <3>4, <3>5 DEF Server
  <2>2. ~UpdateClient(k)
    BY <1>1 DEF Inv, TypeOK, UpdateClient, Reply
  <2>3. Handle(k)
    BY <2>1, <2>2
  <2> DEFINE d == DetectorOf[k]
             r == Wire(call[k])
  <2>4. d \in Detectors
    BY CommandsAssumption
  <2>5. r \in Calls /\ Store(d, r)
    BY <1>1, <2>3, WireCalls DEF Handle, Inv, InFlight
  <2>6. Raises(d, r)
    BY <1>1, <2>3 DEF Handle, Inv, TypeOK, Reply
  <2>7. TypeOK
    BY <1>1 DEF Inv
  <2> HIDE DEF d, r
  <2> QED BY <2>4, <2>5, <2>6, <2>7, RaisedStore
<1>2. Inv /\ [Next]_vars =>
        [\A k \in Clients :
           stage[k] = "accepted" /\ stage'[k] = "replied" /\ reply'[k].result = "FAIL"
             => /\ lists' = lists
                /\ \A d \in Detectors : \A f \in Scalars \ Clocks :
                     config'[d][f] = config[d][f]]_vars
  BY <1>1
<1> QED BY <1>2, InvCorrect, PTL DEF Spec, FailChangesNothing

-----------------------------------------------------------------------------
(* ensure_state *)

\* Where only the clauses themselves access the detector.
Settled == {"dump", "restore", "done", "raised"}

EnsureTypes ==
  /\ context \in Contexts
  /\ InOrder(keys)
  /\ key \in 1..Len(keys) + 1
  /\ waiting \in BOOLEAN
  /\ saved \in Seq(Values)
  /\ before \in [Scalars -> Values \cup {Missing}]

\* Every value in the configuration is one that a set of its field sends as it
\* is, and its handler can convert: the code of a get only threatens a field whose
\* handler tests for it.
Sendable(fields) ==
  /\ \A f \in Scalars \ {"energy_threshold"} : fields[f] # GET_CODE
  /\ fields["dynamic_range"] # 24
  /\ fields["master_mode"] \in 0..2
  /\ fields["external_communication_mode"] \in 0..6
  /\ fields["external_signal"] \in 0..15

Settable == Sendable(config[Here]) /\ Sendable(before)

\* In the clauses of the with statement the program waits for one access.
Paced ==
  /\ context = "outside" => key = 1 /\ saved = <<>> /\ ~waiting
  /\ context \in Settled /\ ~waiting => stage[Program] = "idle"
  /\ waiting => context \in {"dump", "restore"} /\ key <= Len(keys)
  /\ context = "raised" => key <= Len(keys)
  /\ context = "done" => ~waiting

\* The state collected is the configuration when the block was entered.
Remembered ==
  /\ Len(saved) = IF context = "dump" THEN key - 1
                  ELSE IF context \in {"body", "restore", "done"} THEN Len(keys)
                  ELSE Len(saved)
  /\ Len(saved) <= Len(keys)
  /\ \A m \in 1..Len(saved) : saved[m] = before[Field(keys[m])]

-----------------------------------------------------------------------------
(* The access that the program waits for *)

\* The command is on its way and the server has not handled it.
Unserved == stage[Program] \in {"sent", "accepted"} /\ call[Program].op # "update"

\* What it has answered, wherever the answer is.
Outcome ==
  IF stage[Program] = "idle" THEN shown[Program]
  ELSE IF call[Program].op = "update" THEN outer[Program]
  ELSE IF reply[Program].result = "FAIL" THEN SLSError
  ELSE reply[Program].value

Getting == [op |-> "get", field |-> keys[key], index |-> -1, value |-> 0]
Setting == [op |-> "set", field |-> keys[key], index |-> -1,
            value |-> before[Field(keys[key])]]

\* The first p properties are back, but for readout flags that a later key sets.
RestoredUpTo(p) ==
  \A m \in 1..p :
    \/ config[Here][Field(keys[m])] = before[Field(keys[m])]
    \/ /\ Field(keys[m]) = "readout_flags"
       /\ \E n \in p + 1..Len(keys) : keys[n] = "readout_flags"

\* Setting synchronization_mode has failed, after those before it were set.
Refused == keys[key] = "synchronization_mode" /\ RestoredUpTo(key - 1)

\* dump_state changes nothing and gets what is there.
Dumping ==
  context = "dump" =>
    /\ config[Here] = before
    /\ waiting /\ Unserved => call[Program] = Getting
    /\ waiting /\ ~Unserved => Outcome \in Errors \cup {before[Field(keys[key])]}

\* The finally clause brings back one property after the other.
Restoring ==
  /\ context = "restore" =>
       /\ ~waiting => RestoredUpTo(key - 1)
       /\ waiting /\ Unserved => call[Program] = Setting /\ RestoredUpTo(key - 1)
       /\ waiting /\ ~Unserved => IF Outcome \in Errors THEN Refused ELSE RestoredUpTo(key)
  /\ context = "raised" => Refused
  /\ context = "done" => RestoredUpTo(Len(keys))

EnsureInv ==
  /\ Inv /\ EnsureTypes
  /\ Settable /\ Paced /\ Remembered /\ Dumping /\ Restoring

-----------------------------------------------------------------------------
(* Lemmas about fields, and about the command of the program *)

\* The field behind a property is one of the configuration.
LEMMA FieldType ==
  ASSUME EnsureInv, NEW n \in 1..Len(keys)
  PROVE  keys[n] \in (Scalars \ Clocks) \cup {"lock"} /\ Field(keys[n]) \in Scalars \ Clocks
<1>1. keys[n] \in (Scalars \ Clocks) \cup {"lock"}
  BY DEF EnsureInv, EnsureTypes, InOrder
<1> QED BY <1>1 DEF Field, Scalars, Modes, Clocks

\* The program's detector is one of the server's.
LEMMA HereType == Program \in Clients /\ Here \in Detectors
  BY EnsureAssumption, CommandsAssumption DEF Here

\* What an access of a property asks is a call, whose request is no list's.
LEMMA AccessWire ==
  ASSUME EnsureInv, NEW n \in 1..Len(keys), NEW op \in {"get", "set"}, NEW v \in Values,
         NEW c, c = [op |-> op, field |-> keys[n], index |-> -1, value |-> v]
  PROVE  /\ c \in Calls
         /\ Wire(c).op = op /\ Wire(c).field = Field(keys[n]) /\ ~InList(Wire(c))
         /\ op = "set" /\ keys[n] # "lock" /\ ~(keys[n] = "dynamic_range" /\ v = 24)
              => Wire(c).value = v
         /\ op = "set" /\ keys[n] = "lock" => Wire(c).value \in {0, 1}
<1>1. keys[n] \in Scalars \cup {"lock"}
  BY FieldType
<1>2. keys[n] \notin {"module", "settings", "serial_nb"} /\ -1 \in Int
  BY <1>1 DEF Scalars, Timers, Speeds, Modes, Clocks
<1>3. c \in Calls
  BY <1>1, <1>2 DEF Calls
<1>4. CASE keys[n] = "lock"
  <2>1. Wire(c) = [op |-> op, field |-> "readout_flags", index |-> -1,
                   value |-> IF op = "set" /\ v # 0 THEN 1 ELSE 0]
    BY <1>4 DEF Wire
  <2> QED BY <1>3, <1>4, <2>1 DEF InList, Field
<1>5. CASE keys[n] # "lock"
  <2>1. Wire(c) = IF keys[n] = "dynamic_range" /\ op = "set" /\ v = 24
                  THEN [op |-> op, field |-> keys[n], index |-> -1, value |-> 32]
                  ELSE [op |-> op, field |-> keys[n], index |-> -1, value |-> v]
    BY <1>5 DEF Wire
  <2> QED BY <1>2, <1>3, <1>5, <2>1 DEF InList, Field
<1> QED BY <1>4, <1>5

\* A command that has been served changes nothing any more, and its outcome
\* stays what it is; an error may become another one.
LEMMA ServedStays ==
  ASSUME Inv, ~Unserved, Answers
  PROVE  /\ UNCHANGED config
         /\ ~Unserved'
         /\ Outcome' = Outcome \/ {Outcome, Outcome'} \subseteq Errors
<1>1. TypeOK /\ Program \in Clients
  BY HereType DEF Inv
<1>2. CASE Accept(Program)
  BY <1>1, <1>2 DEF Accept, Unserved, Outcome, TypeOK, serverVars, clientVars
<1>3. ~Handle(Program)
  <2>1. SUFFICES ASSUME Handle(Program) PROVE FALSE
    OBVIOUS
  <2>2. call[Program] \in Calls
    BY <2>1, <1>1 DEF Handle, Inv, InFlight
  <2> QED BY <2>1, <2>2, WireCalls DEF Handle, Unserved
<1>4. CASE UpdateClient(Program)
  BY <1>1, <1>4 DEF UpdateClient, Unserved, Outcome, TypeOK, clientVars
<1>5. CASE ReplyFail(Program)
  <2>1. call[Program].op # "update"
    BY <1>1, <1>5 DEF ReplyFail, Inv, InFlight
  <2>2. Outcome = SLSError
    BY <1>5, <2>1 DEF ReplyFail, Outcome
  <2>3. Outcome' \in Errors /\ ~Unserved' /\ UNCHANGED config
    BY <1>1, <1>5 DEF ReplyFail, Returns, Request, Unserved, Outcome, TypeOK, serverVars
  <2> QED BY <2>2, <2>3 DEF Errors
<1>6. CASE ReplyUpdate(Program)
  BY <1>1, <1>6 DEF ReplyUpdate, Returns, Request, Unserved, Outcome, TypeOK, serverVars
<1>7. CASE ReplyOK(Program)
  <2>1. /\ Outcome = reply[Program].value
        /\ UNCHANGED config
    BY <1>7 DEF ReplyOK, Outcome, serverVars
  <2>2. CASE Returns(Program, reply[Program].value)
    BY <1>1, <2>1, <2>2 DEF Returns, Request, Unserved, Outcome, TypeOK
  <2>3. CASE /\ outer' = [outer EXCEPT ![Program] = reply[Program].value]
             /\ Request(Program, [call[Program] EXCEPT !.op = "update"], "sent")
    <3>1. call[Program] \in Calls
      BY <1>1, <1>7 DEF ReplyOK, Inv, InFlight
    <3>2. call'[Program].op = "update" /\ stage'[Program] = "sent"
      BY <1>1, <2>3, <3>1 DEF Request, TypeOK, Calls
    <3> QED BY <1>1, <2>1, <2>3, <3>2 DEF Unserved, Outcome, TypeOK
  <2> QED BY <1>7, <2>2, <2>3 DEF ReplyOK
<1> QED BY <1>2, <1>3, <1>4, <1>5, <1>6, <1>7 DEF Answers, Server

\* A command that has not been served is taken, or handled: then the server
\* stores what it asks and the outcome is the answer, or it fails.
LEMMA Served ==
  ASSUME Inv, Unserved, Answers
  PROVE  \/ UNCHANGED <<config, call>> /\ Unserved'
         \/ LET r == Wire(call[Program])
            IN /\ Store(Here, r)
               /\ ~Unserved'
               /\ IF Raises(Here, r) THEN Outcome' \in Errors
                  ELSE Outcome' = Answer(r, Here)
<1>1. TypeOK /\ Program \in Clients
  BY HereType DEF Inv
<1>2. CASE Accept(Program)
  BY <1>1, <1>2 DEF Accept, Unserved, TypeOK, serverVars, clientVars
<1>3. CASE Handle(Program)
  <2> DEFINE r == Wire(call[Program])
             answer == IF Raises(Here, r) THEN Reply("FAIL", None, None)
                       ELSE Reply(result_type[Program], Answer(r, Here), None)
  <2>1. /\ Store(Here, r)
        /\ stage'[Program] = "replied"
        /\ reply'[Program] = answer
        /\ call' = call
    BY <1>1, <1>3 DEF Handle, Here, TypeOK, clientVars
  <2>2. ~Unserved'
    BY <2>1 DEF Unserved
  <2>3. Outcome' = IF answer.result = "FAIL" THEN SLSError ELSE answer.value
    BY <2>1 DEF Outcome, Unserved
  <2> HIDE DEF r
  <2>4. IF Raises(Here, r) THEN Outcome' \in Errors ELSE Outcome' = Answer(r, Here)
    <3>1. result_type[Program] # "FAIL"
      BY <1>1 DEF TypeOK
    <3> QED BY <2>3, <3>1 DEF Reply, Errors
  <2> QED BY <2>1, <2>2, <2>4 DEF r
<1>4. ~UpdateClient(Program) /\ ~ReplyFail(Program) /\ ~ReplyOK(Program) /\ ~ReplyUpdate(Program)
  BY DEF Unserved, UpdateClient, ReplyFail, ReplyOK, ReplyUpdate
<1> QED BY <1>2, <1>3, <1>4 DEF Answers, Server

-----------------------------------------------------------------------------
(* The commands below the with statement *)

\* A handler stores only what a set sends.
LEMMA StoreSettable ==
  ASSUME Inv, Sendable(config[Here]), NEW c \in Calls, Store(Here, Wire(c))
  PROVE  Sendable(config[Here])'
<1> DEFINE r == Wire(c)
<1>1. /\ r \in Calls /\ r.field \in Scalars \cup ListFields
      /\ ~(r.op = "set" /\ r.field = "dynamic_range" /\ r.value = 24)
  <2>1. r \in Calls /\ r.field \in Scalars \cup ListFields
    BY WireCalls
  <2>2. ~(r.op = "set" /\ r.field = "dynamic_range" /\ r.value = 24)
    BY DEF Wire, Calls
  <2> QED BY <2>1, <2>2
<1>2. TypeOK /\ Here \in Detectors
  BY HereType DEF Inv
<1> HIDE DEF r
<1>3. CASE config' = config
  BY <1>3 DEF Sendable
<1>4. CASE Writes(Here, r) /\ ~InList(r)
  <2>1. r.field \in Scalars /\ r.field # "module"
    BY <1>1, <1>4, ScalarField DEF InList
  <2>2. r.op = "set" /\ (r.value # GET_CODE \/ r.field = "energy_threshold")
    BY <1>4, <2>1 DEF Writes, Sets
  <2>3. config' = [config EXCEPT ![Here][r.field] = r.value]
    BY <1>4, <1>2 DEF Store, r
  <2>4. r.field # "actual_time" => Converts(r)
    BY <1>4 DEF Writes, Raises
  <2>5. /\ r.field = "master_mode" => r.value \in 0..2
        /\ r.field = "external_communication_mode" => r.value \in 0..6
        /\ r.field = "external_signal" => r.value \in 0..15
    BY <2>4 DEF Converts
  <2>6. /\ config'[Here][r.field] = r.value
        /\ \A g \in Scalars \ {r.field} : config'[Here][g] = config[Here][g]
    BY <1>2, <2>1, <2>3 DEF TypeOK
  <2>7. {"dynamic_range", "master_mode", "external_communication_mode", "external_signal"}
           \subseteq Scalars
    BY DEF Scalars, Modes
  <2> QED BY <1>1, <2>2, <2>5, <2>6, <2>7 DEF Sendable
<1> QED BY <1>3, <1>4 DEF Store, r

\* An access of the program's is one more command on its way.
LEMMA AccessInv ==
  ASSUME Inv, NEW op, NEW field, NEW value, Access(op, field, value),
         [op |-> op, field |-> field, index |-> -1, value |-> value] \in Calls
  PROVE  /\ Inv'
         /\ UNCHANGED config
         /\ call'[Program] = [op |-> op, field |-> field, index |-> -1, value |-> value]
         /\ stage'[Program] = "sent"
<1> DEFINE c == [op |-> op, field |-> field, index |-> -1, value |-> value]
<1>1. /\ Request(Program, c, "sent") /\ c \in Calls
      /\ UNCHANGED <<serverVars, outer, shown, info, result_type, reply>>
  BY DEF Access
<1> HIDE DEF c
<1>2. TypeOK /\ Program \in Clients
  BY HereType DEF Inv
<1>3. call'[Program] = c /\ stage'[Program] = "sent"
  BY <1>1, <1>2 DEF Request, TypeOK
<1>4. TypeOK'
  BY <1>1, <1>2 DEF Request, TypeOK, Stages, serverVars
<1>5. ConfigGiven' /\ AnsweredIsInformed'
  BY <1>1 DEF Inv, ConfigGiven, AnsweredIsInformed, serverVars
<1>6. InFlight'
  BY <1>1, <1>2 DEF Inv, TypeOK, InFlight, Request
<1> QED BY <1>1, <1>3, <1>4, <1>5, <1>6 DEF Inv, c, serverVars

\* The commands keep their invariant, whoever asks.
LEMMA CommandsNext ==
  ASSUME Inv, Answers \/ Body
  PROVE  Inv'
<1>1. Program \in Clients
  BY HereType
<1>2. CASE Body
  BY <1>1, <1>2, CallInv DEF Body
<1>3. CASE Answers
  BY <1>1, <1>3, AcceptInv, HandleInv, UpdateClientInv, ReplyFailInv, ReplyOKInv, ReplyUpdateInv
  DEF Answers, Server
<1> QED BY <1>2, <1>3

\* They leave the configuration settable.
LEMMA AnswersSettable ==
  ASSUME Inv, Settable, Answers
  PROVE  Settable'
<1>1. CASE UNCHANGED config
  BY <1>1 DEF Settable, Answers, ensureVars
<1>2. CASE Unserved /\ Store(Here, Wire(call[Program]))
  <2>1. call[Program] \in Calls
    BY <1>2, HereType DEF Inv, InFlight, Unserved
  <2> QED BY <1>2, <2>1, StoreSettable DEF Settable, Answers, ensureVars
<1> QED BY <1>1, <1>2, Served, ServedStays

-----------------------------------------------------------------------------
(* The invariant *)

\* The configuration of a new detector can be set as it is.
LEMMA InitEnsure == EnsureInit => EnsureInv
<1> SUFFICES ASSUME EnsureInit PROVE EnsureInv
  OBVIOUS
<1>1. Inv /\ Program \in Clients /\ Here \in Detectors
  BY InitInv, HereType DEF EnsureInit
<1>2. config[Here] = [f \in Scalars |-> Default(f)]
  <2>1. config = [d \in Detectors |-> [f \in Scalars |-> Default(f)]]
    BY DEF EnsureInit, Init
  <2> QED BY <1>1, <2>1
<1>3. \A f \in Scalars : Default(f) = 0 \/ Default(f) = 32 \/ Default(f) = Missing
  <2> TAKE f \in Scalars
  <2>1. CASE f = "dynamic_range"
    BY <2>1, Zenon DEF Default, Clocks
  <2>2. CASE f # "dynamic_range" /\ f \in Clocks
    BY <2>2, Zenon DEF Default
  <2>3. CASE f # "dynamic_range" /\ f \notin Clocks
    BY <2>3, Zenon DEF Default
  <2> QED BY <2>1, <2>2, <2>3
<1>4. Settable
  <2>1. -1 \in Int /\ 24 \in Int /\ Missing \notin Int
    BY CommandsAssumption
  <2>2. {"dynamic_range", "master_mode", "external_communication_mode", "external_signal"}
           \subseteq Scalars
    BY DEF Scalars, Modes
  <2>3. /\ Default("master_mode") = 0 /\ Default("external_communication_mode") = 0
        /\ Default("external_signal") = 0 /\ Default("dynamic_range") = 32
    BY DEF Default, Clocks
  <2>4. \A f \in Scalars : config[Here][f] = Default(f)
    BY <1>2
  <2>5. \A f \in Scalars : config[Here][f] # GET_CODE
    BY <1>3, <2>1, <2>4 DEF GET_CODE
  <2>6. Sendable(config[Here])
    BY <2>2, <2>3, <2>4, <2>5 DEF Sendable
  <2> QED BY <2>6 DEF Settable, EnsureInit
<1>5. keys = Keys /\ InOrder(keys) /\ Len(keys) \in Nat
  BY EnsureAssumption DEF EnsureInit, InOrder
<1>6. EnsureTypes
  <2>1. before \in [Scalars -> Values \cup {Missing}]
    BY <1>1 DEF EnsureInit, Inv, TypeOK
  <2>2. saved \in Seq(Values)
    BY DEF EnsureInit
  <2>3. key \in 1..Len(keys) + 1
    BY <1>5 DEF EnsureInit
  <2>4. context \in Contexts /\ waiting \in BOOLEAN
    BY DEF EnsureInit, Contexts
  <2> QED BY <1>5, <2>1, <2>2, <2>3, <2>4 DEF EnsureTypes
<1>7. Paced /\ Remembered /\ Dumping /\ Restoring
  BY <1>5 DEF EnsureInit, Paced, Remembered, Dumping, Restoring, Settled
<1> QED BY <1>1, <1>4, <1>6, <1>7 DEF EnsureInv

\* The list of the properties is finite.
LEMMA Sizes ==
  ASSUME EnsureInv
  PROVE  Len(keys) \in Nat /\ keys \in Seq((Scalars \ Clocks) \cup {"lock"})
BY DEF EnsureInv, EnsureTypes, InOrder

\* A get that is handled changes nothing and is answered with what is there.
LEMMA GetStep ==
  ASSUME EnsureInv, context = "dump", waiting, Unserved,
         Store(Here, Wire(call[Program]))
  PROVE  /\ UNCHANGED config
         /\ Answer(Wire(call[Program]), Here) = before[Field(keys[key])]
<1> DEFINE r == Wire(call[Program])
<1>1. key \in 1..Len(keys)
  BY Sizes DEF EnsureInv, EnsureTypes, Paced
<1>2. call[Program] = Getting /\ config[Here] = before
  BY DEF EnsureInv, Dumping
<1>3. r.op = "get" /\ r.field = Field(keys[key]) /\ ~InList(r)
  <2>1. 0 \in Values
    BY CommandsAssumption
  <2> QED BY <1>1, <1>2, <2>1, AccessWire DEF Getting
<1> HIDE DEF r
<1>4. ~Sets(r)
  BY <1>3 DEF Sets
<1>5. UNCHANGED config
  BY <1>4 DEF Store, Writes, r
<1>6. Answer(r, Here) = before[Field(keys[key])]
  BY <1>2, <1>3, <1>4 DEF Answer, Stored
<1> QED BY <1>5, <1>6 DEF r

\* A set that is handled brings its property back, and disturbs of the earlier
\* ones only the readout flags, which a later key sets.  It is only refused when
\* the property is synchronization_mode, and then disturbs nothing.
LEMMA SetStep ==
  ASSUME EnsureInv, context = "restore", waiting, Unserved, UNCHANGED ensureVars,
         Store(Here, Wire(call[Program]))
  PROVE  IF Raises(Here, Wire(call[Program])) THEN Refused'
         ELSE RestoredUpTo(key)' /\ Answer(Wire(call[Program]), Here) \notin Errors
<1> DEFINE r == Wire(call[Program])
           f == Field(keys[key])
           v == before[f]
<1>1. key \in 1..Len(keys)
  BY Sizes DEF EnsureInv, EnsureTypes, Paced
<1>2. call[Program] = Setting /\ RestoredUpTo(key - 1)
  BY DEF EnsureInv, Restoring
<1>3. f \in Scalars
  BY <1>1, FieldType
<1>4. v \in Values /\ v = saved[key]
  BY <1>1, Sizes DEF EnsureInv, EnsureTypes, Remembered
<1>5. /\ f # "energy_threshold" => v # GET_CODE
      /\ f = "dynamic_range" => v # 24
  BY <1>3, Sizes DEF EnsureInv, Settable, Sendable
<1>6. r.op = "set" /\ r.field = f /\ ~InList(r) /\ (keys[key] # "lock" => r.value = v)
  <2>1. call[Program] = [op |-> "set", field |-> keys[key], index |-> -1, value |-> v]
    BY <1>2 DEF Setting
  <2>2. keys[key] = "dynamic_range" => f = "dynamic_range"
    BY DEF Field
  <2> HIDE DEF v, f
  <2> QED BY <1>1, <1>4, <1>5, <2>1, <2>2, AccessWire DEF f
<1>7. r.value # GET_CODE \/ f = "energy_threshold"
  <2>1. keys[key] = "lock" => r.value \in {0, 1}
    BY <1>1, <1>2, <1>4, AccessWire DEF Setting
  <2> QED BY <1>5, <1>6, <2>1 DEF GET_CODE
<1> HIDE DEF r
<1>s. Sets(r) /\ f \notin Clocks
  BY <1>1, <1>6, <1>7, FieldType DEF Sets
<1>r. ASSUME Raises(Here, r) PROVE Refused'
  <2>1. f = "synchronization_mode" \/ ~Converts(r)
    BY <1>6, <1>s, <1>r DEF Raises, Clocks
  <2>2. Converts(r)
    <3>2. CASE keys[key] = "lock"
      BY <1>6, <3>2 DEF Converts, Field
    <3>3. CASE keys[key] # "lock"
      <4>1. r.value = before[f] /\ Sendable(before)
        BY <1>6, <3>3 DEF EnsureInv, Settable
      <4> QED BY <1>6, <4>1 DEF Converts, Sendable
    <3> QED BY <3>2, <3>3
  <2>3. keys[key] = "synchronization_mode"
    BY <2>1, <2>2 DEF Field
  <2>4. UNCHANGED config
    BY <1>6, <1>s, <1>r DEF Store, Writes, r, Clocks
  <2> QED BY <1>2, <2>3, <2>4 DEF Refused, RestoredUpTo, ensureVars
<1>a. Answer(r, Here) \notin Errors
  <2>1. Answer(r, Here) = r.value
    BY <1>6, <1>s DEF Answer, InList
  <2>2. r.value \in Int
    <3>1. keys[key] = "lock" => r.value \in {0, 1}
      BY <1>1, <1>2, <1>4, AccessWire DEF Setting, r
    <3> QED BY <1>4, <1>6, <3>1, CommandsAssumption
  <2> QED BY <2>1, <2>2, CommandsAssumption
<1> SUFFICES ASSUME ~Raises(Here, r) PROVE RestoredUpTo(key)'
  BY <1>a, <1>r DEF r
<1>8. config' = [config EXCEPT ![Here][f] = r.value]
  BY <1>6, <1>s DEF Store, Writes, r
<1>9. /\ config'[Here][f] = r.value
      /\ \A g \in Scalars \ {f} : config'[Here][g] = config[Here][g]
  BY <1>3, <1>8, HereType DEF EnsureInv, Inv, TypeOK
<1>10. keys[key] = "lock" =>
         f = "readout_flags" /\ \E n \in key + 1..Len(keys) : keys[n] = "readout_flags"
  BY <1>1 DEF Field, EnsureInv, EnsureTypes, InOrder
<1>11. ASSUME NEW m \in 1..key
       PROVE  \/ config'[Here][Field(keys[m])] = before[Field(keys[m])]
              \/ /\ Field(keys[m]) = "readout_flags"
                 /\ \E n \in key + 1..Len(keys) : keys[n] = "readout_flags"
  <2>1. CASE Field(keys[m]) = f
    BY <1>6, <1>9, <1>10, <2>1
  <2>2. CASE Field(keys[m]) # f
    <3>1. m \in 1..key - 1 /\ m \in 1..Len(keys) /\ key - 1 + 1 = key
      BY <1>1, <2>2, Sizes
    <3>2. Field(keys[m]) \in Scalars
      BY <3>1, FieldType
    <3>3. CASE config[Here][Field(keys[m])] = before[Field(keys[m])]
      BY <1>9, <2>2, <3>2, <3>3
    <3>4. CASE /\ Field(keys[m]) = "readout_flags"
               /\ \E n \in key..Len(keys) : keys[n] = "readout_flags"
      <4>1. PICK n \in key..Len(keys) : keys[n] = "readout_flags"
        BY <3>4
      <4>2. n # key
        BY <2>2, <3>4, <4>1 DEF Field
      <4> QED BY <1>1, <3>4, <4>1, <4>2, Sizes
    <3> QED BY <1>2, <3>1, <3>3, <3>4 DEF RestoredUpTo
  <2> QED BY <2>1, <2>2
<1> QED BY <1>11 DEF RestoredUpTo, ensureVars

\* A step of the program's command while it waits, in the clauses or in the body.
LEMMA AnswersEnsure ==
  ASSUME EnsureInv, Answers
  PROVE  EnsureInv'
<1>1. Inv /\ Settable /\ UNCHANGED ensureVars
  BY DEF EnsureInv, Answers
<1>2. Inv' /\ Settable'
  BY <1>1, CommandsNext, AnswersSettable
<1>3. stage[Program] # "idle"
  BY DEF Answers, Server, Accept, Handle, UpdateClient, ReplyFail, ReplyOK, ReplyUpdate
<1>4. context \in Settled => waiting /\ context \in {"dump", "restore"}
  BY <1>3 DEF EnsureInv, Paced
<1>5. EnsureTypes' /\ Paced' /\ Remembered'
  BY <1>1, <1>4 DEF EnsureInv, EnsureTypes, Paced, Remembered, ensureVars
<1>6. Dumping'
  <2>1. SUFFICES ASSUME context = "dump"
                 PROVE  /\ config'[Here] = before
                        /\ Unserved' => call'[Program] = Getting
                        /\ ~Unserved' => Outcome' \in Errors \cup {before[Field(keys[key])]}
    BY <1>1 DEF Dumping, Getting, ensureVars
  <2>2. waiting /\ config[Here] = before
    BY <1>4, <2>1 DEF EnsureInv, Dumping, Settled
  <2>3. CASE ~Unserved
    BY <1>1, <2>1, <2>2, <2>3, ServedStays DEF EnsureInv, Dumping
  <2>4. CASE Unserved /\ UNCHANGED <<config, call>> /\ Unserved'
    BY <2>1, <2>2, <2>4 DEF EnsureInv, Dumping
  <2>5. CASE Unserved /\ ~(UNCHANGED <<config, call>> /\ Unserved')
    <3> DEFINE r == Wire(call[Program])
    <3>1. /\ Store(Here, r) /\ ~Unserved'
          /\ IF Raises(Here, r) THEN Outcome' \in Errors ELSE Outcome' = Answer(r, Here)
      BY <1>1, <2>5, Served
    <3>2. UNCHANGED config /\ Answer(r, Here) = before[Field(keys[key])]
      BY <2>1, <2>2, <2>5, <3>1, GetStep
    <3> QED BY <2>2, <3>1, <3>2
  <2> QED BY <2>3, <2>4, <2>5
<1>7. Restoring'
  <2>1. SUFFICES ASSUME context = "restore"
                 PROVE  /\ Unserved' => call'[Program] = Setting /\ RestoredUpTo(key - 1)'
                        /\ ~Unserved' => IF Outcome' \in Errors THEN Refused'
                                         ELSE RestoredUpTo(key)'
    BY <1>1, <1>4 DEF Restoring, Setting, ensureVars, Settled
  <2>2. waiting
    BY <1>4, <2>1 DEF Settled
  <2>3. CASE ~Unserved
    <3>1. /\ UNCHANGED config /\ ~Unserved'
          /\ Outcome' = Outcome \/ {Outcome, Outcome'} \subseteq Errors
      BY <1>1, <2>3, ServedStays
    <3> QED BY <1>1, <2>1, <2>2, <2>3, <3>1
        DEF EnsureInv, Restoring, Refused, RestoredUpTo, ensureVars
  <2>4. CASE Unserved /\ UNCHANGED <<config, call>> /\ Unserved'
    BY <1>1, <2>1, <2>2, <2>4 DEF EnsureInv, Restoring, Refused, RestoredUpTo, ensureVars
  <2>5. CASE Unserved /\ ~(UNCHANGED <<config, call>> /\ Unserved')
    <3> DEFINE r == Wire(call[Program])
    <3>1. /\ Store(Here, r) /\ ~Unserved'
          /\ IF Raises(Here, r) THEN Outcome' \in Errors ELSE Outcome' = Answer(r, Here)
      BY <1>1, <2>5, Served
    <3> QED BY <1>1, <2>1, <2>2, <2>5, <3>1, SetStep
  <2> QED BY <2>3, <2>4, <2>5
<1> QED BY <1>2, <1>5, <1>6, <1>7 DEF EnsureInv

\* Steps that only move the program on leave the commands alone.
LEMMA QuietEnsure ==
  ASSUME EnsureInv, UNCHANGED vars, before' \in {before, config[Here]}
  PROVE  /\ Inv' /\ Settable'
         /\ Unserved' = Unserved /\ Outcome' = Outcome
         /\ before' \in [Scalars -> Values \cup {Missing}]
<1>1. Inv'
  BY NextInv DEF EnsureInv
<1>2. config' = config /\ stage' = stage /\ call' = call
      /\ shown' = shown /\ outer' = outer /\ reply' = reply
  BY DEF vars, serverVars, clientVars
<1>3. Settable' /\ before' \in [Scalars -> Values \cup {Missing}]
  BY <1>2, HereType DEF EnsureInv, Settable, Inv, TypeOK, EnsureTypes
<1> QED BY <1>1, <1>2, <1>3 DEF Unserved, Outcome

\* The block is entered, and dump_state has read nothing.
LEMMA EnterEnsure ==
  ASSUME EnsureInv, Enter
  PROVE  EnsureInv'
<1>1. /\ UNCHANGED <<vars, keys, key, waiting, saved>> /\ context' = "dump"
      /\ before' = config[Here] /\ stage[Program] = "idle"
      /\ key = 1 /\ saved = <<>> /\ ~waiting
  BY DEF EnsureInv, Enter, Paced
<1>2. Inv' /\ Settable' /\ before' \in [Scalars -> Values \cup {Missing}]
  BY <1>1, QuietEnsure
<1>3. config' = config /\ stage' = stage
  BY <1>1 DEF vars, serverVars
<1>4. EnsureTypes'
  BY <1>1, <1>2 DEF EnsureInv, EnsureTypes, Contexts
<1>5. Paced' /\ Remembered' /\ Dumping' /\ Restoring'
  BY <1>1, <1>3, Sizes DEF Paced, Remembered, Dumping, Restoring, Settled
<1> QED BY <1>2, <1>4, <1>5 DEF EnsureInv

\* The block is entered with a state of what the detector has.
LEMMA EnterGivenEnsure ==
  ASSUME EnsureInv, EnterGiven
  PROVE  EnsureInv'
<1>1. /\ UNCHANGED <<vars, key, waiting>> /\ context' = "body" /\ keys' \in Given
      /\ before' = config[Here] /\ key = 1 /\ ~waiting
      /\ saved' = [n \in 1..Len(keys') |-> before'[Field(keys'[n])]]
  BY DEF EnsureInv, EnterGiven, Paced
<1>2. Inv' /\ Settable' /\ before' \in [Scalars -> Values \cup {Missing}]
  BY <1>1, QuietEnsure
<1>3. InOrder(keys') /\ Len(keys') \in Nat
  BY <1>1, EnsureAssumption DEF InOrder
<1>4. \A n \in 1..Len(keys') : before'[Field(keys'[n])] \in Values
  <2> TAKE n \in 1..Len(keys')
  <2>1. keys'[n] \in (Scalars \ Clocks) \cup {"lock"}
    BY <1>3 DEF InOrder
  <2>2. Field(keys'[n]) \in Scalars \ Clocks
    BY <2>1 DEF Field, Scalars, Modes, Clocks
  <2> QED BY <1>1, <2>2, HereType DEF EnsureInv, Inv, ConfigGiven
<1>5. saved' \in Seq(Values) /\ Len(saved') = Len(keys')
  BY <1>1, <1>3, <1>4
<1>6. EnsureTypes'
  BY <1>1, <1>2, <1>3, <1>5 DEF EnsureInv, EnsureTypes, Contexts
<1>7. Paced' /\ Dumping' /\ Restoring'
  BY <1>1 DEF Paced, Dumping, Restoring, Settled
<1>8. Remembered'
  BY <1>1, <1>3, <1>5 DEF Remembered
<1> QED BY <1>2, <1>6, <1>7, <1>8 DEF EnsureInv

\* The next property is asked for.
LEMMA DumpGetEnsure ==
  ASSUME EnsureInv, DumpGet
  PROVE  EnsureInv'
<1>1. key \in 1..Len(keys) /\ context = "dump" /\ config[Here] = before
  BY Sizes DEF EnsureInv, EnsureTypes, DumpGet, Dumping
<1>2. Getting \in Calls
  <2>1. 0 \in Values
    BY CommandsAssumption
  <2> QED BY <1>1, <2>1, AccessWire DEF Getting
<1>3. Inv' /\ UNCHANGED config /\ call'[Program] = Getting /\ stage'[Program] = "sent"
  BY <1>2, AccessInv DEF EnsureInv, DumpGet, Getting
<1>4. waiting' /\ UNCHANGED <<context, keys, key, saved, before>>
  BY DEF DumpGet
<1>5. Unserved'
  BY <1>3 DEF Unserved, Getting
<1>6. EnsureTypes' /\ Settable'
  BY <1>3, <1>4 DEF DumpGet, EnsureInv, EnsureTypes, Settable
<1>7. Paced' /\ Remembered'
  BY <1>1, <1>4 DEF EnsureInv, Paced, Remembered
<1>8. Dumping' /\ Restoring'
  BY <1>1, <1>3, <1>4, <1>5 DEF Dumping, Restoring, Getting
<1> QED BY <1>3, <1>6, <1>7, <1>8 DEF EnsureInv

\* What is got is what was there: it joins the state collected.
LEMMA DumpGotEnsure ==
  ASSUME EnsureInv, DumpGot
  PROVE  EnsureInv'
<1>1. /\ context = "dump" /\ waiting /\ stage[Program] = "idle" /\ waiting' = FALSE
      /\ UNCHANGED <<vars, keys, before>>
  BY DEF DumpGot
<1>2. Inv' /\ Settable' /\ before' \in [Scalars -> Values \cup {Missing}]
  BY <1>1, QuietEnsure
<1>3. /\ key \in 1..Len(keys) /\ config[Here] = before
      /\ config' = config /\ stage' = stage
      /\ saved \in Seq(Values) /\ Len(saved) = key - 1
  BY <1>1, Sizes DEF EnsureInv, EnsureTypes, Paced, Dumping, Remembered,
                     vars, serverVars
<1>4. CASE shown[Program] \in Errors
  <2>1. context' = "refused" /\ UNCHANGED <<key, saved>>
    BY <1>4 DEF DumpGot
  <2>2. EnsureTypes'
    BY <1>1, <1>2, <2>1 DEF EnsureInv, EnsureTypes, DumpGot, Contexts
  <2>3. Paced' /\ Remembered' /\ Dumping' /\ Restoring'
    BY <1>1, <1>3, <2>1, Sizes
    DEF EnsureInv, Paced, Remembered, Dumping, Restoring, Settled
  <2> QED BY <1>2, <2>2, <2>3 DEF EnsureInv
<1>5. CASE shown[Program] \notin Errors
  <2>1. /\ context' = "dump" /\ key' = key + 1
        /\ saved' = Append(saved, shown[Program])
    BY <1>1, <1>5 DEF DumpGot
  <2>2. shown[Program] = before[Field(keys[key])]
    BY <1>1, <1>5 DEF EnsureInv, Dumping, Unserved, Outcome
  <2>3. shown[Program] \in Values
    <3>1. shown[Program] \in Values \cup {None}
      BY <1>5, HereType DEF EnsureInv, Inv, TypeOK
    <3>2. shown[Program] \in Values \cup {Missing}
      BY <1>3, <2>2, FieldType DEF EnsureInv, EnsureTypes
    <3>3. None # Missing
      BY CommandsAssumption
    <3> QED BY <3>1, <3>2, <3>3
  <2>4. EnsureTypes'
    <3>1. saved' \in Seq(Values)
      BY <1>3, <2>1, <2>3
    <3>2. key' \in 1..Len(keys) + 1
      BY <1>3, <2>1, Sizes
    <3>3. context' \in Contexts /\ waiting' \in BOOLEAN
      BY <1>1, <2>1 DEF Contexts
    <3>4. InOrder(keys')
      BY <1>1 DEF EnsureInv, EnsureTypes
    <3> QED BY <1>1, <1>2, <3>1, <3>2, <3>3, <3>4 DEF EnsureTypes
  <2>5. Paced'
    BY <1>1, <1>3, <2>1 DEF Paced
  <2>6. Remembered'
    <3>1. Len(saved') = key /\ key' - 1 = key
      BY <1>3, <2>1, <2>3
    <3>2. \A m \in 1..key : saved'[m] = before[Field(keys[m])]
      BY <1>3, <2>1, <2>2, <2>3 DEF EnsureInv, Remembered
    <3> QED BY <1>1, <1>3, <2>1, <3>1, <3>2 DEF Remembered
  <2>7. Dumping' /\ Restoring'
    BY <1>1, <1>3, <2>1 DEF Dumping, Restoring
  <2> QED BY <1>2, <2>4, <2>5, <2>6, <2>7 DEF EnsureInv
<1> QED BY <1>4, <1>5

\* With all properties read the body runs, which may call what it likes.
LEMMA BeginEnsure ==
  ASSUME EnsureInv, Begin
  PROVE  EnsureInv'
<1>1. /\ context = "dump" /\ ~waiting /\ key > Len(keys) /\ context' = "body"
      /\ UNCHANGED <<vars, keys, key, waiting, saved, before>>
  BY DEF Begin
<1>2. Inv' /\ Settable' /\ before' \in [Scalars -> Values \cup {Missing}]
  BY <1>1, QuietEnsure
<1>3. EnsureTypes'
  BY <1>1 DEF EnsureInv, EnsureTypes, Contexts
<1>4. Remembered'
  BY <1>1, Sizes DEF EnsureInv, EnsureTypes, Remembered
<1>5. Paced' /\ Dumping' /\ Restoring'
  BY <1>1 DEF EnsureInv, Paced, Dumping, Restoring, Settled
<1> QED BY <1>2, <1>3, <1>4, <1>5 DEF EnsureInv

\* Calls outside the two clauses.
LEMMA BodyEnsure ==
  ASSUME EnsureInv, Body
  PROVE  EnsureInv'
<1>1. /\ context \in {"outside", "body"} /\ UNCHANGED ensureVars
      /\ config' = config
  BY DEF Body, Call, serverVars
<1>2. Inv'
  BY CommandsNext DEF EnsureInv
<1>3. Settable' /\ EnsureTypes' /\ Remembered'
  BY <1>1 DEF EnsureInv, Settable, EnsureTypes, Remembered, ensureVars
<1>4. Paced' /\ Dumping' /\ Restoring'
  BY <1>1 DEF EnsureInv, Paced, Dumping, Restoring, Settled, ensureVars
<1> QED BY <1>2, <1>3, <1>4 DEF EnsureInv

\* The finally clause begins with no property back.
LEMMA LeaveEnsure ==
  ASSUME EnsureInv, Leave
  PROVE  EnsureInv'
<1>1. /\ context = "body" /\ stage[Program] = "idle" /\ context' = "restore" /\ key' = 1
      /\ UNCHANGED <<vars, keys, waiting, saved, before>>
  BY DEF Leave
<1>2. Inv' /\ Settable' /\ before' \in [Scalars -> Values \cup {Missing}]
  BY <1>1, QuietEnsure
<1>3. ~waiting' /\ stage' = stage
  BY <1>1 DEF EnsureInv, Paced, vars
<1>4. EnsureTypes'
  BY <1>1, Sizes DEF EnsureInv, EnsureTypes, Contexts
<1>5. Paced' /\ Remembered' /\ Dumping'
  BY <1>1, <1>3 DEF EnsureInv, Paced, Remembered, Dumping, Settled
<1>6. Restoring'
  BY <1>1, <1>3 DEF Restoring, RestoredUpTo
<1> QED BY <1>2, <1>4, <1>5, <1>6 DEF EnsureInv

\* The next property is set to what was read of it.
LEMMA RestoreSetEnsure ==
  ASSUME EnsureInv, RestoreSet
  PROVE  EnsureInv'
<1>1. key \in 1..Len(keys) /\ context = "restore" /\ RestoredUpTo(key - 1)
  BY Sizes DEF EnsureInv, EnsureTypes, RestoreSet, Restoring
<1>2. /\ saved[SavedOf(key)] = before[Field(keys[key])]
      /\ before[Field(keys[key])] \in Values
  <2>1. SavedOf(key) \in 1..Len(keys) /\ keys[SavedOf(key)] = keys[key]
    BY <1>1 DEF SavedOf, KeyAt
  <2>2. /\ Len(saved) = Len(keys) /\ saved \in Seq(Values)
        /\ \A m \in 1..Len(saved) : saved[m] = before[Field(keys[m])]
    BY <1>1 DEF EnsureInv, EnsureTypes, Remembered
  <2> QED BY <2>1, <2>2
<1>3. Setting \in Calls
  BY <1>1, <1>2, AccessWire DEF Setting
<1>4. Inv' /\ UNCHANGED config /\ call'[Program] = Setting /\ stage'[Program] = "sent"
  <2>1. Access("set", keys[key], before[Field(keys[key])])
    BY <1>2 DEF RestoreSet, KeyAt
  <2> QED BY <1>3, <2>1, AccessInv DEF EnsureInv, Setting
<1>5. waiting' /\ UNCHANGED <<context, keys, key, saved, before>>
  BY DEF RestoreSet
<1>6. Unserved'
  BY <1>4 DEF Unserved, Setting
<1>7. EnsureTypes' /\ Settable'
  BY <1>4, <1>5 DEF EnsureInv, EnsureTypes, Settable
<1>8. Paced' /\ Remembered'
  BY <1>1, <1>5 DEF EnsureInv, Paced, Remembered
<1>9. Dumping' /\ Restoring'
  BY <1>1, <1>4, <1>5, <1>6 DEF Dumping, Restoring, Setting, RestoredUpTo
<1> QED BY <1>4, <1>7, <1>8, <1>9 DEF EnsureInv

\* A set that is no error has brought its property back.
LEMMA RestoreDoneEnsure ==
  ASSUME EnsureInv, RestoreDone
  PROVE  EnsureInv'
<1>1. /\ context = "restore" /\ waiting /\ stage[Program] = "idle" /\ waiting' = FALSE
      /\ UNCHANGED <<vars, keys, saved, before>>
  BY DEF RestoreDone
<1>2. Inv' /\ Settable' /\ before' \in [Scalars -> Values \cup {Missing}]
  BY <1>1, QuietEnsure
<1>3. key \in 1..Len(keys) /\ config' = config /\ stage' = stage
  BY <1>1, Sizes DEF EnsureInv, EnsureTypes, Paced, vars, serverVars
<1>4. CASE shown[Program] \in Errors
  <2>1. context' = "raised" /\ UNCHANGED key
    BY <1>4 DEF RestoreDone
  <2>2. EnsureTypes'
    BY <1>1, <1>2, <2>1 DEF EnsureInv, EnsureTypes, Contexts
  <2>3. Paced' /\ Remembered' /\ Dumping'
    BY <1>1, <1>3, <2>1, Sizes DEF EnsureInv, Paced, Remembered, Dumping, Settled
  <2>4. Refused
    BY <1>1, <1>4 DEF EnsureInv, Restoring, Unserved, Outcome
  <2>5. Restoring'
    BY <1>1, <1>3, <2>1, <2>4 DEF Restoring, Refused, RestoredUpTo
  <2> QED BY <1>2, <2>2, <2>3, <2>5 DEF EnsureInv
<1>5. CASE shown[Program] \notin Errors
  <2>1. context' = "restore" /\ key' = key + 1
    BY <1>1, <1>5 DEF RestoreDone
  <2>2. RestoredUpTo(key)
    BY <1>1, <1>5 DEF EnsureInv, Restoring, Unserved, Outcome
  <2>3. EnsureTypes'
    <3>1. key' \in 1..Len(keys) + 1
      BY <1>3, <2>1, Sizes
    <3> QED BY <1>1, <1>2, <2>1, <3>1 DEF EnsureInv, EnsureTypes, Contexts
  <2>4. Paced' /\ Remembered' /\ Dumping'
    BY <1>1, <1>3, <2>1 DEF EnsureInv, Paced, Remembered, Dumping, Settled
  <2>5. Restoring'
    <3>1. key' - 1 = key
      BY <1>3, <2>1
    <3> QED BY <1>1, <1>3, <2>1, <2>2, <3>1 DEF Restoring, RestoredUpTo
  <2> QED BY <1>2, <2>3, <2>4, <2>5 DEF EnsureInv
<1> QED BY <1>4, <1>5

\* The block is left when the last property is back.
LEMMA ExitEnsure ==
  ASSUME EnsureInv, Exit
  PROVE  EnsureInv'
<1>1. /\ context = "restore" /\ ~waiting /\ key > Len(keys) /\ context' = "done"
      /\ UNCHANGED <<vars, keys, key, waiting, saved, before>>
  BY DEF Exit
<1>2. Inv' /\ Settable' /\ before' \in [Scalars -> Values \cup {Missing}]
  BY <1>1, QuietEnsure
<1>3. EnsureTypes'
  BY <1>1 DEF EnsureInv, EnsureTypes, Contexts
<1>4. config' = config /\ stage' = stage
  BY <1>1 DEF vars, serverVars
<1>5. Paced' /\ Remembered' /\ Dumping'
  BY <1>1, <1>4 DEF EnsureInv, Paced, Remembered, Dumping, Settled
<1>6. Restoring'
  <2>1. key - 1 = Len(keys) /\ RestoredUpTo(key - 1)
    BY <1>1, Sizes DEF EnsureInv, EnsureTypes, Restoring
  <2> QED BY <1>1, <1>4, <2>1 DEF Restoring, RestoredUpTo
<1> QED BY <1>2, <1>3, <1>5, <1>6 DEF EnsureInv

\* Every step of the program or of the server keeps the invariant.
LEMMA NextEnsure == EnsureInv /\ [EnsureNext]_allVars => EnsureInv'
<1> SUFFICES ASSUME EnsureInv, [EnsureNext]_allVars PROVE EnsureInv'
  OBVIOUS
<1>1. CASE UNCHANGED allVars
  <2>1. UNCHANGED <<vars, context, keys, key, waiting, saved, before>>
    BY <1>1 DEF allVars, ensureVars
  <2>2. Inv' /\ Settable' /\ Unserved' = Unserved /\ Outcome' = Outcome
    BY <2>1, QuietEnsure
  <2>3. config' = config /\ stage' = stage /\ call' = call
    BY <2>1 DEF vars, serverVars, clientVars
  <2>4. EnsureTypes' /\ Paced' /\ Remembered'
    BY <2>1, <2>3 DEF EnsureInv, EnsureTypes, Paced, Remembered
  <2>5. Dumping' /\ Restoring'
    BY <2>1, <2>2, <2>3
    DEF EnsureInv, Dumping, Restoring, Refused, RestoredUpTo, Getting, Setting
  <2> QED BY <2>2, <2>4, <2>5 DEF EnsureInv
<1>2. CASE EnsureNext
  BY <1>2, EnterEnsure, EnterGivenEnsure, DumpGetEnsure, DumpGotEnsure, BeginEnsure, BodyEnsure, LeaveEnsure,
     RestoreSetEnsure, RestoreDoneEnsure, ExitEnsure, AnswersEnsure DEF EnsureNext
<1> QED BY <1>1, <1>2

-----------------------------------------------------------------------------
(* The theorem *)

\* No property before the one that was refused shares its field with a later one.
LEMMA EnsureInvRestored == EnsureInv => RestoredUpToFailure
<1> SUFFICES ASSUME EnsureInv PROVE RestoredUpToFailure
  OBVIOUS
<1>1. CASE context = "done"
  <2>1. RestoredUpTo(Len(keys))
    BY <1>1 DEF EnsureInv, Restoring
  <2>2. Restored(Len(keys))
    BY <2>1, Sizes DEF RestoredUpTo, Restored
  <2> QED BY <1>1, <2>2 DEF RestoredUpToFailure
<1>2. CASE context = "raised"
  <2>1. keys[key] = "synchronization_mode" /\ RestoredUpTo(key - 1) /\ key \in 1..Len(keys)
    BY <1>2, Sizes DEF EnsureInv, EnsureTypes, Restoring, Refused, Paced
  <2>2. ASSUME NEW n \in key - 1 + 1..Len(keys) PROVE keys[n] # "readout_flags"
    <3>1. CASE n = key
      BY <2>1, <3>1
    <3>2. CASE n # key
      <4>1. n \in key + 1..Len(keys)
        BY <2>1, <3>2, Sizes
      <4>2. Field(keys[n]) # "readout_flags"
        BY <2>1, <4>1 DEF EnsureInv, EnsureTypes, InOrder
      <4> QED BY <4>2 DEF Field
    <3> QED BY <3>1, <3>2
  <2>3. Restored(key - 1)
    BY <2>1, <2>2 DEF RestoredUpTo, Restored
  <2> QED BY <1>2, <2>1, <2>3 DEF RestoredUpToFailure
<1> QED BY <1>1, <1>2 DEF RestoredUpToFailure

\* ensure_state brings the detector back to the state it was entered in, whatever
\* the body called and whatever the configuration was: for the list of dir(), as
\* far as synchronization_mode, which it cannot set; for a state without it, all
\* of it.
THEOREM RestoredCorrect == EnsureSpec => []RestoredUpToFailure
<1>1. EnsureSpec => []EnsureInv
  BY InitEnsure, NextEnsure, PTL DEF EnsureSpec
<1> QED BY <1>1, EnsureInvRestored, PTL
=============================================================================
