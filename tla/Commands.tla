------------------------------ MODULE Commands ------------------------------
(***************************************************************************)
(* The configuration commands: the dispatcher and the handlers of the      *)
(* simulated detectors of one server process (sls/simulator.py), the get   *)
(* and set pairs of sls/protocol.py, and the wrapper that gives each       *)
(* command of sls/client.py its own connection and refreshes the client's  *)
(* cached info.  The commands of an acquisition are in SimServer.          *)
(***************************************************************************)
EXTENDS Integers

CONSTANTS
  Detectors,    \* the detectors of one simulator process
  Clients,      \* client.Detector objects; each runs one command at a time
  DetectorOf,   \* the detector each client is connected to
  HostOf,       \* the host each client runs on
  None,         \* Python's None
  Missing,      \* an attribute that was never set
  SLSError,     \* exception of a command that is answered FAIL
  ConnectionError, \* what it becomes when the message is not found
  NbModules,    \* length of a detector's "modules" list
  NbSignals,    \* length of a detector's "external_signals" list
  Values,       \* values a configuration field may be given
  Requests      \* the calls that clients make

VARIABLES
  config,       \* Detector.config: the fields of each detector
  lists,        \* the lists in it: DEFAULT_DETECTOR_CONFIG's, one for all
  last_client,  \* host in Detector.last_client
  call,         \* what the caller asked of the client.Detector
  stage,        \* where the client's connection and its handler are
  result_type,  \* what _handle_ctrl chose when it took the connection
  reply,        \* the reply on the connection
  outer,        \* return value kept while the wrapper updates the client
  shown,        \* what the last call returned or raised
  info          \* client.Detector._info

serverVars == <<config, lists, last_client>>
clientVars == <<call, outer, shown, info>>
vars == <<serverVars, clientVars, stage, result_type, reply>>

-----------------------------------------------------------------------------
(* What a command addresses *)

Timers == {"nb_frames", "acquisition_time", "frame_period", "delay_after_trigger",
           "nb_gates", "nb_probes", "nb_cycles"}
Speeds == {"clock_divider", "wait_states", "tot_clock_divider", "tot_duty_cycle", "signal_length"}
Modes  == {"master_mode", "external_communication_mode", "synchronization_mode", "readout_flags"}

\* Timers that the configuration does not have: attributes of the Detector.
Clocks == {"actual_time", "measurement_time", "progress"}

Scalars == Timers \cup Speeds \cup Modes \cup Clocks
           \cup {"dynamic_range", "energy_threshold", "nb_modules_x", "nb_modules_y",
                 "external_signal", "lock_server", "type", "id"}

Slots == {"settings", "module", "serial_nb"} \X (0..NbModules - 1)
         \cup {"external_signals"} \X (0..NbSignals - 1)

GET_CODE == -1

ListFields == {"settings", "module", "serial_nb", "external_signal"}

Calls == {c \in [op : {"get", "set", "update"}, index : Int, value : Values,
                  field : Scalars \cup ListFields \cup {"lock"}] :
            c.field = "module" => c.index \in Values}

Updated == Timers \cup {"nb_modules_x", "dynamic_range", "energy_threshold"}

\* What UPDATE_CLIENT reports.
Snapshots == [Updated -> Values]

Errors == {SLSError, ConnectionError}

ASSUME CommandsAssumption ==
  /\ DetectorOf \in [Clients -> Detectors]
  /\ NbModules \in Nat /\ NbSignals \in Nat
  /\ Values \subseteq Int /\ {0, 1, 32} \subseteq Values
  /\ ({None, Missing} \cup Errors) \cap Int = {} /\ None \notin {Missing} \cup Errors
  /\ None \notin Snapshots
  /\ Requests \subseteq Calls
  /\ \A c \in Requests : c.op = "set" => c.field \notin {"type", "id", "serial_nb"}

Default(f) == CASE f = "dynamic_range" -> 32
                [] f \in Clocks        -> Missing
                [] OTHER               -> 0

Init ==
  /\ config = [d \in Detectors |-> [f \in Scalars |-> Default(f)]]
  /\ lists = [s \in Slots |-> 0]
  /\ last_client = [d \in Detectors |-> None]
  /\ call = [k \in Clients |-> None]
  /\ stage = [k \in Clients |-> "idle"]
  /\ result_type = [k \in Clients |-> "OK"]
  /\ reply = [k \in Clients |-> None]
  /\ outer = [k \in Clients |-> None]
  /\ shown = [k \in Clients |-> None]
  /\ info = [k \in Clients |-> None]

-----------------------------------------------------------------------------
(* The request that a call of the client sends *)

\* The lock property reads and writes the readout flags; dynamic range 24 is
\* 32 for the detector.  Every other call is sent as it is.
Wire(c) ==
  IF c.field = "lock"
  THEN [c EXCEPT !.field = "readout_flags",
                 !.value = IF c.op = "set" /\ @ # 0 THEN 1 ELSE 0]
  ELSE IF c.field = "dynamic_range" /\ c.op = "set" /\ c.value = 24
       THEN [c EXCEPT !.value = 32]
       ELSE c

-----------------------------------------------------------------------------
(* The handlers *)

\* Python's list index: negative ones count from the end.
ListIndex(i, n) == IF i \in -n..-1 THEN i + n ELSE i

\* external_signal has a global value, at index -1, and a list.
InList(r) == r.field \in {"settings", "module", "serial_nb"}
             \/ (r.field = "external_signal" /\ r.index # -1)

SlotOf(r) == IF r.field = "external_signal"
             THEN <<"external_signals", ListIndex(r.index, NbSignals)>>
             ELSE <<r.field, ListIndex(r.index, NbModules)>>

\* set_module and set_energy_threshold are commands of their own; the others
\* set unless the value is GET_CODE.
Sets(r) == r.op = "set" /\ (r.value # GET_CODE \/ r.field \in {"module", "energy_threshold"})

\* Values that the enumeration the handler converts to has.
Converts(r) ==
  CASE r.field = "master_mode"                 -> r.value \in 0..2
    [] r.field = "external_communication_mode" -> r.value \in 0..6
    [] r.field = "external_signal"             -> r.value \in 0..15
    [] OTHER                                   -> TRUE

Stored(d, r) == IF InList(r) THEN lists[SlotOf(r)] ELSE config[d][r.field]

\* Mutant of Raises: reading what was never set is no error.
RaisesLess(d, r) ==
  \/ InList(r) /\ SlotOf(r) \notin Slots
  \/ Sets(r) /\ ~Converts(r)
  \/ Sets(r) /\ r.field = "synchronization_mode"
  \/ r.field = "actual_time"

\* The handler raises: IndexError, ValueError, the NameErrors of
\* synchronization_mode and of ACTUAL_TIME, AttributeError.
Raises(d, r) ==
  \/ InList(r) /\ SlotOf(r) \notin Slots
  \/ Sets(r) /\ ~Converts(r)
  \/ Sets(r) /\ r.field = "synchronization_mode"
  \/ r.field = "actual_time"
  \/ ~Sets(r) /\ ~InList(r) /\ config[d][r.field] = Missing

\* Mutant of Writes: the value is stored before it is converted.
WritesUnconverted(d, r) == Sets(r) /\ (InList(r) => SlotOf(r) \in Slots)

\* ACTUAL_TIME stores its value before it fails.
Writes(d, r) == Sets(r) /\ (~Raises(d, r) \/ r.field = "actual_time")

\* SET_MODULE also writes the settings of the module.
Store(d, r) ==
  \/ /\ ~Writes(d, r)
     /\ UNCHANGED <<config, lists>>
  \/ /\ Writes(d, r) /\ ~InList(r)
     /\ config' = [config EXCEPT ![d][r.field] = r.value]
     /\ UNCHANGED lists
  \/ /\ Writes(d, r) /\ InList(r)
     /\ lists' = [s \in Slots |->
                    IF s = SlotOf(r) \/ (r.field = "module" /\ s = <<"settings", SlotOf(r)[2]>>)
                    THEN r.value ELSE lists[s]]
     /\ UNCHANGED config

\* SET_MODULE answers the number of the module.
Answer(r, d) == IF ~Sets(r) THEN Stored(d, r)
                ELSE IF r.field = "module" THEN r.index ELSE r.value

Reply(type, value, news) == [result |-> type, value |-> value, news |-> news]

-----------------------------------------------------------------------------
(* A command of client k *)

Request(k, c, s) ==
  /\ call' = [call EXCEPT ![k] = c]
  /\ stage' = [stage EXCEPT ![k] = s]

\* The caller makes a call: connect, and the request is on its way.
Call(k) ==
  /\ stage[k] = "idle"
  /\ \E c \in Requests : Request(k, c, "sent")
  /\ UNCHANGED <<serverVars, outer, shown, info, result_type, reply>>

\* The greenlet of the connection starts: the type of its reply is chosen
\* before the command is read, which may be later.
Accept(k) ==
  /\ stage[k] = "sent"
  /\ stage' = [stage EXCEPT ![k] = "accepted"]
  /\ result_type' = [result_type EXCEPT ![k] =
       IF last_client[DetectorOf[k]] = HostOf[k] THEN "OK" ELSE "FORCE_UPDATE"]
  /\ UNCHANGED <<serverVars, clientVars, reply>>

\* The command has arrived: its handler runs, without switching, and answers.
Handle(k) ==
  LET d == DetectorOf[k]
      r == Wire(call[k])
  IN /\ stage[k] = "accepted"
     /\ r.op # "update"
     /\ Store(d, r)
     /\ reply' = [reply EXCEPT ![k] =
          IF Raises(d, r) THEN Reply("FAIL", None, None)
          ELSE Reply(result_type[k], Answer(r, d), None)]
     /\ stage' = [stage EXCEPT ![k] = "replied"]
     /\ UNCHANGED <<last_client, clientVars, result_type>>

\* UPDATE_CLIENT: the fields it reports, and who is now the last client.
UpdateClient(k) ==
  LET d == DetectorOf[k]
  IN /\ stage[k] = "accepted"
     /\ call[k].op = "update"
     /\ reply' = [reply EXCEPT ![k] =
          Reply(result_type[k], None, [f \in Updated |-> config[d][f]])]
     /\ last_client' = [last_client EXCEPT ![d] = HostOf[k]]
     /\ stage' = [stage EXCEPT ![k] = "replied"]
     /\ UNCHANGED <<config, lists, clientVars, result_type>>

\* The call returns, or raises, and its connection is closed.
Returns(k, value) ==
  /\ shown' = [shown EXCEPT ![k] = value]
  /\ outer' = [outer EXCEPT ![k] = None]
  /\ Request(k, None, "idle")

\* request_reply raises SLSError, which the wrapper does not catch.  The message
\* is read from the socket: if the buffered reader has already taken it with the
\* FAIL, what is read is the end of the stream.
ReplyFail(k) ==
  /\ stage[k] = "replied" /\ reply[k].result = "FAIL"
  /\ \E error \in Errors : Returns(k, error)
  /\ reply' = [reply EXCEPT ![k] = None]
  /\ UNCHANGED <<serverVars, info, result_type>>

\* Mutant of NeedsUpdate: only a forced update refreshes the info.
NeedsUpdateForced(k) == reply[k].result = "FORCE_UPDATE"

NeedsUpdate(k) == reply[k].result = "FORCE_UPDATE" \/ info[k] = None

\* The call is over, unless auto_ctrl_connect has the client updated first.
ReplyOK(k) ==
  /\ stage[k] = "replied" /\ call[k].op # "update" /\ reply[k].result # "FAIL"
  /\ \/ /\ NeedsUpdate(k)
        /\ outer' = [outer EXCEPT ![k] = reply[k].value]
        /\ Request(k, [call[k] EXCEPT !.op = "update"], "sent")
        /\ UNCHANGED shown
     \/ /\ ~NeedsUpdate(k)
        /\ Returns(k, reply[k].value)
  /\ reply' = [reply EXCEPT ![k] = None]
  /\ UNCHANGED <<serverVars, info, result_type>>

\* update_client returns, to the caller or to the wrapper that called it.
ReplyUpdate(k) ==
  /\ stage[k] = "replied" /\ call[k].op = "update"
  /\ info' = [info EXCEPT ![k] = reply[k].news]
  /\ Returns(k, outer[k])
  /\ reply' = [reply EXCEPT ![k] = None]
  /\ UNCHANGED <<serverVars, result_type>>

Server(k) == Accept(k) \/ Handle(k) \/ UpdateClient(k)
Client(k) == Call(k) \/ ReplyFail(k) \/ ReplyOK(k) \/ ReplyUpdate(k)

Next == \E k \in Clients : Server(k) \/ Client(k)

Spec == Init /\ [][Next]_vars

-----------------------------------------------------------------------------
(* Properties *)

Stages == {"idle", "sent", "accepted", "replied"}
Replies == [result : {"OK", "FORCE_UPDATE", "FAIL"}, value : Values \cup {None},
            news : Snapshots \cup {None}]

TypeOK ==
  /\ config \in [Detectors -> [Scalars -> Values \cup {Missing}]]
  /\ lists \in [Slots -> Values]
  /\ call \in [Clients -> Calls \cup {None}]
  /\ stage \in [Clients -> Stages]
  /\ result_type \in [Clients -> {"OK", "FORCE_UPDATE"}]
  /\ reply \in [Clients -> Replies \cup {None}]
  /\ outer \in [Clients -> Values \cup {None}]
  /\ shown \in [Clients -> Values \cup {None} \cup Errors]
  /\ info \in [Clients -> Snapshots \cup {None}]

\* A command that is answered FAIL has not changed the configuration of any
\* detector (the attribute that ACTUAL_TIME leaves behind is not part of it).
FailChangesNothing ==
  [][\A k \in Clients :
       stage[k] = "accepted" /\ stage'[k] = "replied" /\ reply'[k].result = "FAIL"
         => /\ lists' = lists
            /\ \A d \in Detectors : \A f \in Scalars \ Clocks :
                 config'[d][f] = config[d][f]]_vars

\* A client.Detector that got an answer knows the detector: its info is there,
\* also when another program on its host already was the last client.
AnsweredIsInformed ==
  \A k \in Clients : shown[k] \notin {None} \cup Errors => info[k] # None
=============================================================================
