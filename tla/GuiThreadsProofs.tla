-------------------------- MODULE GuiThreadsProofs --------------------------
(***************************************************************************)
(* Theorems about the window of the GUI, for any number of monitors, of    *)
(* acquisitions, of frames, of presses and of foreign stops.  GuiInv is    *)
(* enough for the buttons, whatever the threads do to each other's         *)
(* Connections: the button and acq_thread are functions of where the       *)
(* acquisition thread is, and a stop since the start of an acquisition     *)
(* keeps the flag until its end.  ProgramInv is what holds of the whole    *)
(* program: the control Connection is the acquisition thread's alone, so   *)
(* that what it has got, what is to be read on its TCP connection and what *)
(* the simulator has still to produce are always all the frames.           *)
(***************************************************************************)
EXTENDS GuiThreads, ClientThreadsProofs

Ended == place \in {"over", "forgotten"}

WindowTypes == /\ enabled \in BOOLEAN /\ acq_thread \in BOOLEAN
               /\ stop \in BOOLEAN /\ pressed \in BOOLEAN /\ dialog \in BOOLEAN

\* The button is enabled exactly while there is no acquisition thread.
ButtonFollows == enabled = (place = "over") /\ acq_thread = ~Ended

\* The flag of a stop is there until the thread's finally clause.
StopRemembered == pressed /\ ~Ended => stop

GuiInv == WindowTypes /\ ButtonFollows /\ StopRemembered

-----------------------------------------------------------------------------
(* Induction *)

\* The window starts without an acquisition.
LEMMA GuiInvInit == GuiInit => GuiInv
  BY DEF GuiInit, GuiInv, WindowTypes, ButtonFollows, StopRemembered, Ended

\* A step of a call, of the simulator or of another program leaves the window.
LEMMA WindowUntouched ==
  ASSUME GuiInv, UNCHANGED guiVars
  PROVE  GuiInv'
  BY DEF GuiInv, WindowTypes, ButtonFollows, StopRemembered, Ended, guiVars

\* The two buttons keep the invariant.
LEMMA QtStepInv ==
  ASSUME GuiInv, StartPressed \/ StopPressed
  PROVE  GuiInv'
<1>1. CASE StartPressed
  BY <1>1 DEF StartPressed, GuiInv, WindowTypes, ButtonFollows, StopRemembered, Ended
<1>2. CASE StopPressed
  BY <1>2 DEF StopPressed, GuiInv, WindowTypes, ButtonFollows, StopRemembered, Ended
<1> QED BY <1>1, <1>2

\* The acquisition thread keeps the invariant.
LEMMA AcqStepInv ==
  ASSUME GuiInv, AcqStep
  PROVE  GuiInv'
<1> USE DEF GuiInv, WindowTypes, ButtonFollows, StopRemembered, Ended
<1>1. CASE AcqPrepares \/ AcqStarts \/ AcqFetches \/ AcqFinishes \/ AcqStops \/ AcqLeaves
           \/ AcqStopsAgain
  BY <1>1 DEF AcqPrepares, AcqStarts, AcqFetches, AcqFinishes, AcqStops, AcqLeaves,
              AcqStopsAgain, From, OnlyPlace
<1>2. CASE AcqFetched
  BY <1>2 DEF AcqFetched
<1>3. CASE AcqRaised
  BY <1>3 DEF AcqRaised, From
<1>4. CASE AcqFinally
  BY <1>4 DEF AcqFinally, From
<1>5. CASE AcqEnables
  BY <1>5 DEF AcqEnables, From
<1> QED BY <1>1, <1>2, <1>3, <1>4, <1>5 DEF AcqStep

\* A monitor reads the window and changes nothing of it.
LEMMA MonitorStepInv ==
  ASSUME GuiInv, NEW m \in Monitors, MonitorStep(m)
  PROVE  GuiInv'
  BY DEF MonitorStep, MonitorPolls, MonitorAnswered, MonitorEnds,
         GuiInv, WindowTypes, ButtonFollows, StopRemembered, Ended

\* Every step keeps the invariant.
LEMMA GuiInvNext == GuiInv /\ [GuiNext]_programVars => GuiInv'
<1> SUFFICES ASSUME GuiInv, [GuiNext]_programVars PROVE GuiInv'
  OBVIOUS
<1>1. CASE StartPressed \/ StopPressed
  BY <1>1, QtStepInv
<1>2. CASE AcqStep
  BY <1>2, AcqStepInv
<1>3. CASE \E m \in Monitors : MonitorStep(m)
  BY <1>3, MonitorStepInv
<1>4. CASE \/ Stopped \/ (\E t \in Threads : Calling(t)) \/ (\E s \in Sockets : Serving(s))
           \/ UNCHANGED programVars
  BY <1>4, WindowUntouched DEF Stopped, Calling, Serving, programVars
<1> QED BY <1>1, <1>2, <1>3, <1>4 DEF GuiNext

\* The invariant holds of every behaviour.
LEMMA GuiInvCorrect == GuiSpec => []GuiInv
  BY GuiInvInit, GuiInvNext, PTL DEF GuiSpec

-----------------------------------------------------------------------------
(* The theorems of the buttons *)

\* The button is offered only when the thread of the last acquisition has let go
\* of the window, so that two acquisition threads never run.
THEOREM OneAcquisitionCorrect == GuiSpec => []OneAcquisition
<1>1. GuiInv => OneAcquisition
  BY DEF GuiInv, WindowTypes, ButtonFollows, Ended, OneAcquisition
<1> QED BY <1>1, GuiInvCorrect, PTL

\* No error of an acquisition is shown after the user stopped it.
THEOREM StopIsQuietCorrect == GuiSpec => StopIsQuiet
<1>1. ASSUME GuiInv, [GuiNext]_programVars, dialog', ~dialog
      PROVE  ~pressed
  <2>1. AcqRaised
    <3>1. CASE StartPressed \/ StopPressed
      BY <1>1, <3>1 DEF StartPressed, StopPressed, GuiInv, WindowTypes
    <3>2. CASE AcqStep
      BY <1>1, <3>2 DEF AcqStep, AcqPrepares, AcqStarts, AcqFetches, AcqFetched, AcqFinishes,
         AcqStops, AcqLeaves, AcqStopsAgain, AcqFinally, AcqEnables, From, OnlyPlace
    <3>3. CASE \E m \in Monitors : MonitorStep(m)
      BY <1>1, <3>3 DEF MonitorStep, MonitorPolls, MonitorAnswered, MonitorEnds
    <3>4. CASE \/ Stopped \/ (\E t \in Threads : Calling(t)) \/ (\E s \in Sockets : Serving(s))
               \/ UNCHANGED programVars
      BY <1>1, <3>4 DEF Stopped, Calling, Serving, programVars, guiVars
    <3> QED BY <1>1, <3>1, <3>2, <3>3, <3>4 DEF GuiNext
  <2> QED
    BY <1>1, <2>1 DEF AcqRaised, From, GuiInv, WindowTypes, StopRemembered, Ended
<1>2. GuiInv /\ [GuiNext]_programVars => [dialog' /\ ~dialog => ~pressed]_programVars
  BY <1>1
<1> QED BY <1>2, GuiInvCorrect, PTL DEF GuiSpec, StopIsQuiet

-----------------------------------------------------------------------------
(* The window over its Connections *)

PlaceTypes == /\ place \in AcqPlaces /\ monitor \in [Monitors -> {"over", "polling", "asking"}]
              /\ runs \in 0..Runs /\ presses \in 0..Presses /\ shown \in 0..Frames

\* Only a stopped acquisition has the flag; only its end raises the dialog.
Flags == /\ stop => pressed
         /\ place \notin {"over", "forgotten", "finally"} => ~dialog
         /\ place # "over" => runs \in 1..Runs

\* Only the acquisition thread uses the control Connection.
CtrlUser ==
  /\ "ctrl" \notin crossed
  /\ \A t \in Threads \ {Acq} : /\ "ctrl" \notin inside[t]
                                /\ at[t] # "idle" => Object(t) = "stop"

\* The call that the acquisition thread makes where it is.
AcqCalls ==
  at[Acq] # "idle" =>
    \/ place \in {"timing", "updating", "ready"} /\ call[Acq] = Ask("ctrl", "COMMAND", Acq)
    \/ /\ place = "streaming" /\ call[Acq] = Ask("ctrl", "START", runs)
       /\ at[Acq] \in {"connect", "assign", "write"}
    \/ /\ place = "fetching" /\ call[Acq] = Ask("ctrl", "FRAME", runs)
       /\ at[Acq] \in {"reading", "test", "clear"}
    \/ place \in {"finally", "leaving"} /\ call[Acq] = Ask("ctrl", "CLOSE", Acq)
    \/ place \in {"stopping", "raised"} /\ call[Acq] = Ask("stop", "STOP", Acq)

Streaming == place = "streaming" /\ at[Acq] = "idle"

\* START left its block open, until its exit.
InBlock ==
  Streaming \/ place \in {"fetching", "finished", "failed", "stopping"} =>
    /\ "ctrl" \in inside[Acq]
    /\ reader["ctrl"] \in Sides("ctrl")
    /\ Speaks(reader["ctrl"], runs)

\* Frames that the acquisition thread has got.
Got == IF place = "fetching" /\ at[Acq] = "idle" THEN shown + 1 ELSE shown

Flowing == Streaming \/ (place = "fetching" /\ (at[Acq] = "idle" => result[Acq] = "frame"))

\* What the window has got and what is still to come are all the frames.
Flow == Flowing => FlowOf(reader["ctrl"], Got)

\* What the window has of it.
Shown ==
  /\ place \in {"new", "timing", "updating", "ready"} \/ (place = "streaming" /\ at[Acq] # "idle")
       => shown = 0
  /\ place = "fetching" /\ at[Acq] = "reading" => waits[Acq] = reader["ctrl"]
  /\ place = "fetching" /\ at[Acq] \in {"test", "clear"} => result[Acq] = "ConnectionError"
  /\ place = "fetching" /\ at[Acq] = "idle" =>
       /\ result[Acq] \in {"frame", "last"} => shown + 1 <= Frames
       /\ result[Acq] = "last" => shown + 1 = Frames
  /\ place = "finished" => shown = Frames
  /\ place \in {"finally", "forgotten"} /\ ~dialog /\ ~pressed => shown = Frames

AcqInv == AcqCalls /\ InBlock /\ Flow /\ Shown

ProgramInv == GuiInv /\ PlaceTypes /\ Flags /\ SharedInv /\ OwnInv /\ CtrlUser /\ AcqInv

-----------------------------------------------------------------------------
(* Steps that the acquisition thread does not see *)

\* The threads of the program, and the tags of its calls.
LEMMA ProgramThreads ==
  /\ Qt \in Threads /\ Acq \in Threads /\ Monitors \subseteq Threads \ {Acq} /\ Qt # Acq
  /\ Threads \subseteq Tags /\ 1..Runs \subseteq Tags /\ None \notin Sockets
  /\ {"ctrl", "stop"} = Objects
  BY GuiAssumption, ThreadsAssumption, OneSide DEF Objects

\* Nothing happens to the acquisition thread, its call and its Connection.
AcqSees ==
  /\ at'[Acq] = at[Acq] /\ call'[Acq] = call[Acq] /\ waits'[Acq] = waits[Acq]
  /\ result'[Acq] = result[Acq] /\ inside'[Acq] = inside[Acq]
  /\ reader'["ctrl"] = reader["ctrl"]
  /\ \A x \in Sides("ctrl") :
       /\ request'[x] = request[x] /\ replies'[x] = replies[x]
       /\ handler'[x] = handler[x] /\ left'[x] = left[x]

\* What it has come to stays, while the window does not forget a stop.
LEMMA AcqApart ==
  ASSUME AcqInv, AcqSees, UNCHANGED <<place, runs, shown>>,
         ~dialog' /\ ~pressed' => ~dialog /\ ~pressed
  PROVE  AcqInv'
<1>1. AcqCalls' /\ Shown'
  BY DEF AcqInv, AcqCalls, Shown, AcqSees, Ask
<1>2. InBlock'
  BY DEF AcqInv, InBlock, AcqSees, Streaming, Speaks
<1>3. Flow'
  <2>1. Flowing' = Flowing /\ Got' = Got
    BY DEF Flowing, Streaming, Got, AcqSees
  <2>2. Flowing => reader["ctrl"] \in Sides("ctrl")
    BY DEF AcqInv, InBlock, Flowing, Streaming
  <2>3. ASSUME NEW x \in Sides("ctrl"), FlowOf(x, Got) PROVE FlowOf(x, Got)'
    BY <2>1, <2>3 DEF FlowOf, AcqSees
  <2> QED BY <2>1, <2>2, <2>3 DEF AcqInv, Flow, FlowOf, AcqSees
<1> QED BY <1>1, <1>2, <1>3 DEF AcqInv

\* Another thread begins a call on the stop Connection.
LEMMA StopBegins ==
  ASSUME SharedInv, OwnInv, CtrlUser, NEW t \in Threads \ {Acq},
         NEW c \in Commands \ {"FRAME", "CLOSE"}, Begin(t, "stop", c, t)
  PROVE  SharedInv' /\ OwnInv' /\ CtrlUser' /\ AcqSees
<1>1. t \in Threads /\ "stop" \in Objects /\ t \in Tags /\ c \in Commands
  BY ProgramThreads
<1>2. SharedInv'
  BY <1>1, BeginShared
<1>3. OwnInv'
  BY <1>1, BeginOwn
<1>4. /\ \A u \in Threads \ {t} : at'[u] = at[u] /\ call'[u] = call[u] /\ waits'[u] = waits[u]
                                  /\ result'[u] = result[u]
      /\ call'[t].object = "stop"
      /\ UNCHANGED <<sock, reader, local, inside, crossed, serverVars, mixed>>
  BY DEF Begin, Goes, SharedInv, ThreadsTypeOK
<1>5. CtrlUser'
  BY <1>4 DEF CtrlUser, Object
<1>6. AcqSees
  BY <1>4, ProgramThreads DEF AcqSees, serverVars
<1> QED BY <1>2, <1>3, <1>5, <1>6

\* Another thread goes on with a call on the stop Connection.
LEMMA StopCalls ==
  ASSUME SharedInv, OwnInv, CtrlUser, NEW t \in Threads \ {Acq}, CallStep(t)
  PROVE  SharedInv' /\ OwnInv' /\ CtrlUser' /\ AcqSees
<1>1. SharedInv' /\ OwnInv' /\ TouchesOwn(t)
  BY CallShared, CallOwn, CallTouches
<1>2. Object(t) = "stop"
  BY CallKeeps DEF CtrlUser
<1>3. Sides("ctrl") \subseteq Sockets \ Sides("stop")
  BY OneSide, ProgramThreads
<1>4. AcqSees
  BY <1>1, <1>2, <1>3, ProgramThreads DEF AcqSees, TouchesOwn
<1>5. CtrlUser'
  <2>1. "ctrl" \notin crossed'
    BY <1>2, CallKeeps DEF CtrlUser
  <2>2. "ctrl" \notin inside'[t] /\ (at'[t] # "idle" => Object(t)' = "stop")
    BY <1>2, CallKeeps DEF CtrlUser
  <2>3. ASSUME NEW u \in Threads \ {Acq, t}
        PROVE  "ctrl" \notin inside'[u] /\ (at'[u] # "idle" => Object(u)' = "stop")
    BY <1>1 DEF TouchesOwn, CtrlUser, Object
  <2> QED BY <2>1, <2>2, <2>3 DEF CtrlUser
<1> QED BY <1>1, <1>4, <1>5

-----------------------------------------------------------------------------
(* Steps of the simulator and of other programs *)

\* The simulator and other programs leave the threads where they are, and the
\* acquisition thread its frames.
LEMMA ServerProgram ==
  ASSUME ProgramInv, (\E s \in Sockets : Serving(s)) \/ Stopped
  PROVE  ProgramInv'
<1>1. UNCHANGED guiVars /\ ((\E s \in Sockets : ServerStep(s)) \/ ForeignStop)
  BY DEF Serving, Stopped
<1>2. UNCHANGED clientVars /\ \A x \in Sockets : Served1(x)
  BY <1>1, ServerTouches DEF ProgramInv
<1>3. GuiInv' /\ SharedInv' /\ OwnInv'
  BY <1>1, WindowUntouched, ServerShared, ServerOwn DEF ProgramInv
<1>4. PlaceTypes' /\ Flags' /\ CtrlUser'
  BY <1>1, <1>2 DEF ProgramInv, PlaceTypes, Flags, CtrlUser, Object, guiVars, clientVars
<1>5. AcqCalls' /\ Shown'
  BY <1>1, <1>2 DEF ProgramInv, AcqInv, AcqCalls, Shown, guiVars, clientVars, Ask
<1>6. InBlock'
  <2>1. ASSUME NEW x \in Sides("ctrl"), Speaks(x, runs) PROVE Speaks(x, runs)'
    <3>1. PICK tag : tag = runs
      OBVIOUS
    <3>2. Speaks(x, tag)'
      BY <1>2, <2>1, <3>1, SpeaksStays, OneSide, ProgramThreads DEF ProgramInv
    <3> QED BY <1>1, <3>1, <3>2 DEF guiVars, Speaks
  <2> QED BY <1>1, <1>2, <2>1 DEF ProgramInv, AcqInv, InBlock, Streaming, guiVars, clientVars, Speaks
<1>7. Flow'
  <2>1. Flowing' = Flowing /\ Got' = Got /\ reader' = reader
    BY <1>1, <1>2 DEF Flowing, Streaming, Got, guiVars, clientVars
  <2>2. SUFFICES ASSUME Flowing PROVE FlowOf(reader["ctrl"], Got)'
    BY <2>1 DEF Flow
  <2>3. PICK x \in Sockets : x = reader["ctrl"]
    BY <2>2, OneSide, ProgramThreads DEF ProgramInv, AcqInv, InBlock, Flowing, Streaming
  <2>4. PICK got \in Nat : got = Got
    BY ThreadsAssumption DEF Got, ProgramInv, PlaceTypes
  <2>5. FlowOf(x, got) /\ Connected(x)
    BY <2>2, <2>3, <2>4, ProgramThreads DEF ProgramInv, AcqInv, Flow, Connected
  <2>6. FlowOf(x, got)'
    BY <1>1, <2>5, FlowStays DEF ProgramInv
  <2> QED BY <2>1, <2>3, <2>4, <2>6 DEF FlowOf
<1> QED BY <1>3, <1>4, <1>5, <1>6, <1>7 DEF ProgramInv, AcqInv

-----------------------------------------------------------------------------
(* The buttons and the monitors *)

\* A new acquisition begins with nothing shown.
LEMMA StartProgram ==
  ASSUME ProgramInv, StartPressed
  PROVE  ProgramInv'
<1>1. GuiInv' /\ place = "over" /\ place' = "new" /\ shown' = 0 /\ ~dialog' /\ ~stop'
  BY QtStepInv DEF ProgramInv, StartPressed, GuiInv, ButtonFollows
<1>2. runs' = runs + 1 /\ runs < Runs /\ UNCHANGED <<threadVars, presses>>
  BY DEF StartPressed
<1>3. monitor' \in [Monitors -> {"over", "polling", "asking"}]
  BY DEF StartPressed, ProgramInv, PlaceTypes
<1>4. PlaceTypes' /\ Flags'
  BY <1>1, <1>2, <1>3, ThreadsAssumption, GuiAssumption DEF ProgramInv, PlaceTypes, Flags, AcqPlaces
<1>5. SharedInv' /\ OwnInv' /\ CtrlUser'
  BY <1>2, ThreadsStay DEF ProgramInv, CtrlUser, Object, threadVars, clientVars
<1>6. AcqInv'
  <2>1. at[Acq] = "idle" /\ UNCHANGED at
    BY <1>1, <1>2 DEF ProgramInv, AcqInv, AcqCalls, threadVars, clientVars
  <2> QED BY <1>1, <2>1 DEF AcqInv, AcqCalls, InBlock, Flow, Flowing, Streaming, Shown
<1> QED BY <1>1, <1>4, <1>5, <1>6 DEF ProgramInv

\* The stop button begins a call on the stop Connection.
LEMMA StopProgram ==
  ASSUME ProgramInv, StopPressed
  PROVE  ProgramInv'
<1>1. /\ Begin(Qt, "stop", "STOP", Qt)
      /\ presses < Presses /\ presses' = presses + 1 /\ stop' = TRUE /\ pressed' = TRUE
      /\ UNCHANGED <<acq_thread, enabled, place, monitor, runs, shown, dialog>>
  BY DEF StopPressed
<1>2. SharedInv' /\ OwnInv' /\ CtrlUser' /\ AcqSees
  BY <1>1, StopBegins, ProgramThreads DEF ProgramInv, Commands
<1>3. AcqInv'
  BY <1>1, <1>2, AcqApart DEF ProgramInv
<1>4. PlaceTypes' /\ Flags'
  BY <1>1, GuiAssumption DEF ProgramInv, PlaceTypes, Flags
<1> QED BY <1>2, <1>3, <1>4, QtStepInv DEF ProgramInv

\* A monitor asks on the stop Connection.
LEMMA MonitorProgram ==
  ASSUME ProgramInv, NEW m \in Monitors, MonitorStep(m)
  PROVE  ProgramInv'
<1>1. /\ UNCHANGED <<stop, acq_thread, enabled, place, runs, presses, shown, dialog, pressed>>
      /\ monitor' \in [Monitors -> {"over", "polling", "asking"}]
  BY DEF MonitorStep, MonitorPolls, MonitorAnswered, MonitorEnds, ProgramInv, PlaceTypes
<1>2. SharedInv' /\ OwnInv' /\ CtrlUser' /\ AcqSees
  <2>1. CASE Begin(m, "stop", "TIME_LEFT", m)
    BY <2>1, StopBegins, ProgramThreads DEF ProgramInv, Commands
  <2>2. CASE UNCHANGED threadVars
    BY <2>2, ThreadsStay DEF ProgramInv, CtrlUser, AcqSees, Object, threadVars, clientVars, serverVars
  <2> QED BY <2>1, <2>2 DEF MonitorStep, MonitorPolls, MonitorAnswered, MonitorEnds
<1>3. AcqInv'
  BY <1>1, <1>2, AcqApart DEF ProgramInv
<1>4. PlaceTypes' /\ Flags'
  BY <1>1 DEF ProgramInv, PlaceTypes, Flags
<1> QED BY <1>2, <1>3, <1>4, MonitorStepInv DEF ProgramInv

-----------------------------------------------------------------------------
(* The acquisition thread *)

\* Steps that make no call: what was fetched is judged, and the end of the thread.
LEMMA AcqMoves ==
  ASSUME ProgramInv, AcqFetched \/ AcqRaised \/ AcqFinally \/ AcqEnables
  PROVE  ProgramInv'
<1>1. UNCHANGED threadVars /\ UNCHANGED <<monitor, runs, presses, pressed>> /\ at[Acq] = "idle"
  BY DEF AcqFetched, AcqRaised, AcqFinally, AcqEnables, From, Idle
<1>2. UNCHANGED <<at, call, waits, result, inside, reader, request, replies, handler, left, crossed>>
  BY <1>1 DEF threadVars, clientVars, serverVars
<1>3. SharedInv' /\ OwnInv' /\ CtrlUser'
  BY <1>1, <1>2, ThreadsStay DEF ProgramInv, CtrlUser, Object
<1>4. GuiInv'
  BY AcqStepInv DEF AcqStep, ProgramInv
<1>5. PlaceTypes' /\ Flags'
  <2>1. CASE AcqFetched
    BY <1>1, <1>2, <2>1 DEF AcqFetched, ProgramInv, PlaceTypes, Flags, AcqPlaces, AcqInv, Shown
  <2>2. CASE AcqRaised \/ AcqFinally \/ AcqEnables
    BY <1>1, <2>2 DEF AcqRaised, AcqFinally, AcqEnables, From, ProgramInv, PlaceTypes, Flags,
       AcqPlaces
  <2> QED BY <2>1, <2>2
<1>6. AcqCalls'
  BY <1>1, <1>2 DEF AcqCalls
<1>7. InBlock'
  <2>1. CASE AcqFetched
    BY <1>1, <1>2, <2>1 DEF AcqFetched, ProgramInv, AcqInv, InBlock, Streaming, Speaks
  <2>2. CASE AcqRaised \/ AcqFinally \/ AcqEnables
    BY <2>2 DEF AcqRaised, AcqFinally, AcqEnables, From, InBlock, Streaming
  <2> QED BY <2>1, <2>2
<1>8. Shown'
  <2>1. CASE AcqFetched
    BY <1>1, <1>2, <2>1 DEF AcqFetched, ProgramInv, AcqInv, Shown, PlaceTypes
  <2>2. CASE AcqRaised
    <3>1. ~(~dialog' /\ ~pressed')
      <4>1. CASE pressed
        BY <1>1, <4>1
      <4>2. CASE ~pressed
        <5>1. stop = FALSE
          BY <4>2 DEF ProgramInv, Flags, GuiInv, WindowTypes
        <5> QED BY <2>2, <5>1 DEF AcqRaised
      <4> QED BY <4>1, <4>2
    <3>2. place' = "finally"
      BY <2>2 DEF AcqRaised, From
    <3> QED BY <3>1, <3>2 DEF Shown
  <2>3. CASE AcqFinally
    BY <1>1, <2>3 DEF AcqFinally, From, ProgramInv, AcqInv, Shown
  <2>4. CASE AcqEnables
    BY <1>1, <2>4 DEF AcqEnables, From, Shown
  <2> QED BY <2>1, <2>2, <2>3, <2>4
<1>9. Flow'
  <2>1. CASE AcqFetched
    <3>1. SUFFICES ASSUME Flowing' PROVE FlowOf(reader["ctrl"], Got)'
      BY DEF Flow
    <3>2. place' = "streaming" /\ result[Acq] = "frame"
      BY <1>1, <2>1, <3>1 DEF AcqFetched, Flowing, Streaming
    <3>3. Got' = Got /\ Flowing
      BY <1>1, <1>2, <2>1, <3>2 DEF AcqFetched, Got, Flowing
    <3> QED BY <1>2, <3>3 DEF ProgramInv, AcqInv, Flow, FlowOf
  <2>2. CASE AcqRaised \/ AcqFinally \/ AcqEnables
    BY <2>2 DEF AcqRaised, AcqFinally, AcqEnables, From, Flow, Flowing, Streaming
  <2> QED BY <2>1, <2>2
<1> QED BY <1>3, <1>4, <1>5, <1>6, <1>7, <1>8, <1>9 DEF ProgramInv, AcqInv

\* A call of the acquisition thread, and where the thread is in it.
Asks(here, there, object, command, tag) ==
  From(here, there) /\ Begin(Acq, object, command, tag) /\ OnlyPlace

\* The calls that it begins.
LEMMA AcqAsks ==
  ASSUME AcqPrepares \/ AcqStarts \/ AcqFetches \/ AcqFinishes \/ AcqStops \/ AcqLeaves
         \/ AcqStopsAgain
  PROVE  \/ Asks("new", "timing", "ctrl", "COMMAND", Acq)
         \/ Asks("timing", "updating", "ctrl", "COMMAND", Acq)
         \/ Asks("updating", "ready", "ctrl", "COMMAND", Acq)
         \/ Asks("ready", "streaming", "ctrl", "START", runs)
         \/ Asks("streaming", "fetching", "ctrl", "FRAME", runs)
         \/ Asks("finished", "finally", "ctrl", "CLOSE", Acq)
         \/ Asks("leaving", "raised", "stop", "STOP", Acq)
         \/ Asks("failed", "stopping", "stop", "STOP", Acq)
         \/ Asks("stopping", "leaving", "ctrl", "CLOSE", Acq)
  BY DEF AcqPrepares, AcqStarts, AcqFetches, AcqFinishes, AcqStops, AcqLeaves, AcqStopsAgain, Asks

\* A call of the acquisition thread leaves the other threads and the simulator.
LEMMA AcqBegins ==
  ASSUME ProgramInv, NEW here \in AcqPlaces, NEW there \in AcqPlaces, NEW o \in Objects,
         NEW c \in Commands, NEW tag \in Tags, Asks(here, there, o, c, tag),
         here # "over", there \notin {"over", "forgotten"},
         c \in {"FRAME", "CLOSE"} =>
            o = "ctrl" /\ here \in {"streaming", "finished", "stopping"},
         c = "FRAME" => tag = runs
  PROVE  /\ SharedInv' /\ OwnInv' /\ CtrlUser' /\ PlaceTypes'
         /\ place = here /\ place' = there /\ at[Acq] = "idle"
         /\ call'[Acq] = Ask(o, c, tag)
         /\ at'[Acq] = (IF c = "FRAME" THEN "reading" ELSE IF c = "CLOSE" THEN "test" ELSE "connect")
         /\ c = "FRAME" => waits'[Acq] = reader["ctrl"]
         /\ UNCHANGED <<inside, reader, serverVars, runs, shown, dialog, pressed, stop>>
<1>1. /\ Begin(Acq, o, c, tag) /\ place = here /\ place' = there /\ at[Acq] = "idle"
      /\ UNCHANGED <<stop, acq_thread, enabled, monitor, runs, presses, shown, dialog, pressed>>
  BY DEF Asks, From, Idle, OnlyPlace
<1>2. c \in {"FRAME", "CLOSE"} =>
        /\ "ctrl" \in inside[Acq]
        /\ reader["ctrl"] \in Sides("ctrl")
        /\ Speaks(reader["ctrl"], runs)
  BY <1>1 DEF ProgramInv, AcqInv, InBlock, Streaming
<1>3. c = "FRAME" => reader[o] \in Sides(o) /\ Speaks(reader[o], tag)
  BY <1>2
<1>4. Acq \in Threads /\ c \in {"FRAME", "CLOSE"} => o \in inside[Acq]
  BY <1>2
<1>5. SharedInv'
  BY <1>1, <1>3, BeginShared, ProgramThreads DEF ProgramInv
<1>6. OwnInv'
  BY <1>1, <1>3, <1>4, BeginOwn, ProgramThreads DEF ProgramInv
<1>7. /\ at' = [at EXCEPT ![Acq] = IF c = "FRAME" THEN "reading"
                                   ELSE IF c = "CLOSE" THEN "test" ELSE "connect"]
      /\ call' = [call EXCEPT ![Acq] = Ask(o, c, tag)]
      /\ waits' = IF c = "FRAME" THEN [waits EXCEPT ![Acq] = reader[o]] ELSE waits
      /\ UNCHANGED <<sock, reader, local, inside, crossed, serverVars, mixed>>
  BY <1>1 DEF Begin, Goes, Ask
<1>8. /\ call'[Acq] = Ask(o, c, tag)
      /\ at'[Acq] = (IF c = "FRAME" THEN "reading" ELSE IF c = "CLOSE" THEN "test" ELSE "connect")
      /\ c = "FRAME" => waits'[Acq] = reader["ctrl"]
  BY <1>7, ProgramThreads DEF ProgramInv, SharedInv, ThreadsTypeOK
<1>9. CtrlUser'
  BY <1>7, ProgramThreads DEF ProgramInv, CtrlUser, Object, SharedInv, ThreadsTypeOK
<1>10. PlaceTypes'
  BY <1>1 DEF ProgramInv, PlaceTypes
<1> QED BY <1>1, <1>5, <1>6, <1>7, <1>8, <1>9, <1>10

\* The acquisition thread begins a call where it has got.
LEMMA AcqAsksProgram ==
  ASSUME ProgramInv, AcqPrepares \/ AcqStarts \/ AcqFetches \/ AcqFinishes \/ AcqStops \/ AcqLeaves
                     \/ AcqStopsAgain
  PROVE  ProgramInv'
<1>0. /\ Acq \in Tags /\ {"ctrl", "stop"} \subseteq Objects
      /\ {"COMMAND", "START", "FRAME", "CLOSE", "STOP"} \subseteq Commands
      /\ {"new", "timing", "updating", "ready", "streaming", "fetching", "finished", "failed",
          "stopping", "leaving", "raised", "finally"} \subseteq AcqPlaces
  BY ProgramThreads DEF Commands, AcqPlaces
<1>1. GuiInv' /\ Idle(Acq) /\ place # "over"
  BY AcqStepInv DEF AcqStep, ProgramInv, AcqPrepares, AcqStarts, AcqFetches, AcqFinishes, AcqStops,
     AcqLeaves, AcqStopsAgain, From
<1>2. at[Acq] = "idle" /\ runs \in Tags /\ runs \in 1..Runs
  BY <1>1, ProgramThreads DEF Idle, ProgramInv, Flags
<1>3. SUFFICES SharedInv' /\ OwnInv' /\ CtrlUser' /\ PlaceTypes' /\ Flags' /\ AcqInv'
  BY <1>1 DEF ProgramInv
<1>4. ASSUME NEW here \in {"new", "timing", "updating"}, NEW there \in {"timing", "updating", "ready"},
             Asks(here, there, "ctrl", "COMMAND", Acq)
      PROVE  SharedInv' /\ OwnInv' /\ CtrlUser' /\ PlaceTypes' /\ Flags' /\ AcqInv'
  <2>1. /\ SharedInv' /\ OwnInv' /\ CtrlUser' /\ PlaceTypes'
        /\ place = here /\ place' = there /\ at'[Acq] = "connect"
        /\ call'[Acq] = Ask("ctrl", "COMMAND", Acq)
        /\ UNCHANGED <<inside, reader, serverVars, runs, shown, dialog, pressed, stop>>
    BY <1>0, <1>4, AcqBegins
  <2> QED BY <2>1 DEF ProgramInv, Flags, AcqInv, AcqCalls, InBlock, Flow, Flowing, Streaming, Shown, Ask
<1>5. ASSUME Asks("ready", "streaming", "ctrl", "START", runs)
      PROVE  SharedInv' /\ OwnInv' /\ CtrlUser' /\ PlaceTypes' /\ Flags' /\ AcqInv'
  <2>0. PICK tag \in Tags : tag = runs
    BY <1>2
  <2>1. /\ SharedInv' /\ OwnInv' /\ CtrlUser' /\ PlaceTypes'
        /\ place = "ready" /\ place' = "streaming" /\ at'[Acq] = "connect"
        /\ call'[Acq] = Ask("ctrl", "START", tag)
        /\ UNCHANGED <<inside, reader, serverVars, runs, shown, dialog, pressed, stop>>
    BY <1>0, <1>5, <2>0, AcqBegins
  <2> QED BY <2>0, <2>1 DEF ProgramInv, Flags, AcqInv, AcqCalls, InBlock, Flow, Flowing, Streaming,
             Shown, Ask
<1>6. ASSUME Asks("streaming", "fetching", "ctrl", "FRAME", runs)
      PROVE  SharedInv' /\ OwnInv' /\ CtrlUser' /\ PlaceTypes' /\ Flags' /\ AcqInv'
  <2>0. PICK tag \in Tags : tag = runs
    BY <1>2
  <2>1. /\ SharedInv' /\ OwnInv' /\ CtrlUser' /\ PlaceTypes'
        /\ place = "streaming" /\ place' = "fetching" /\ at'[Acq] = "reading"
        /\ call'[Acq] = Ask("ctrl", "FRAME", tag) /\ waits'[Acq] = reader["ctrl"]
        /\ UNCHANGED <<inside, reader, serverVars, runs, shown, dialog, pressed, stop>>
    BY <1>0, <1>6, <2>0, AcqBegins
  <2>2. AcqCalls' /\ Flags' /\ Shown'
    BY <2>0, <2>1 DEF ProgramInv, Flags, AcqCalls, Shown, Ask
  <2>3. InBlock'
    BY <1>2, <2>1 DEF ProgramInv, AcqInv, InBlock, Streaming, Speaks, serverVars
  <2>4. Flow'
    <3>1. Flowing /\ Got' = Got
      BY <1>2, <2>1 DEF Flowing, Streaming, Got
    <3> QED BY <2>1, <3>1 DEF ProgramInv, AcqInv, Flow, FlowOf, serverVars
  <2> QED BY <2>1, <2>2, <2>3, <2>4 DEF AcqInv
<1>7. ASSUME NEW here \in {"finished", "stopping"}, NEW there \in {"finally", "leaving"},
             here = "finished" <=> there = "finally",
             Asks(here, there, "ctrl", "CLOSE", Acq)
      PROVE  SharedInv' /\ OwnInv' /\ CtrlUser' /\ PlaceTypes' /\ Flags' /\ AcqInv'
  <2>1. /\ SharedInv' /\ OwnInv' /\ CtrlUser' /\ PlaceTypes'
        /\ place = here /\ place' = there /\ at'[Acq] = "test"
        /\ call'[Acq] = Ask("ctrl", "CLOSE", Acq)
        /\ UNCHANGED <<inside, reader, serverVars, runs, shown, dialog, pressed, stop>>
    BY <1>0, <1>7, AcqBegins
  <2> QED BY <1>7, <2>1 DEF ProgramInv, Flags, AcqInv, AcqCalls, InBlock, Flow, Flowing, Streaming,
             Shown, Ask
<1>8. ASSUME NEW here \in {"failed", "leaving"}, NEW there \in {"stopping", "raised"},
             here = "failed" <=> there = "stopping",
             Asks(here, there, "stop", "STOP", Acq)
      PROVE  SharedInv' /\ OwnInv' /\ CtrlUser' /\ PlaceTypes' /\ Flags' /\ AcqInv'
  <2>1. /\ SharedInv' /\ OwnInv' /\ CtrlUser' /\ PlaceTypes'
        /\ place = here /\ place' = there /\ at'[Acq] = "connect"
        /\ call'[Acq] = Ask("stop", "STOP", Acq)
        /\ UNCHANGED <<inside, reader, serverVars, runs, shown, dialog, pressed, stop>>
    BY <1>0, <1>8, AcqBegins
  <2>2. AcqCalls' /\ Flags' /\ Shown' /\ Flow'
    BY <1>8, <2>1 DEF ProgramInv, Flags, AcqCalls, Flow, Flowing, Streaming, Shown, Ask
  <2>3. InBlock'
    BY <1>8, <2>1 DEF ProgramInv, AcqInv, InBlock, Streaming, Speaks, serverVars
  <2> QED BY <2>1, <2>2, <2>3 DEF AcqInv
<1> QED BY <1>4, <1>5, <1>6, <1>7, <1>8, AcqAsks

-----------------------------------------------------------------------------
(* The calls of the acquisition thread *)

\* START is written on the new connection, and leaves its block open.
LEMMA StartStep ==
  ASSUME ProgramInv, CallStep(Acq), UNCHANGED guiVars, place = "streaming"
  PROVE  AcqInv'
<1>1. /\ call[Acq] = Ask("ctrl", "START", runs) /\ at[Acq] \in {"connect", "assign", "write"}
      /\ Object(Acq) = "ctrl" /\ Own(Acq) /\ Acq \in Threads /\ "ctrl" \in Objects
  BY CallKeeps, ProgramThreads DEF ProgramInv, AcqInv, AcqCalls, Ask, Object, CtrlUser, OwnInv
<1>2. UNCHANGED <<place, runs, shown, dialog, pressed>> /\ shown = 0
  BY <1>1 DEF guiVars, ProgramInv, AcqInv, Shown
<1>3. CASE Connect(Acq) \/ Assign(Acq)
  <2>1. at'[Acq] \in {"assign", "write"} /\ call' = call
    BY <1>1, <1>3 DEF Connect, Assign, Goes, ProgramInv, SharedInv, ThreadsTypeOK
  <2> QED BY <1>1, <1>2, <2>1 DEF AcqInv, AcqCalls, InBlock, Flow, Flowing, Streaming, Shown, Ask
<1>4. CASE Write(Acq)
  <2>1. PICK x \in Sockets : x = sock["ctrl"]
    BY <1>1, <1>4 DEF Write, ProgramInv, SharedInv, ThreadsTypeOK
  <2>2. /\ x = reader["ctrl"] /\ x \in Sides("ctrl") /\ "ctrl" \in inside[Acq]
        /\ request[x] = None /\ handler[x] = "open" /\ replies[x] = <<>>
    BY <1>1, <1>4, <2>1, OneSide DEF Write, Own, Fresh, ProgramInv, SharedInv, Placed
  <2>3. /\ request'[x] = call[Acq] /\ at'[Acq] = "idle"
        /\ UNCHANGED <<reader, inside, replies, handler>>
    BY <1>1, <1>4, <2>1, <2>2 DEF Write, Goes, Ask, ProgramInv, SharedInv, ThreadsTypeOK
  <2>4. request'[x].command = "START" /\ request'[x].tag = runs
    BY <1>1, <2>3 DEF Ask
  <2>5. AcqCalls' /\ Shown'
    BY <1>2, <2>3 DEF AcqCalls, Shown
  <2>6. InBlock'
    BY <1>2, <2>2, <2>3, <2>4 DEF InBlock, Speaks
  <2>7. Got' = 0
    BY <1>2 DEF Got
  <2> QED BY <2>2, <2>3, <2>4, <2>5, <2>6, <2>7 DEF AcqInv, Flow, FlowOf
<1> QED BY <1>1, <1>3, <1>4
    DEF CallStep, SocketGone, TakeFrame, TakeReply, UpdateClient, TakeFail, TakeMessage, TakeEof,
        CloseTest, CloseClear, Own

\* A frame is taken from the connection, or the stream has ended.
LEMMA FrameStep ==
  ASSUME ProgramInv, CallStep(Acq), UNCHANGED guiVars, place = "fetching"
  PROVE  AcqInv'
<1>1. /\ call[Acq] = Ask("ctrl", "FRAME", runs) /\ at[Acq] \in {"reading", "test", "clear"}
      /\ call[Acq].command = "FRAME"
      /\ Object(Acq) = "ctrl" /\ Own(Acq) /\ Acq \in Threads /\ "ctrl" \in Objects
  BY CallKeeps, ProgramThreads DEF ProgramInv, AcqInv, AcqCalls, Ask, Object, CtrlUser, OwnInv
<1>2. UNCHANGED <<place, runs, shown, dialog, pressed>>
  BY DEF guiVars
<1>3. PICK x \in Sockets : x = reader["ctrl"]
  BY <1>1, OneSide DEF ProgramInv, AcqInv, InBlock
<1>4. /\ x \in Sides("ctrl") /\ "ctrl" \in inside[Acq] /\ Speaks(x, runs)
      /\ FlowOf(x, Got) /\ replies[x] \in Seq(Messages) /\ Len(replies[x]) \in Nat
      /\ Got = shown /\ shown \in Nat
  BY <1>1, <1>3, ThreadsAssumption DEF ProgramInv, AcqInv, InBlock, Flow, Flowing, Got, SharedInv,
     ThreadsTypeOK, PlaceTypes
<1>5. CASE Reads(Acq)
  <2> DEFINE m == Head(replies[x])
  <2>a. PICK what \in Results : /\ at[Acq] = "reading" /\ Takes(Acq, what)
                                /\ at'[Acq] = "idle" /\ result'[Acq] = what
    BY <1>1, <1>5, ReadsStep DEF ProgramInv
  <2>1. waits[Acq] = x
    BY <1>3, <2>a DEF ProgramInv, AcqInv, Shown
  <2>2. /\ replies[x] # <<>> /\ replies'[x] = Tail(replies[x])
        /\ at'[Acq] = "idle"
        /\ UNCHANGED <<reader, inside, request, handler, left>>
    <3>1. /\ replies[x] # <<>> /\ replies' = [replies EXCEPT ![x] = Tail(replies[x])]
          /\ UNCHANGED <<reader, inside, request, handler, left>>
      BY <1>1, <2>1, <2>a, TakesEffect DEF ProgramInv
    <3> QED BY <2>a, <3>1 DEF ProgramInv, SharedInv, ThreadsTypeOK
  <2>3. result'[Acq] = m.what
    <3>1. what = m.what
      BY <1>1, <2>1, <2>a, TakesOwn DEF ProgramInv
    <3> QED BY <2>a, <3>1
  <2>4. /\ Len(replies[x]) \in Nat \ {0} /\ m = replies[x][1]
        /\ Len(replies'[x]) = Len(replies[x]) - 1
        /\ \A i \in 1..Len(replies'[x]) : replies'[x][i] = replies[x][i + 1]
    <3>1. Len(replies[x]) \in Nat \ {0}
      BY <1>4, <2>2, EmptySeq
    <3>2. m = replies[x][1]
      BY <1>4, <2>2, <3>1
    <3> QED BY <1>4, <2>2, <3>1, <3>2, HeadTailProperties
  <2> HIDE DEF m
  <2>0. PICK got \in Nat : got = shown
    BY <1>4
  <2>5. /\ m.what = "frame" => got + 1 < Frames
        /\ m.what = "last" => got + 1 = Frames
        /\ FlowOf(x, got + 1)'
    BY <1>4, <2>0, <2>2, FlowTaken DEF ProgramInv, m
  <2>6. AcqCalls' /\ Shown'
    BY <1>2, <2>0, <2>2, <2>3, <2>5, <1>4, ThreadsAssumption DEF AcqCalls, Shown
  <2>7. InBlock'
    <3>1. \A i \in 1..Len(replies'[x]) : i + 1 \in 1..Len(replies[x])
      BY <1>4, <2>4
    <3> QED BY ZenonT(60), <1>2, <1>3, <1>4, <2>2, <2>4, <3>1 DEF InBlock, Speaks
  <2>8. Flow'
    <3>1. Got' = got + 1
      BY <1>2, <2>0, <2>2 DEF Got
    <3> QED BY <1>3, <2>2, <2>5, <3>1 DEF Flow, FlowOf
  <2> QED BY <2>6, <2>7, <2>8 DEF AcqInv
<1>6. CASE TakeEof(Acq) \/ CloseTest(Acq) \/ CloseClear(Acq)
  <2>1. /\ UNCHANGED <<reader, request, replies, handler, left>>
        /\ result'[Acq] = "ConnectionError"
    <3>1. CASE TakeEof(Acq)
      BY <1>1, <3>1 DEF TakeEof, serverVars, ProgramInv, SharedInv, ThreadsTypeOK
    <3>2. CASE CloseTest(Acq) \/ CloseClear(Acq)
      <4>1. result[Acq] = "ConnectionError"
        BY <3>2 DEF CloseTest, CloseClear, ProgramInv, AcqInv, Shown
      <4> QED BY <1>1, <3>2, <4>1, CloseOwn DEF CloseTest, CloseClear, serverVars, ProgramInv
    <3> QED BY <1>6, <3>1, <3>2
  <2>2. "ctrl" \in inside'[Acq] /\ at'[Acq] \in {"test", "clear", "idle"}
    BY <1>1, <1>4, <1>6 DEF TakeEof, CloseTest, CloseClear, Closed, Goes, ProgramInv, SharedInv,
       ThreadsTypeOK
  <2>3. at'[Acq] # "idle" => call'[Acq] = call[Acq]
    BY CallKeeps, <1>1 DEF ProgramInv
  <2>4. AcqCalls' /\ Shown'
    BY <1>1, <1>2, <2>1, <2>2, <2>3 DEF AcqCalls, Shown, Ask
  <2>5. InBlock'
    BY <1>2, <1>3, <1>4, <2>1, <2>2 DEF InBlock, Speaks
  <2>6. Flow'
    <3>1. Flowing' => Got' = Got
      BY <1>2, <1>4, <2>1 DEF Flowing, Streaming, Got
    <3> QED BY <1>3, <1>4, <2>1, <3>1 DEF Flow, FlowOf
  <2> QED BY <2>4, <2>5, <2>6 DEF AcqInv
<1> QED BY <1>1, <1>5, <1>6
    DEF CallStep, Reads, Connect, Assign, Write, SocketGone, TakeMessage

\* A stop of the acquisition thread is a call on the stop Connection: the control
\* Connection stays as it is.
LEMMA StopStep ==
  ASSUME ProgramInv, CallStep(Acq), UNCHANGED guiVars, place \in {"stopping", "raised"}
  PROVE  AcqInv'
<1>1. Object(Acq) = "stop" /\ Acq \in Threads /\ "ctrl" \in Objects
  BY CallKeeps, ProgramThreads DEF ProgramInv, AcqInv, AcqCalls, Ask, Object
<1>2. UNCHANGED <<place, runs, shown, dialog, pressed>>
  BY DEF guiVars
<1>3. AcqCalls'
  BY <1>1, <1>2, CallKeeps DEF ProgramInv, AcqInv, AcqCalls, Ask
<1>4. InBlock'
  <2>1. \A x \in Sides("ctrl") : request'[x] = request[x] /\ replies'[x] = replies[x]
    BY <1>1, CallTouches, OneSide, ProgramThreads DEF TouchesOwn, ProgramInv
  <2>2. reader'["ctrl"] = reader["ctrl"]
    BY <1>1, CallTouches, ProgramThreads DEF TouchesOwn, ProgramInv
  <2>3. "ctrl" \in inside[Acq] => "ctrl" \in inside'[Acq]
    BY <1>1, CallKeeps DEF ProgramInv
  <2> QED BY <1>2, <2>1, <2>2, <2>3 DEF ProgramInv, AcqInv, InBlock, Streaming, Speaks
<1>5. Shown' /\ Flow'
  BY <1>2 DEF Shown, Flow, Flowing, Streaming
<1> QED BY <1>3, <1>4, <1>5 DEF AcqInv

\* Every call of every thread keeps the invariant.
LEMMA CallProgram ==
  ASSUME ProgramInv, NEW t \in Threads, Calling(t)
  PROVE  ProgramInv'
<1>1. CallStep(t) /\ UNCHANGED guiVars
  BY DEF Calling
<1>2. SharedInv' /\ OwnInv' /\ GuiInv'
  BY <1>1, CallShared, CallOwn, WindowUntouched DEF ProgramInv
<1>3. PlaceTypes' /\ Flags' /\ UNCHANGED <<place, runs, shown, dialog, pressed>>
  BY <1>1 DEF ProgramInv, PlaceTypes, Flags, guiVars
<1>4. CASE t # Acq
  BY <1>1, <1>2, <1>3, <1>4, StopCalls, AcqApart DEF ProgramInv
<1>5. CASE t = Acq
  <2>1. CtrlUser'
    <3>1. "ctrl" \notin crossed'
      BY <1>1, <1>5, CallKeeps DEF ProgramInv, CtrlUser
    <3> QED BY <1>1, <1>5, <3>1, CallTouches DEF TouchesOwn, ProgramInv, CtrlUser, Object
  <2>2. CASE place \in {"timing", "updating", "ready", "finally", "leaving"}
    <3>1. AcqCalls'
      BY <1>1, <1>3, <1>5, <2>2, CallKeeps DEF ProgramInv, AcqInv, AcqCalls, Ask
    <3>2. Shown'
      BY <1>3, <2>2 DEF ProgramInv, AcqInv, Shown
    <3> QED BY <1>2, <1>3, <2>1, <2>2, <3>1, <3>2
        DEF ProgramInv, AcqInv, InBlock, Flow, Flowing, Streaming
  <2>3. place \in {"timing", "updating", "ready", "finally", "leaving", "streaming", "fetching",
                   "stopping", "raised"}
    BY <1>1, <1>5, CallKeeps DEF ProgramInv, AcqInv, AcqCalls
  <2> QED BY <1>1, <1>2, <1>3, <1>5, <2>1, <2>2, <2>3, StartStep, FrameStep, StopStep DEF ProgramInv
<1> QED BY <1>4, <1>5

\* The window starts with everything idle.
LEMMA ProgramInvInit == GuiInit => ProgramInv
<1> SUFFICES ASSUME GuiInit PROVE ProgramInv
  OBVIOUS
<1>1. ThreadsInit /\ SharedInv /\ OwnInv /\ GuiInv
  BY InitShared, GuiInvInit DEF GuiInit
<1>2. Frames \in Nat /\ Runs \in Nat /\ Presses \in Nat
  BY ThreadsAssumption, GuiAssumption
<1>3. PlaceTypes /\ Flags
  BY <1>2 DEF GuiInit, PlaceTypes, Flags, AcqPlaces
<1>4. CtrlUser
  BY <1>1 DEF ThreadsInit, CtrlUser
<1>5. AcqInv
  BY <1>1, ProgramThreads DEF GuiInit, ThreadsInit, AcqInv, AcqCalls, InBlock, Flow, Flowing, Streaming, Shown
<1> QED BY <1>1, <1>3, <1>4, <1>5 DEF ProgramInv

\* Every step of the program keeps the invariant.
LEMMA ProgramInvNext == ProgramInv /\ [GuiNext]_programVars => ProgramInv'
<1> SUFFICES ASSUME ProgramInv, [GuiNext]_programVars PROVE ProgramInv'
  OBVIOUS
<1>1. CASE StartPressed
  BY <1>1, StartProgram
<1>2. CASE StopPressed
  BY <1>2, StopProgram
<1>3. CASE AcqStep
  BY <1>3, AcqMoves, AcqAsksProgram DEF AcqStep
<1>4. CASE (\E s \in Sockets : Serving(s)) \/ Stopped
  BY <1>4, ServerProgram
<1>5. CASE \E m \in Monitors : MonitorStep(m)
  BY <1>5, MonitorProgram
<1>6. CASE \E t \in Threads : Calling(t)
  BY <1>6, CallProgram
<1>7. CASE UNCHANGED programVars
  <2>1. UNCHANGED threadVars /\ UNCHANGED guiVars
    BY <1>7 DEF programVars
  <2>2. SharedInv' /\ OwnInv' /\ GuiInv'
    BY <2>1, ThreadsStay, WindowUntouched DEF ProgramInv
  <2>3. PlaceTypes' /\ Flags' /\ CtrlUser' /\ AcqSees
    BY <2>1 DEF ProgramInv, PlaceTypes, Flags, CtrlUser, AcqSees, Object, guiVars, threadVars,
       clientVars, serverVars
  <2>4. AcqInv'
    BY <2>1, <2>3, AcqApart DEF ProgramInv, guiVars
  <2> QED BY <2>2, <2>3, <2>4 DEF ProgramInv
<1> QED BY <1>1, <1>2, <1>3, <1>4, <1>5, <1>6, <1>7 DEF GuiNext

\* The invariant of the program holds of every behaviour.
LEMMA ProgramInvCorrect == GuiSpec => []ProgramInv
  BY ProgramInvInit, ProgramInvNext, PTL DEF GuiSpec

-----------------------------------------------------------------------------
(* The theorems of the whole program *)

\* The window, its threads and their Connections have their types; no acquisition
\* shows more frames than it has.
THEOREM GuiTypesCorrect == GuiSpec => []GuiTypeOK
<1>1. ProgramInv => GuiTypeOK
  BY DEF ProgramInv, SharedInv, PlaceTypes, GuiInv, WindowTypes, GuiTypeOK
<1> QED BY <1>1, ProgramInvCorrect, PTL

\* As long as no two blocks use a Connection at once every call of the GUI gets the
\* answer to its own command.
THEOREM OwnAnswersCorrect == GuiSpec => []OwnAnswers
<1>1. ProgramInv => OwnAnswers
  BY OwnIsAnswers DEF ProgramInv
<1> QED BY <1>1, ProgramInvCorrect, PTL

\* An acquisition that ended silently, and that the user did not stop, has shown
\* every frame, whatever the monitors and other programs did on the way.
THEOREM SilentMeansCompleteCorrect == GuiSpec => []SilentMeansComplete
<1>1. ProgramInv => SilentMeansComplete
  BY DEF ProgramInv, AcqInv, Shown, SilentMeansComplete
<1> QED BY <1>1, ProgramInvCorrect, PTL
=============================================================================
