------------------------- MODULE MythenSessionProofs -------------------------
(***************************************************************************)
(* Proofs about MythenSession, for every number of acquisitions, every     *)
(* value of the timers and every socket size.                              *)
(*                                                                         *)
(* The server half is one of the clients that SimServer allows, so what is *)
(* proved of SimServer holds here (ServerInv).  To it the session adds     *)
(* what the client has read (Reading), in which order it uses the detector *)
(* (Tidy), and who has cut an acquisition (Caused).                        *)
(***************************************************************************)
EXTENDS MythenSession, SimServerProofs

\* What SimServer keeps whatever its clients do.
ServerInv == IInv /\ Accounts /\ CyclesInOrder

ClientTypes ==
  /\ client \in [Conns -> ClientStates]
  /\ call \in [Conns -> {"none", "stop", "left", "error"}]
  /\ stopped \in [Conns -> BOOLEAN]
  /\ received \in [Conns -> Nat]

\* The program only waits for a stop in an acquisition that runs.
CallsRunning == \A k \in Conns : call[k] # "none" => client[k] \in {"iterating", "last"}

\* The client stays connected until its next acquisition, and the simulator
\* has a request only from an acquisition that was prepared.
Connected(k) ==
  /\ client[k] = "idle" => pc[k] = "new"
  /\ ~Over(k) => peer[k] = "open"

\* What is on the wire is what was sent and not received, in the order of its
\* cycle; a FAIL ends it.
WireInCycle(k) ==
  peer[k] = "open" =>
    /\ pc[k] # "done" => received[k] + Len(wire[k]) = sent[k]
    /\ \A i \in 1..Len(wire[k]) :
         IF wire[k][i] = "FAIL" THEN pc[k] = "done" /\ i = Len(wire[k])
         ELSE wire[k][i] = "last" <=> (received[k] + i) % params[k].nb_frames = 0

\* An iteration ends with the first frame that closes a cycle.
FirstCycle(k) ==
  /\ client[k] = "iterating" /\ pc[k] # "new" => received[k] < params[k].nb_frames
  /\ client[k] = "last" => received[k] = params[k].nb_frames
  /\ client[k] = "returned" => stopped[k] \/ received[k] = params[k].nb_frames

ReadingAt(k) == Connected(k) /\ WireInCycle(k) /\ FirstCycle(k)

Reading == \A k \in Conns : ReadingAt(k)

SessionInv == ServerInv /\ ClientTypes /\ CallsRunning /\ Reading

-----------------------------------------------------------------------------
(* One cycle and no dead time: the detector between two acquisitions *)

\* With one cycle the frames of an acquisition are those of its only cycle.
SingleCycle == \A c \in Conns : params[c].nb_cycles = 1

\* Without a dead time the last frame ends the greenlet.
NoDeadTime == \A c \in Conns : ~params[c].dead_time /\ task[c] # "resting"

\* A greenlet that was killed before it ran has put nothing in its queue.
CancelledEmpty == \A c \in Conns : task[c] = "cancelled" => frames[c] = <<>>

\* An acquisition is only prepared when those before it are over.
InOrder == \A j, k \in Conns : j < k /\ client[k] # "idle" => Over(j)

\* No acquisition up to k was left.
NoneLeft(k) == \A j \in Conns : j <= k => client[j] # "left"

\* The wire of k holds the last frame, or the client has it.
LastSent(k) == client[k] = "last" \/ \E i \in 1..Len(wire[k]) : wire[k][i] = "last"

\* The handler of k has the detector until it has sent the last frame, and no
\* longer: its finally clause finds its own acquisition, ended.
TidyAt(k) ==
  /\ pc[k] \in {"new", "serving", "closing", "done"}
  /\ pc[k] = "serving" => acquisition = k /\ ~Over(k) /\ ~LastSent(k)
  /\ pc[k] = "new" => ~Over(k) /\ ~LastSent(k)
  /\ peer[k] = "open" => received[k] + Len(wire[k]) = sent[k]
                         /\ \A i \in 1..Len(wire[k]) : wire[k][i] # "FAIL"
  /\ call[k] = "error" => pc[k] = "done"
Tidy == \A k \in Conns : NoneLeft(k) => TidyAt(k)

-----------------------------------------------------------------------------
(* No stops but the client's own: who has cut an acquisition *)

\* A stop is under way only while its caller waits for it.
OwnCalls(k) ==
  /\ call[k] \in {"stop", "left"} => received[k] > 0
  /\ spc[StopOf(k)] = "killing" => call[k] = "stop"
  /\ spc[AbortOf(k)] = "killing" => call[k] \in {"left", "error"}

\* An acquisition ends early only when the consumer stopped it or leaves it.
CausedAt(k) ==
  /\ k \in cut /\ ~Over(k) => spc[StopOf(k)] = "done" \/ call[k] = "left"
  /\ call[k] = "error" \/ client[k] = "error" => spc[StopOf(k)] = "done"

Caused == \A k \in Conns : OwnCalls(k) /\ (NoneLeft(k) => CausedAt(k))

-----------------------------------------------------------------------------
(* The server half *)

\* The stop connections of the program are stop connections.
LEMMA StopConnections ==
  ASSUME NEW k \in Conns
  PROVE  /\ StopOf(k) \in Stops /\ AbortOf(k) \in Stops /\ StopCall(k) \in Stops
         /\ StopOf(k) # AbortOf(k)
<1>1. /\ StopOf(k) \in OwnStops /\ AbortOf(k) \in OwnStops /\ StopOf(k) # AbortOf(k)
  BY SessionAssumption DEF StopOf, AbortOf, OwnStops
<1> QED BY <1>1, SessionAssumption DEF StopCall

\* What the simulator does by itself.
Runs == \/ \E c \in Conns : TaskStep(c) \/ HandlerStep(c)
        \/ \E s \in Stops : StopAcquisition(s) \/ StopKilled(s)

\* What the program does without the simulator.
ClientOnly(k) == FetchFinished(k) \/ FetchEof(k) \/ StopReply(k) \/ ConsumerLeaves(k) \/ ConsumerStops(k)

\* The kinds of step of a session.
LEMMA SessionSteps ==
  ASSUME [SessionNext]_sessionVars
  PROVE  \/ \E k \in Conns : Prepare(k)
         \/ \E k \in Conns : StartArrives(k)
         \/ \E k \in Conns : Receive(k) \/ FetchFail(k)
         \/ \E k \in Conns : ClientOnly(k)
         \/ Runs /\ UNCHANGED clientVars
         \/ UNCHANGED sessionVars
<1>1. ASSUME NEW k \in Conns, StopArrives(k) \/ ServerRuns(k)
      PROVE  Runs /\ UNCHANGED clientVars
  BY <1>1, StopConnections DEF StopArrives, ServerRuns, Runs
<1>2. ASSUME NEW s \in UserStops, UserStop(s) \/ UserStopEnds(s)
      PROVE  Runs /\ UNCHANGED clientVars
  BY <1>2 DEF UserStop, UserStopEnds, UserStops, Runs
<1> QED BY <1>1, <1>2 DEF SessionNext, Generator, ClientOnly, ProgramEnds

\* Every step but the preparation of an acquisition is one that SimServer allows.
LEMMA SessionIsServed ==
  ASSUME [SessionNext]_sessionVars, \A k \in Conns : ~Prepare(k)
  PROVE  [Next]_vars
<1>1. ASSUME NEW k \in Conns, Receive(k) \/ FetchFail(k) PROVE Next
  BY <1>1 DEF Receive, FetchFail, Next, ClientStep
<1>2. ASSUME NEW k \in Conns, ClientOnly(k) PROVE UNCHANGED vars
  BY <1>2 DEF ClientOnly, FetchFinished, FetchEof, StopReply, ConsumerLeaves, ConsumerStops
<1>3. ASSUME NEW k \in Conns, StartArrives(k) PROVE Next
  BY <1>3 DEF StartArrives, Next
<1>4. Runs => Next
  BY DEF Runs, Next
<1> QED BY <1>1, <1>2, <1>3, <1>4, SessionSteps DEF sessionVars

\* The preparation of an acquisition changes the timers and cuts the previous
\* one.
LEMMA PrepareEffect ==
  ASSUME TypeOK, NEW k \in Conns, Prepare(k)
  PROVE  /\ wire' \in [Conns -> Seq(Messages)] /\ peer' \in [Conns -> {"open", "closed"}]
         /\ cut' \subseteq Conns
         /\ \A e \in Conns : Kept(e)
<1>1. UNCHANGED <<run_status, acquisition, pc, victim, spc, taskVars, frames, sent>>
  BY DEF Prepare
<1>2. CASE k > 1
  <2>1. k - 1 \in Conns /\ <<>> \in Seq(Messages)
    BY <1>2, SessionAssumption
  <2>2. PICK j \in Conns : /\ peer' = [peer EXCEPT ![j] = "closed"]
                           /\ wire' = [wire EXCEPT ![j] = <<>>]
                           /\ cut' = cut \cup {j}
    BY <1>2, <2>1 DEF Prepare
  <2> QED BY <1>1, <2>1, <2>2 DEF TypeOK, Kept, taskVars
<1>3. CASE ~(k > 1)
  BY <1>1, <1>3 DEF Prepare, TypeOK, Kept, taskVars
<1> QED BY <1>2, <1>3

\* The next acquisition of the program keeps what SimServer keeps.
LEMMA PrepareServer ==
  ASSUME ServerInv, NEW k \in Conns, Prepare(k)
  PROVE  ServerInv'
<1>1. IInv /\ TypeOK
  BY DEF ServerInv, IInv
<1>2. /\ UNCHANGED <<run_status, acquisition, pc, victim, spc, taskVars, frames, sent>>
      /\ config' \in Configs
  BY DEF Prepare
<1>3. IInv'
  <2>1. TypeOK'
    BY <1>1, <1>2, PrepareEffect DEF TypeOK, taskVars
  <2> QED BY <1>1, <1>2, <2>1 DEF taskVars, IInv, StatusTracksAcquisition, OwnerIsServing,
             TaskStarted, CountersPositive, VictimKnown, DeadQueueEnds
<1>4. ASSUME NEW e \in Conns PROVE Account(e)' /\ InCycle(e)'
  BY <1>1, PrepareEffect, KeptAccount, KeptInCycle DEF ServerInv, Accounts, CyclesInOrder
<1> QED BY <1>3, <1>4 DEF ServerInv, Accounts, CyclesInOrder

\* What SimServer keeps is kept in every session.
LEMMA ServerNext == ServerInv /\ [SessionNext]_sessionVars => ServerInv'
<1> SUFFICES ASSUME ServerInv, [SessionNext]_sessionVars PROVE ServerInv'
  OBVIOUS
<1>1. CASE \E k \in Conns : Prepare(k)
  BY <1>1, PrepareServer
<1>2. CASE [Next]_vars
  BY <1>2, NextInv, AccountsNext, CyclesNext DEF ServerInv
<1> QED BY <1>1, <1>2, SessionIsServed

-----------------------------------------------------------------------------
(* The client: types, and the order of the acquisitions *)

\* The client keeps its types, and a call is only made by an acquisition that goes on.
LEMMA TypesNext ==
  ClientTypes /\ CallsRunning /\ [SessionNext]_sessionVars => ClientTypes' /\ CallsRunning'
<1> SUFFICES ASSUME ClientTypes, CallsRunning, [SessionNext]_sessionVars
             PROVE  ClientTypes' /\ CallsRunning'
  OBVIOUS
<1> USE DEF ClientTypes, ClientStates, CallsRunning
<1>1. ASSUME NEW k \in Conns, Prepare(k) PROVE ClientTypes' /\ CallsRunning'
  BY <1>1 DEF Prepare
<1>2. ASSUME NEW k \in Conns, Receive(k) \/ FetchFail(k) PROVE ClientTypes' /\ CallsRunning'
  BY <1>2 DEF Receive, FetchFail
<1>3. ASSUME NEW k \in Conns, ClientOnly(k) PROVE ClientTypes' /\ CallsRunning'
  BY <1>3 DEF ClientOnly, FetchFinished, FetchEof, StopReply, ConsumerLeaves, ConsumerStops, Running
<1>4. CASE UNCHANGED clientVars
  BY <1>4 DEF clientVars
<1> QED BY <1>1, <1>2, <1>3, <1>4, SessionSteps DEF StartArrives, sessionVars

\* An acquisition that is over stays over.
LEMMA OverStays ==
  ASSUME ClientTypes, [SessionNext]_sessionVars, NEW j \in Conns, Over(j)
  PROVE  Over(j)'
<1> USE DEF ClientTypes, Over
<1>1. ASSUME NEW k \in Conns, Prepare(k) PROVE Over(j)'
  BY <1>1 DEF Prepare
<1>2. ASSUME NEW k \in Conns, Receive(k) \/ FetchFail(k) PROVE Over(j)'
  BY <1>2 DEF Receive, FetchFail
<1>3. ASSUME NEW k \in Conns, ClientOnly(k) PROVE Over(j)'
  BY <1>3 DEF ClientOnly, FetchFinished, FetchEof, StopReply, ConsumerLeaves, ConsumerStops
<1>4. CASE UNCHANGED clientVars
  BY <1>4 DEF clientVars
<1> QED BY <1>1, <1>2, <1>3, <1>4, SessionSteps DEF StartArrives, sessionVars

\* An acquisition begins after the earlier ones are over.
LEMMA OrderNext == ClientTypes /\ CallsRunning /\ InOrder /\ [SessionNext]_sessionVars => InOrder'
<1> SUFFICES ASSUME ClientTypes, CallsRunning, InOrder, [SessionNext]_sessionVars,
                    NEW j \in Conns, NEW k \in Conns, j < k, client'[k] # "idle"
             PROVE  Over(j)'
  BY DEF InOrder
<1>1. CASE client[k] # "idle"
  BY <1>1, OverStays DEF InOrder
<1>2. CASE client[k] = "idle" /\ ~Prepare(k)
  <2> USE DEF ClientTypes
  <2>1. ASSUME NEW h \in Conns, Prepare(h) PROVE client'[k] = "idle"
    BY <1>2, <2>1 DEF Prepare
  <2>2. ASSUME NEW h \in Conns, Receive(h) \/ FetchFail(h) PROVE client'[k] = "idle"
    BY <1>2, <2>2 DEF Receive, FetchFail
  <2>3. ASSUME NEW h \in Conns, ClientOnly(h) PROVE client'[k] = "idle"
    BY <1>2, <2>3
       DEF ClientOnly, FetchFinished, FetchEof, ConsumerLeaves, ConsumerStops, StopReply, CallsRunning
  <2> QED BY <1>2, <2>1, <2>2, <2>3, SessionSteps DEF StartArrives, sessionVars, clientVars
<1>3. CASE Prepare(k)
  <2>1. k - 1 \in Conns /\ Over(k - 1) /\ j \in Int /\ k \in Int
    BY <1>3, SessionAssumption DEF Prepare
  <2>2. CASE j = k - 1
    BY <2>1, <2>2, OverStays
  <2>3. CASE j < k - 1
    <3>1. client[k - 1] # "idle"
      BY <2>1 DEF Over
    <3> QED BY <2>1, <2>3, <3>1, OverStays DEF InOrder
  <2> QED BY <2>1, <2>2, <2>3
<1> QED BY <1>1, <1>2, <1>3

-----------------------------------------------------------------------------
(* What the client reads *)

\* What the client of e sees of the simulator does not change.
Unseen(e) ==
  /\ wire'[e] = wire[e] /\ peer'[e] = peer[e] /\ sent'[e] = sent[e] /\ params'[e] = params[e]
  /\ pc'[e] = "new" <=> pc[e] = "new"
  /\ pc[e] = "done" => pc'[e] = "done"

\* The simulator only writes to e when it sends a frame or a FAIL.
LEMMA RunsUnseen ==
  ASSUME IInv, Runs, NEW e \in Conns, ~WriteFrames(e), ~SendFail(e)
  PROVE  Unseen(e)
<1> USE DEF IInv, TypeOK, Unseen, netVars, history, taskVars, detectorVars
<1>1. ASSUME NEW c \in Conns, TaskStep(c) PROVE Unseen(e)
  BY <1>1 DEF TaskStep, TaskStart, Expose, Rested
<1>2. ASSUME NEW c \in Conns, c # e, WriteFrames(c) PROVE Unseen(e)
  <2>1. /\ wire'[e] = wire[e] /\ peer'[e] = peer[e] /\ sent'[e] = sent[e]
        /\ params'[e] = params[e] /\ pc[c] = "serving"
    BY <1>2 DEF WriteFrames, FrameReady
  <2>2. pc'[e] = pc[e]
    <3>1. CASE Finally(c)
      BY <1>2, <3>1, FinallyEffect DEF FinallyFx
    <3>2. CASE UNCHANGED pc
      BY <3>2
    <3> QED BY <1>2, <3>1, <3>2 DEF WriteFrames, NextFrames
  <2> QED BY <2>1, <2>2
<1>3. ASSUME NEW c \in Conns, LoseFrames(c) \/ WriteFails(c) \/ EndOfFrames(c) PROVE Unseen(e)
  <2>1. /\ UNCHANGED <<wire, peer, sent, params>> /\ pc[c] = "serving"
        /\ Finally(c) \/ UNCHANGED pc
    BY <1>3 DEF LoseFrames, WriteFails, EndOfFrames, NextFrames, FrameReady
  <2>2. CASE Finally(c)
    <3>1. FinallyFx(c)
      BY <2>2, FinallyEffect
    <3> QED BY <2>1, <3>1 DEF FinallyFx
  <2> QED BY <2>1, <2>2
<1>4. ASSUME NEW c \in Conns, FinallyKilled(c) PROVE Unseen(e)
  BY <1>4 DEF FinallyKilled, Release
<1>5. ASSUME NEW c \in Conns, CloseConn(c) PROVE Unseen(e)
  BY <1>5 DEF CloseConn
<1>6. ASSUME NEW c \in Conns, c # e, SendFail(c) PROVE Unseen(e)
  BY <1>6 DEF SendFail
<1>7. ASSUME NEW s \in Stops, StopAcquisition(s) \/ StopKilled(s) PROVE Unseen(e)
  BY <1>7 DEF StopAcquisition, StopKilled
<1> QED BY <1>1, <1>2, <1>3, <1>4, <1>5, <1>6, <1>7 DEF Runs, HandlerStep

\* What the other programs and acquisitions do does not disturb it.
LEMMA UnseenReading ==
  ASSUME NEW e \in Conns, ReadingAt(e), Unseen(e), client'[e] = client[e],
         received'[e] = received[e], stopped[e] => stopped'[e]
  PROVE  ReadingAt(e)'
BY DEF ReadingAt, Connected, WireInCycle, FirstCycle, Over, Unseen

\* A request finds a client that has received nothing.
LEMMA StartReading ==
  ASSUME ServerInv, ClientTypes, NEW e \in Conns, ReadingAt(e), StartArrives(e)
  PROVE  ReadingAt(e)'
<1>1. /\ client[e] = "iterating" /\ pc[e] = "new" /\ pc'[e] = "serving"
      /\ params'[e] \in Params
      /\ UNCHANGED <<wire, peer, sent, client, received, stopped>>
  BY PreparedType
     DEF StartArrives, StartAndReadAll, ServerInv, IInv, TypeOK, netVars, history, clientVars
<1>2. peer[e] = "open" /\ sent[e] = 0
  BY <1>1 DEF ReadingAt, Connected, Over, ServerInv, Accounts, Account
<1>3. received[e] = 0 /\ Len(wire[e]) = 0
  <2>1. received[e] + Len(wire[e]) = 0
    BY <1>1, <1>2 DEF ReadingAt, WireInCycle
  <2>2. received[e] \in Nat /\ Len(wire[e]) \in Nat
    BY LenProperties DEF ClientTypes, ServerInv, IInv, TypeOK
  <2> QED BY <2>1, <2>2
<1>4. params'[e].nb_frames \in Nat \ {0}
  BY <1>1 DEF Params
<1> QED BY <1>1, <1>2, <1>3, <1>4 DEF ReadingAt, Connected, Over, WireInCycle, FirstCycle

\* A frame that is written is the next one of the cycle on the wire.
LEMMA WriteReading ==
  ASSUME ServerInv, ClientTypes, NEW e \in Conns, ReadingAt(e), WriteFrames(e), UNCHANGED clientVars
  PROVE  ReadingAt(e)'
<1>1. /\ pc[e] = "serving" /\ peer[e] = "open" /\ UNCHANGED <<params, peer>>
      /\ wire'[e] = Append(wire[e], Head(frames[e])) /\ sent'[e] = sent[e] + 1
      /\ frames[e] \in Seq(Items) /\ frames[e] # <<>> /\ Head(frames[e]) # "none"
      /\ wire[e] \in Seq(Messages) /\ received[e] \in Nat /\ sent[e] \in Nat
  BY DEF WriteFrames, FrameReady, ServerInv, IInv, TypeOK, ClientTypes
<1>2. pc'[e] \notin {"new", "done"}
  <2>1. CASE Finally(e)
    BY <2>1, FinallyEffect DEF FinallyFx, ServerInv, IInv
  <2>2. CASE UNCHANGED pc
    BY <1>1, <2>2
  <2> QED BY <2>1, <2>2 DEF WriteFrames, NextFrames
<1>3. Head(frames[e]) \in Messages /\ Head(frames[e]) # "FAIL"
  BY <1>1, TakeEntry DEF Items, Messages
<1>4. Head(frames[e]) = "last" <=> sent'[e] % params[e].nb_frames = 0
  BY WriteInCycle DEF ServerInv, Accounts, CyclesInOrder
<1>5. /\ Len(wire'[e]) = Len(wire[e]) + 1 /\ Len(wire[e]) \in Nat
      /\ \A i \in 1..Len(wire[e]) : wire'[e][i] = wire[e][i]
      /\ wire'[e][Len(wire[e]) + 1] = Head(frames[e])
  BY <1>1, <1>3, AppendProperties, LenProperties
<1>6. /\ received[e] + Len(wire[e]) = sent[e]
      /\ \A i \in 1..Len(wire[e]) :
           /\ wire[e][i] # "FAIL"
           /\ wire[e][i] = "last" <=> (received[e] + i) % params[e].nb_frames = 0
  BY <1>1 DEF ReadingAt, WireInCycle
<1>7. WireInCycle(e)'
  <2>1. received[e] + (Len(wire[e]) + 1) = sent'[e]
    BY SMTT(30), <1>1, <1>5, <1>6
  <2>2. ASSUME NEW i \in 1..Len(wire'[e])
        PROVE  /\ wire'[e][i] # "FAIL"
               /\ wire'[e][i] = "last" <=> (received[e] + i) % params[e].nb_frames = 0
    <3>1. CASE i = Len(wire[e]) + 1
      BY <1>3, <1>4, <1>5, <2>1, <3>1
    <3>2. CASE i # Len(wire[e]) + 1
      BY SMTT(30), <1>5, <1>6, <3>2
    <3> QED BY <3>1, <3>2
  <2> QED BY <1>1, <1>2, <1>5, <2>1, <2>2 DEF WireInCycle, clientVars
<1>8. client'[e] = client[e] /\ received'[e] = received[e] /\ stopped'[e] = stopped[e]
  BY DEF clientVars
<1>9. Connected(e)' /\ FirstCycle(e)'
  BY <1>1, <1>2, <1>8 DEF ReadingAt, Connected, FirstCycle, Over
<1> QED BY <1>7, <1>9 DEF ReadingAt

\* A FAIL is the last thing that is written.
LEMMA FailReading ==
  ASSUME ServerInv, ClientTypes, NEW e \in Conns, ReadingAt(e), SendFail(e), UNCHANGED clientVars
  PROVE  ReadingAt(e)'
<1>1. /\ pc[e] = "failing" /\ pc'[e] = "done" /\ UNCHANGED <<params, peer, sent>>
      /\ wire'[e] = IF peer[e] = "open" THEN Append(wire[e], "FAIL") ELSE wire[e]
      /\ wire[e] \in Seq(Messages) /\ "FAIL" \in Messages
  BY DEF SendFail, ServerInv, IInv, TypeOK, taskVars, history, Messages
<1>2. /\ Len(Append(wire[e], "FAIL")) = Len(wire[e]) + 1 /\ Len(wire[e]) \in Nat
      /\ \A i \in 1..Len(wire[e]) : Append(wire[e], "FAIL")[i] = wire[e][i]
      /\ Append(wire[e], "FAIL")[Len(wire[e]) + 1] = "FAIL"
  BY <1>1, AppendProperties, LenProperties
<1>3. client'[e] = client[e] /\ received'[e] = received[e] /\ stopped'[e] = stopped[e]
  BY DEF clientVars
<1>4. WireInCycle(e)'
  <2> SUFFICES ASSUME peer[e] = "open", NEW i \in 1..(Len(wire[e]) + 1)
               PROVE  IF wire'[e][i] = "FAIL" THEN i = Len(wire'[e])
                      ELSE wire'[e][i] = "last" <=> (received[e] + i) % params[e].nb_frames = 0
    BY <1>1, <1>2, <1>3 DEF WireInCycle
  <2>1. CASE i = Len(wire[e]) + 1
    BY <1>1, <1>2, <2>1
  <2>2. CASE i # Len(wire[e]) + 1
    BY <1>1, <1>2, <2>2 DEF ReadingAt, WireInCycle
  <2> QED BY <2>1, <2>2
<1>5. Connected(e)' /\ FirstCycle(e)'
  BY <1>1, <1>3 DEF ReadingAt, Connected, FirstCycle, Over
<1> QED BY <1>4, <1>5 DEF ReadingAt

\* A frame that is received moves the client on in its cycle: the first one
\* that closes a cycle is the last one.
LEMMA ReceiveReading ==
  ASSUME ServerInv, ClientTypes, NEW e \in Conns, ReadingAt(e), Receive(e) \/ FetchFail(e)
  PROVE  ReadingAt(e)'
<1>1. /\ client[e] = "iterating" /\ peer[e] = "open" /\ wire[e] # <<>>
      /\ wire'[e] = Tail(wire[e]) /\ UNCHANGED <<pc, params, sent, peer, stopped>>
      /\ wire[e] \in Seq(Messages) /\ received[e] \in Nat /\ sent[e] \in Nat
      /\ params[e].nb_frames \in Nat \ {0}
  BY DEF Receive, FetchFail, ClientReads, ServerInv, IInv, TypeOK, ClientTypes, taskVars, history,
         Params
<1>2. /\ Len(wire[e]) \in Nat /\ Len(wire[e]) >= 1 /\ wire[e][1] = Head(wire[e])
      /\ Len(Tail(wire[e])) = Len(wire[e]) - 1
      /\ \A i \in 1..Len(Tail(wire[e])) : Tail(wire[e])[i] = wire[e][i + 1]
  BY <1>1, EmptySeq, HeadTailProperties, LenProperties
<1>3. /\ pc[e] # "done" => received[e] + Len(wire[e]) = sent[e]
      /\ \A i \in 1..Len(wire[e]) :
           IF wire[e][i] = "FAIL" THEN pc[e] = "done" /\ i = Len(wire[e])
           ELSE wire[e][i] = "last" <=> (received[e] + i) % params[e].nb_frames = 0
  BY <1>1 DEF ReadingAt, WireInCycle
<1>4. pc[e] # "new" /\ received[e] < params[e].nb_frames
  <2>1. pc[e] # "new"
    BY <1>1, <1>2, <1>3 DEF ServerInv, Accounts, Account
  <2> QED BY <1>1, <2>1 DEF ReadingAt, FirstCycle
<1>5. Connected(e)'
  BY <1>1, <1>4 DEF Connected, Receive, FetchFail, ClientTypes
<1>6. CASE Receive(e)
  <2>1. received'[e] = received[e] + 1 /\ Head(wire[e]) # "FAIL"
    BY <1>6 DEF Receive, ClientTypes
  <2>2. WireInCycle(e)'
    <3>1. pc[e] # "done" => received'[e] + Len(wire'[e]) = sent[e]
      <4>1. pc[e] # "done" => received[e] + Len(wire[e]) = sent[e]
        BY <1>3
      <4>2. Len(wire'[e]) = Len(wire[e]) - 1
        BY <1>1, <1>2
      <4> QED BY <1>1, <1>2, <2>1, <4>1, <4>2
    <3>2. ASSUME NEW i \in 1..Len(wire'[e])
          PROVE  IF wire'[e][i] = "FAIL" THEN pc[e] = "done" /\ i = Len(wire'[e])
                 ELSE wire'[e][i] = "last" <=> (received'[e] + i) % params[e].nb_frames = 0
      <4>1. i + 1 \in 1..Len(wire[e]) /\ wire'[e][i] = wire[e][i + 1]
        BY <1>1, <1>2
      <4>2. received'[e] + i = received[e] + (i + 1)
        BY <1>1, <2>1
      <4> QED BY <1>1, <1>2, <1>3, <4>1, <4>2
    <3> QED BY <1>1, <3>1, <3>2 DEF WireInCycle
  <2>3. Head(wire[e]) = "last" <=> (received[e] + 1) % params[e].nb_frames = 0
    BY <1>2, <1>3, <2>1
  <2>4. Head(wire[e]) = "last" <=> received'[e] = params[e].nb_frames
    <3> DEFINE n == params[e].nb_frames
               r == received[e]
    <3>1. r \in Nat /\ n \in Nat \ {0} /\ r < n
      BY <1>1, <1>4
    <3>2. (r + 1) % n = 0 <=> r + 1 = n
      <4> HIDE DEF r, n
      <4>1. CASE r + 1 = n
        BY <3>1, <4>1
      <4>2. CASE r + 1 < n
        BY <3>1, <4>2
      <4> QED BY <3>1, <4>1, <4>2
    <3> QED BY <2>1, <2>3, <3>2
  <2>5. client'[e] = IF Head(wire[e]) = "last" THEN "last" ELSE "iterating"
    BY <1>1, <1>6 DEF Receive, ClientTypes
  <2>6. FirstCycle(e)'
    BY <1>1, <1>4, <2>1, <2>4, <2>5 DEF FirstCycle
  <2> QED BY <1>5, <2>2, <2>6 DEF ReadingAt
<1>7. CASE FetchFail(e)
  <2>1. Head(wire[e]) = "FAIL" /\ received'[e] = received[e]
        /\ client'[e] = IF stopped[e] THEN "returned" ELSE "error"
    BY <1>7 DEF FetchFail, ClientTypes
  <2>2. pc[e] = "done" /\ Len(wire'[e]) = 0
    <3>1. 1 \in 1..Len(wire[e]) /\ wire[e][1] = "FAIL"
      BY <1>2, <2>1
    <3>2. pc[e] = "done" /\ Len(wire[e]) = 1
      BY <1>3, <3>1
    <3> QED BY <1>1, <1>2, <3>2
  <2>3. WireInCycle(e)' /\ FirstCycle(e)'
    BY <1>1, <2>1, <2>2 DEF WireInCycle, FirstCycle
  <2> QED BY <1>5, <2>3 DEF ReadingAt
<1> QED BY <1>6, <1>7

\* The program goes on in an acquisition without reading.
LEMMA ClientOnlyReading ==
  ASSUME ClientTypes, NEW e \in Conns, ReadingAt(e), NEW k \in Conns, ClientOnly(k)
  PROVE  ReadingAt(e)'
<1>1. UNCHANGED vars /\ received' = received /\ (stopped[e] => stopped'[e])
  BY DEF ClientOnly, FetchFinished, FetchEof, StopReply, ConsumerLeaves, ConsumerStops, ClientTypes
<1>2. \/ client'[e] = client[e]
      \/ client[e] = "last" /\ client'[e] = "returned"
      \/ client'[e] \in {"left", "error"}
  BY DEF ClientOnly, FetchFinished, FetchEof, StopReply, ConsumerLeaves, ConsumerStops, ClientTypes
<1>3. UNCHANGED <<pc, params, wire, peer, sent>>
  BY <1>1 DEF vars, taskVars, netVars, history
<1> QED BY <1>1, <1>2, <1>3 DEF ReadingAt, Connected, WireInCycle, FirstCycle, Over

\* Preparing an acquisition closes the connection of the previous one.
LEMMA PrepareReading ==
  ASSUME ServerInv, ClientTypes, NEW e \in Conns, ReadingAt(e), NEW k \in Conns, Prepare(k)
  PROVE  ReadingAt(e)'
<1>1. UNCHANGED <<pc, params, sent, received, stopped>>
  BY DEF Prepare, taskVars
<1>2. CASE e = k
  <2>1. client[e] = "idle" /\ client'[e] = "iterating"
    BY <1>2 DEF Prepare, ClientTypes
  <2>2. peer'[e] = peer[e] /\ wire'[e] = wire[e]
    <3>1. k - 1 # k
      BY SessionAssumption
    <3> QED BY <1>2, <3>1 DEF Prepare, ServerInv, IInv, TypeOK
  <2> QED BY <1>1, <2>1, <2>2 DEF ReadingAt, Connected, WireInCycle, FirstCycle, Over
<1>3. CASE e # k
  <2>1. client'[e] = client[e]
    BY <1>3 DEF Prepare, ClientTypes
  <2>2. \/ peer'[e] = peer[e] /\ wire'[e] = wire[e]
        \/ peer'[e] = "closed" /\ Over(e)
    BY <1>3, SessionAssumption DEF Prepare, ServerInv, IInv, TypeOK
  <2> QED BY <1>1, <2>1, <2>2 DEF ReadingAt, Connected, WireInCycle, FirstCycle, Over
<1> QED BY <1>2, <1>3

\* A client reads on its own connection, in the first cycle, what it has not read.
LEMMA ReadingNext ==
  ServerInv /\ ClientTypes /\ Reading /\ [SessionNext]_sessionVars => Reading'
<1> SUFFICES ASSUME ServerInv, ClientTypes, Reading, [SessionNext]_sessionVars, NEW e \in Conns
             PROVE  ReadingAt(e)'
  BY DEF Reading
<1>0. ReadingAt(e) /\ IInv /\ TypeOK
  BY DEF Reading, ServerInv, IInv
<1>1. ASSUME NEW k \in Conns, Prepare(k) PROVE ReadingAt(e)'
  BY <1>0, <1>1, PrepareReading
<1>2. ASSUME NEW k \in Conns, StartArrives(k) PROVE ReadingAt(e)'
  <2>1. CASE k = e
    BY <1>0, <1>2, <2>1, StartReading
  <2>2. CASE k # e
    <3>1. Unseen(e) /\ UNCHANGED clientVars
      BY <1>0, <1>2, <2>2 DEF StartArrives, StartAndReadAll, Unseen, TypeOK, netVars, history
    <3> QED BY <1>0, <3>1, UnseenReading DEF clientVars
  <2> QED BY <2>1, <2>2
<1>3. ASSUME NEW k \in Conns, Receive(k) \/ FetchFail(k) PROVE ReadingAt(e)'
  <2>1. CASE k = e
    BY <1>0, <1>3, <2>1, ReceiveReading
  <2>2. CASE k # e
    <3>1. /\ Unseen(e) /\ client'[e] = client[e] /\ received'[e] = received[e]
          /\ stopped' = stopped
      BY <1>0, <1>3, <2>2
         DEF Receive, FetchFail, ClientReads, Unseen, TypeOK, ClientTypes, taskVars, history
    <3> QED BY <1>0, <3>1, UnseenReading
  <2> QED BY <2>1, <2>2
<1>4. ASSUME NEW k \in Conns, ClientOnly(k) PROVE ReadingAt(e)'
  BY <1>0, <1>4, ClientOnlyReading
<1>5. CASE Runs /\ UNCHANGED clientVars
  <2>1. CASE WriteFrames(e)
    BY <1>0, <1>5, <2>1, WriteReading
  <2>2. CASE SendFail(e)
    BY <1>0, <1>5, <2>2, FailReading
  <2>3. CASE ~WriteFrames(e) /\ ~SendFail(e)
    <3>1. Unseen(e)
      BY <1>0, <1>5, <2>3, RunsUnseen
    <3> QED BY <1>0, <1>5, <3>1, UnseenReading DEF clientVars
  <2> QED BY <2>1, <2>2, <2>3
<1>6. CASE UNCHANGED sessionVars
  <2>1. Unseen(e) /\ UNCHANGED clientVars
    BY <1>6 DEF sessionVars, vars, taskVars, netVars, history, Unseen
  <2> QED BY <1>0, <2>1, UnseenReading DEF clientVars
<1> QED BY <1>1, <1>2, <1>3, <1>4, <1>5, <1>6, SessionSteps

\* What the simulator and the client keep in every session.
LEMMA SessionHolds == SessionSpec => []SessionInv
<1>1. SessionInit => SessionInv
  <2> SUFFICES ASSUME SessionInit PROVE SessionInv
    OBVIOUS
  <2>1. Init /\ client = [k \in Conns |-> "idle"] /\ call = [k \in Conns |-> "none"]
        /\ stopped = [k \in Conns |-> FALSE] /\ received = [k \in Conns |-> 0]
    BY DEF SessionInit
  <2>2. ServerInv
    BY <2>1, InitInv, AccountsInit, CyclesInit DEF ServerInv
  <2>3. ClientTypes /\ CallsRunning
    BY <2>1 DEF ClientTypes, ClientStates, CallsRunning
  <2>4. ASSUME NEW k \in Conns PROVE ReadingAt(k)
    <3>1. /\ client[k] = "idle" /\ pc[k] = "new" /\ peer[k] = "open"
          /\ wire[k] = <<>> /\ Len(wire[k]) = 0 /\ sent[k] = 0 /\ received[k] = 0
      BY <2>1 DEF Init
    <3> QED BY <3>1 DEF ReadingAt, Connected, WireInCycle, FirstCycle, Over
  <2> QED BY <2>2, <2>3, <2>4 DEF SessionInv, Reading
<1>2. SessionInv /\ [SessionNext]_sessionVars => SessionInv'
  BY ServerNext, TypesNext, ReadingNext DEF SessionInv
<1> QED BY <1>1, <1>2, PTL DEF SessionSpec

-----------------------------------------------------------------------------
(* What an iteration that ends has given the consumer *)

\* The number of cycles is copied from the timer when an acquisition starts.
LEMMA ParamsStep ==
  ASSUME [SessionNext]_sessionVars
  PROVE  UNCHANGED params \/ \E k \in Conns : StartArrives(k)
<1>1. ASSUME NEW k \in Conns, Prepare(k) \/ Receive(k) \/ FetchFail(k) PROVE UNCHANGED params
  BY <1>1 DEF Prepare, Receive, FetchFail, ClientReads, taskVars
<1>2. ASSUME NEW k \in Conns, ClientOnly(k) PROVE UNCHANGED params
  BY <1>2 DEF ClientOnly, FetchFinished, FetchEof, StopReply, ConsumerLeaves, ConsumerStops,
              vars, taskVars
<1>3. Runs => UNCHANGED params
  BY DEF Runs, TaskStep, TaskStart, Expose, Rested, HandlerStep, WriteFrames, LoseFrames,
         WriteFails, EndOfFrames, FinallyKilled, CloseConn, SendFail, StopAcquisition, StopKilled,
         taskVars
<1> QED BY <1>1, <1>2, <1>3, SessionSteps DEF sessionVars, vars, taskVars

\* The timer is set to one cycle.
LEMMA SingleCycleHolds ==
  ASSUME NbCycles \subseteq {0, 1}
  PROVE  SessionSpec => []SingleCycle
<1>1. SessionInit => SingleCycle
  <2> SUFFICES ASSUME Init, NEW c \in Conns PROVE params[c].nb_cycles = 1
    BY DEF SessionInit, SingleCycle
  <2>1. params[c] = [nb_frames |-> 1, nb_cycles |-> 1, dead_time |-> FALSE]
    BY DEF Init
  <2> QED BY <2>1
<1>2. SessionInv /\ SingleCycle /\ [SessionNext]_sessionVars => SingleCycle'
  <2> SUFFICES ASSUME SessionInv, SingleCycle, NEW k \in Conns, StartArrives(k) PROVE SingleCycle'
    BY ParamsStep DEF SingleCycle
  <2>1. config.nb_cycles \in {0, 1}
    BY DEF SessionInv, ServerInv, IInv, TypeOK, Configs
  <2>2. Prepared.nb_cycles = 1
    BY <2>1 DEF Prepared, AtLeastOne
  <2> QED BY <2>2 DEF StartArrives, StartAndReadAll, SingleCycle, SessionInv, ServerInv, IInv, TypeOK
<1> QED BY <1>1, <1>2, SessionHolds, PTL DEF SessionSpec

\* However many cycles were asked for, an iteration that ends normally and was
\* not stopped gave the consumer the frames of exactly one of them.
THEOREM OneCycleReturned ==
  SessionSpec => [](\A k \in Conns : client[k] = "returned" /\ ~stopped[k]
                                       => received[k] = params[k].nb_frames)
<1>1. SessionInv => \A k \in Conns : client[k] = "returned" /\ ~stopped[k]
                                       => received[k] = params[k].nb_frames
  BY DEF SessionInv, Reading, ReadingAt, FirstCycle
<1> QED BY <1>1, SessionHolds, PTL

\* With one cycle, that is every frame: nothing is lost, doubled or taken from
\* another acquisition, however stops, clients that leave and requests interleave.
THEOREM ReturnedCorrect ==
  ASSUME NbCycles \subseteq {0, 1}
  PROVE  SessionSpec => []ReturnedComplete
<1>1. SessionInv /\ SingleCycle => ReturnedComplete
  <2> SUFFICES ASSUME SessionInv, SingleCycle, NEW k \in Conns, client[k] = "returned", ~stopped[k]
               PROVE  received[k] = Total(k)
    BY DEF ReturnedComplete
  <2>1. received[k] = params[k].nb_frames /\ params[k].nb_frames \in Nat
    BY DEF SessionInv, Reading, ReadingAt, FirstCycle, ServerInv, IInv, TypeOK, Params
  <2> QED BY <2>1 DEF Total, SingleCycle
<1> QED BY <1>1, SessionHolds, SingleCycleHolds, PTL

-----------------------------------------------------------------------------
(* One cycle and no dead time: the greenlet ends with the last frame *)

\* An acquisition without dead time never rests, and one that was killed
\* before it ran has queued nothing.
LEMMA NoRestNext ==
  ASSUME FramePeriods = {FALSE}, ServerInv, NoDeadTime, CancelledEmpty,
         [SessionNext]_sessionVars, NEW e \in Conns
  PROVE  /\ ~params'[e].dead_time /\ task'[e] # "resting"
         /\ task'[e] = "cancelled" => frames'[e] = <<>>
<1>0. /\ ~params[e].dead_time /\ task[e] # "resting"
      /\ task[e] = "cancelled" => frames[e] = <<>>
      /\ task[e] = "spawned" => frames[e] = <<>>
      /\ IInv /\ TypeOK /\ Account(e)
  BY DEF NoDeadTime, CancelledEmpty, ServerInv, Accounts, Account, StartsWhole, IInv
<1>1. CASE Kept(e)
  BY <1>0, <1>1 DEF Kept
<1>2. CASE StartAndReadAll(e)
  <2>1. config.frame_period \in {FALSE}
    BY <1>0 DEF TypeOK, Configs
  <2> QED BY <1>0, <1>2, <2>1 DEF StartAndReadAll, Prepared, TypeOK
<1>3. CASE TaskStep(e)
  BY <1>0, <1>3 DEF TaskStep, TaskStart, Expose, Rested, NextExposure, TypeOK
<1>4. CASE WriteFrames(e) \/ LoseFrames(e) \/ WriteFails(e) \/ EndOfFrames(e)
  <2>1. /\ frames[e] # <<>> /\ params' = params
        /\ Finally(e) \/ UNCHANGED task
    BY <1>4 DEF WriteFrames, LoseFrames, WriteFails, EndOfFrames, FrameReady, NextFrames
  <2>2. task'[e] = task[e] \/ task[e] = "spawned"
    BY <1>0, <2>1, FinallyCutsLemma DEF FinallyCuts
  <2> QED BY <1>0, <2>1, <2>2
<1>5. CASE \E k \in Conns : Prepare(k)
  BY <1>0, <1>1, <1>5, PrepareEffect
<1> QED BY <1>0, <1>1, <1>2, <1>3, <1>4, <1>5, StepKeeps, SessionIsServed

\* Acquisitions of one cycle, whose producer does not rest after it; one that was
\* cancelled before it ran has queued nothing.
OneCycle == SingleCycle /\ NoDeadTime /\ CancelledEmpty

\* With one cycle and no frame period every acquisition is of that kind.
LEMMA OneCycleHolds ==
  ASSUME NbCycles \subseteq {0, 1}, FramePeriods = {FALSE}
  PROVE  SessionSpec => []OneCycle
<1>1. SessionInit => NoDeadTime /\ CancelledEmpty
  <2> SUFFICES ASSUME Init, NEW c \in Conns
               PROVE  ~params[c].dead_time /\ task[c] = "none"
    BY DEF SessionInit, NoDeadTime, CancelledEmpty
  <2>1. params[c] = [nb_frames |-> 1, nb_cycles |-> 1, dead_time |-> FALSE]
    BY DEF Init
  <2> QED BY <2>1 DEF Init
<1>2. SessionInv /\ NoDeadTime /\ CancelledEmpty /\ [SessionNext]_sessionVars
        => NoDeadTime' /\ CancelledEmpty'
  BY NoRestNext DEF NoDeadTime, CancelledEmpty, SessionInv
<1> QED BY <1>1, <1>2, SingleCycleHolds, SessionHolds, PTL DEF SessionSpec, OneCycle

\* The only entry after the last frame of a cycle is the None of a greenlet
\* that has ended.
LEMMA LastEnds ==
  ASSUME ServerInv, OneCycle, NEW c \in Conns, WriteFrames(c), Head(frames[c]) = "last"
  PROVE  Tail(frames[c]) = <<"none">>
<1> DEFINE q == frames[c]
           n == params[c].nb_frames
<1>1. /\ IInv /\ Account(c) /\ InCycle(c) /\ pc[c] = "serving"
      /\ q \in Seq(Items) /\ q # <<>> /\ n \in Nat \ {0} /\ sent[c] \in Nat
      /\ sent'[c] = sent[c] + 1
  BY DEF ServerInv, Accounts, CyclesInOrder, WriteFrames, FrameReady, IInv, TypeOK, Params
<1>2. /\ Len(q) \in Nat /\ Len(q) >= 1 /\ Len(Tail(q)) = Len(q) - 1
      /\ Tail(q) \in Seq(Items) /\ q[1] = "last"
      /\ \A i \in 1..Len(Tail(q)) : Tail(q)[i] = q[i + 1]
  BY <1>1, EmptySeq, HeadTailProperties, LenProperties
<1>3. task[c] # "none" /\ sent[c] + Queued(c) + ToProduce(c) <= n
  <2>1. task[c] # "none"
    BY <1>1 DEF IInv, TaskStarted
  <2>2. Total(c) = n
    BY <1>1 DEF Total, OneCycle, SingleCycle
  <2> QED BY <1>1, <2>1, <2>2 DEF Account, Accounted
<1>4. sent[c] + 1 = n
  <2>1. (sent[c] + 1) % n = 0
    BY <1>1, WriteInCycle
  <2>2. Queued(c) >= 1 /\ Queued(c) \in Int /\ ToProduce(c) \in Nat
    <3>1. Queued(c) >= 1
      BY <1>2 DEF Queued
    <3> QED BY <1>1, <3>1, AccountTypes
  <2>3. sent[c] + 1 <= n
    BY <1>1, <1>3, <2>2
  <2> HIDE DEF n
  <2>4. CASE sent[c] + 1 < n
    BY <1>1, <2>1, <2>4
  <2> QED BY <1>1, <2>3, <2>4
<1>5. Queued(c) <= 1 /\ ToProduce(c) = 0
  <2>1. Queued(c) >= 1 /\ Queued(c) \in Int /\ ToProduce(c) \in Nat
    <3>1. Queued(c) >= 1
      BY <1>2 DEF Queued
    <3> QED BY <1>1, <3>1, AccountTypes
  <2> QED BY <1>1, <1>3, <1>4, <2>1
<1>6. task[c] # "exposing"
  <2> SUFFICES ASSUME task[c] = "exposing" PROVE FALSE
    OBVIOUS
  <2>1. /\ nb_frames_left[c] >= 1 /\ nb_frames_left[c] \in Nat
        /\ nb_cycles_left[c] >= 1 /\ nb_cycles_left[c] \in Nat
    BY <1>1 DEF IInv, TypeOK, CountersPositive
  <2>2. nb_cycles_left[c] - 1 \in Nat
    BY <2>1
  <2>3. (nb_cycles_left[c] - 1) * n \in Nat
    BY <1>1, <2>2
  <2>4. ToProduce(c) = nb_frames_left[c] + (nb_cycles_left[c] - 1) * n
    BY DEF ToProduce, Alive
  <2> QED BY <1>5, <2>1, <2>3, <2>4
<1>7. task[c] = "dead"
  BY <1>1, <1>3, <1>6
     DEF IInv, TypeOK, TaskStates, Account, StartsWhole, OneCycle, NoDeadTime, CancelledEmpty
<1>8. q[Len(q)] = "none"
  BY <1>1, <1>7 DEF IInv, DeadQueueEnds
<1>9. Len(q) = 2
  <2>1. Len(q) # 1
    BY <1>2, <1>8
  <2>2. Queued(c) = Len(q) - 1
    BY <1>1, <1>8 DEF Queued
  <2> DEFINE m == Len(q)
  <2>3. m \in Nat /\ m >= 1 /\ m # 1 /\ m - 1 <= 1
    BY <1>2, <1>5, <2>1, <2>2
  <2> HIDE DEF m
  <2>4. m = 2
    BY <2>3
  <2> QED BY <2>4 DEF m
<1>10. Len(Tail(q)) = 1 /\ Tail(q)[1] = "none"
  BY <1>2, <1>8, <1>9
<1>11. /\ <<"none">> \in Seq(Items) /\ Len(<<"none">>) = 1 /\ <<"none">>[1] = "none"
  BY DEF Items
<1>12. \A i \in 1..Len(Tail(q)) : Tail(q)[i] = <<"none">>[i]
  BY <1>10, <1>11
<1>13. Tail(q) \in Seq(Items) /\ Len(Tail(q)) = Len(<<"none">>)
  BY <1>2, <1>10, <1>11
<1> HIDE DEF q
<1>14. Tail(q) = <<"none">>
  BY <1>11, <1>12, <1>13, SeqEqual
<1> QED BY <1>14 DEF q

-----------------------------------------------------------------------------
(* The detector goes from one acquisition to the next *)

\* While an acquisition that follows no left one is not over, no other one
\* has a handler at work.
LEMMA Alone ==
  ASSUME SessionInv, InOrder, Tidy, NEW k \in Conns, NoneLeft(k),
         client[k] # "idle", ~Over(k), NEW j \in Conns \ {k}
  PROVE  pc[j] \in {"new", "closing", "done"} /\ (client[j] = "idle" \/ Over(j))
<1>1. j \in Int /\ k \in Int /\ j # k
  BY SessionAssumption
<1>2. CASE j < k
  <2>1. Over(j) /\ NoneLeft(j)
    BY <1>1, <1>2, SessionAssumption DEF InOrder, NoneLeft
  <2> QED BY <2>1 DEF Tidy, TidyAt
<1>3. CASE j > k
  <2>1. client[j] = "idle"
    BY <1>1, <1>3 DEF InOrder
  <2> QED BY <2>1 DEF SessionInv, Reading, ReadingAt, Connected
<1> QED BY <1>1, <1>2, <1>3

\* Of what the others do, connection k only sees who has the detector.
Apart(k) ==
  /\ Unseen(k) /\ pc'[k] = pc[k]
  /\ acquisition' = acquisition \/ \E h \in Conns \ {k} : pc[h] \in {"serving", "killing"}

\* A step of the simulator for another connection leaves connection k alone.
LEMMA RunsApart ==
  ASSUME IInv, Runs, NEW k \in Conns, ~HandlerStep(k)
  PROVE  Apart(k)
<1>0. Unseen(k) /\ TypeOK
  BY RunsUnseen DEF HandlerStep, IInv
<1>1. ASSUME NEW c \in Conns, TaskStep(c) PROVE Apart(k)
  BY <1>0, <1>1 DEF TaskStep, TaskStart, Expose, Rested, Apart, detectorVars
<1>2. ASSUME NEW c \in Conns \ {k}, WriteFrames(c) \/ LoseFrames(c) \/ WriteFails(c) \/ EndOfFrames(c)
      PROVE  Apart(k)
  <2>1. pc[c] = "serving" /\ (Finally(c) \/ UNCHANGED <<pc, acquisition>>)
    BY <1>2 DEF WriteFrames, LoseFrames, WriteFails, EndOfFrames, FrameReady, NextFrames
  <2>2. pc'[k] = pc[k]
    BY <1>0, <2>1, FinallyEffect DEF FinallyFx
  <2> QED BY <1>0, <2>1, <2>2 DEF Apart
<1>3. ASSUME NEW c \in Conns \ {k}, FinallyKilled(c) PROVE Apart(k)
  BY <1>0, <1>3 DEF FinallyKilled, Release, Apart, TypeOK
<1>4. ASSUME NEW c \in Conns \ {k}, CloseConn(c) \/ SendFail(c) PROVE Apart(k)
  BY <1>0, <1>4 DEF CloseConn, SendFail, Apart, TypeOK, detectorVars
<1>5. ASSUME NEW s \in Stops, StopAcquisition(s) \/ StopKilled(s) PROVE Apart(k)
  BY <1>0, <1>5 DEF StopAcquisition, StopKilled, Apart, detectorVars
<1>6. ASSUME NEW c \in Conns, HandlerStep(c) PROVE c \in Conns \ {k}
  BY <1>6
<1> QED BY <1>1, <1>2, <1>3, <1>4, <1>5, <1>6 DEF Runs, HandlerStep

\* What the others do leaves k as it is: nobody else has the detector while
\* its handler serves.
LEMMA ApartTidy ==
  ASSUME SessionInv, InOrder, Tidy, NEW k \in Conns, NoneLeft(k), Apart(k),
         UNCHANGED clientVars
  PROVE  TidyAt(k)'
<1>1. TidyAt(k)
  BY DEF Tidy
<1>2. pc[k] = "serving" => acquisition' = acquisition
  <2> SUFFICES ASSUME pc[k] = "serving", NEW h \in Conns \ {k} PROVE pc[h] \notin {"serving", "killing"}
    BY DEF Apart
  <2>1. client[k] # "idle" /\ ~Over(k)
    BY <1>1 DEF TidyAt, SessionInv, Reading, ReadingAt, Connected
  <2> QED BY <2>1, Alone
<1> QED BY <1>1, <1>2 DEF TidyAt, Apart, Unseen, clientVars, Over, LastSent

\* A finally clause that finds its own acquisition ended gives it back.
LEMMA FinallyEnded ==
  ASSUME TypeOK, NEW k \in Conns, Finally(k), acquisition = k, task[k] = "dead"
  PROVE  pc'[k] = "closing"
<1>1. acquisition # None /\ ~Alive(k)
  BY ConnsAssumption DEF Alive
<1> QED BY <1>1 DEF Finally, KillBlocks, Release, TypeOK

\* The handler of k serves until it has written the last frame, or found that
\* its greenlet was killed.
LEMMA HandlerTidy ==
  ASSUME SessionInv, OneCycle, NEW k \in Conns, TidyAt(k), HandlerStep(k), UNCHANGED clientVars
  PROVE  TidyAt(k)'
<1>0. /\ IInv /\ TypeOK /\ Account(k) /\ ServerInv
      /\ ~Over(k) => peer[k] = "open"
  BY DEF SessionInv, ServerInv, Accounts, IInv, Reading, ReadingAt, Connected
<1>1. CASE CloseConn(k)
  <2>1. /\ pc[k] = "closing" /\ pc'[k] = "done"
        /\ UNCHANGED <<wire, peer, sent>>
    BY <1>0, <1>1 DEF CloseConn, TypeOK, netVars, history
  <2> QED BY <2>1 DEF TidyAt, clientVars, Over, LastSent
<1>2. CASE EndOfFrames(k)
  <2>1. /\ pc[k] = "serving" /\ frames[k] = <<"none">> /\ Finally(k)
        /\ UNCHANGED <<wire, peer, sent>>
    BY <1>2 DEF EndOfFrames, netVars
  <2>2. acquisition = k /\ task[k] = "dead"
    BY <1>0, <2>1 DEF TidyAt, Account, NoneEnds
  <2>3. pc'[k] = "closing"
    BY <1>0, <2>1, <2>2, FinallyEnded
  <2> QED BY <2>1, <2>3 DEF TidyAt, clientVars, Over, LastSent
<1>3. CASE WriteFrames(k)
  <2>1. /\ pc[k] = "serving" /\ acquisition = k /\ ~Over(k) /\ ~LastSent(k)
        /\ peer'[k] = peer[k] /\ sent'[k] = sent[k] + 1
        /\ wire'[k] = Append(wire[k], Head(frames[k]))
        /\ wire[k] \in Seq(Messages) /\ received[k] \in Nat
        /\ frames[k] \in Seq(Items) /\ frames[k] # <<>> /\ Head(frames[k]) # "none"
        /\ received[k] + Len(wire[k]) = sent[k]
        /\ \A i \in 1..Len(wire[k]) : wire[k][i] # "FAIL"
        /\ peer[k] = "open"
    BY <1>0, <1>3 DEF WriteFrames, FrameReady, TidyAt, TypeOK, SessionInv, ClientTypes
  <2>2. Head(frames[k]) \in Messages /\ Head(frames[k]) # "FAIL"
    BY <2>1, TakeEntry DEF Items, Messages
  <2>3. /\ Len(wire'[k]) = Len(wire[k]) + 1 /\ Len(wire[k]) \in Nat
        /\ \A i \in 1..Len(wire[k]) : wire'[k][i] = wire[k][i]
        /\ wire'[k][Len(wire[k]) + 1] = Head(frames[k])
    BY <2>1, <2>2, AppendProperties, LenProperties
  <2>4. /\ received[k] + Len(wire'[k]) = sent'[k]
        /\ \A i \in 1..Len(wire'[k]) : wire'[k][i] # "FAIL"
    <3>1. received[k] + (Len(wire[k]) + 1) = sent[k] + 1
      BY <2>1, <2>3
    <3>2. ASSUME NEW i \in 1..Len(wire'[k]) PROVE wire'[k][i] # "FAIL"
      <4>1. i \in 1..Len(wire[k]) \/ i = Len(wire[k]) + 1
        BY <2>3
      <4> QED BY <2>1, <2>2, <2>3, <4>1
    <3> QED BY <2>1, <2>3, <3>1, <3>2
  <2>5. pc'[k] = "closing" \/ (UNCHANGED <<pc, acquisition>> /\ Tail(frames[k]) # <<"none">>)
    <3>1. CASE Tail(frames[k]) = <<"none">> /\ Finally(k)
      <4>1. NextFrames(k, Tail(frames[k])) /\ FrameReady(k)
        BY <1>3 DEF WriteFrames
      <4>2. pc'[k] # "serving"
        BY <1>0, <3>1, FinallyEffect DEF FinallyFx
      <4>3. task[k] = "dead"
        BY <1>0, <4>1, <4>2, FrameTaken
      <4> QED BY <1>0, <2>1, <3>1, <4>3, FinallyEnded
    <3> QED BY <1>3, <3>1 DEF WriteFrames, NextFrames
  <2>6. pc'[k] = "serving" => ~LastSent(k)'
    <3> SUFFICES ASSUME pc'[k] = "serving", NEW i \in 1..Len(wire'[k]), wire'[k][i] = "last"
                 PROVE  FALSE
      BY <2>1 DEF LastSent, clientVars
    <3>1. Head(frames[k]) # "last"
      BY <1>0, <1>3, <2>5, LastEnds
    <3>2. i \in 1..Len(wire[k])
      BY <2>3, <3>1
    <3> QED BY <2>1, <2>3, <3>2 DEF LastSent
  <2>7. received'[k] = received[k] /\ (Over(k)' <=> Over(k)) /\ call'[k] = call[k]
    BY DEF clientVars, Over
  <2>8. pc'[k] \in {"serving", "closing"} /\ (pc'[k] = "serving" => acquisition' = k)
    BY <2>1, <2>5
  <2>9. call[k] # "error"
    BY <2>1 DEF TidyAt
  <2> QED BY <2>1, <2>4, <2>6, <2>7, <2>8, <2>9 DEF TidyAt
<1> QED BY <1>0, <1>1, <1>2, <1>3
        DEF TidyAt, HandlerStep, LoseFrames, WriteFails, FrameReady, FinallyKilled, SendFail

\* A loop that was left stays left.
LEMMA LeftStays ==
  ASSUME ClientTypes, CallsRunning, [SessionNext]_sessionVars, NEW k \in Conns, NoneLeft(k)'
  PROVE  NoneLeft(k)
<1> SUFFICES ASSUME NEW j \in Conns, client[j] = "left" PROVE client'[j] = "left"
  BY DEF NoneLeft
<1> USE DEF ClientTypes
<1>1. ASSUME NEW h \in Conns, Prepare(h) PROVE client'[j] = "left"
  BY <1>1 DEF Prepare
<1>2. ASSUME NEW h \in Conns, Receive(h) \/ FetchFail(h) PROVE client'[j] = "left"
  BY <1>2 DEF Receive, FetchFail
<1>3. ASSUME NEW h \in Conns, ClientOnly(h) PROVE client'[j] = "left"
  BY <1>3
     DEF ClientOnly, FetchFinished, FetchEof, ConsumerLeaves, ConsumerStops, StopReply, CallsRunning
<1> QED BY <1>1, <1>2, <1>3, SessionSteps DEF StartArrives, sessionVars, clientVars

\* A request arrives when no other handler has the detector.
LEMMA StartTidy ==
  ASSUME SessionInv, InOrder, Tidy, NEW k \in Conns, NoneLeft(k), NEW h \in Conns, StartArrives(h)
  PROVE  TidyAt(k)'
<1>1. TidyAt(k) /\ client[h] = "iterating" /\ pc[h] = "new"
  BY DEF Tidy, StartArrives, StartAndReadAll
<1>2. UNCHANGED <<wire, peer, sent, clientVars>> /\ acquisition' = h
  BY DEF StartArrives, StartAndReadAll, netVars, history
<1>3. CASE h = k
  <2>1. pc'[k] = "serving"
    BY <1>3 DEF StartArrives, StartAndReadAll, SessionInv, ServerInv, IInv, TypeOK
  <2> QED BY <1>1, <1>2, <1>3, <2>1 DEF TidyAt, clientVars, Over, LastSent
<1>4. CASE h # k
  <2>1. pc'[k] = pc[k]
    BY <1>4 DEF StartArrives, StartAndReadAll, SessionInv, ServerInv, IInv, TypeOK
  <2>2. pc[k] # "serving"
    <3> SUFFICES ASSUME pc[k] = "serving" PROVE FALSE
      OBVIOUS
    <3>1. client[k] # "idle" /\ ~Over(k)
      BY <1>1 DEF TidyAt, SessionInv, Reading, ReadingAt, Connected
    <3>2. client[h] = "idle" \/ Over(h)
      BY <1>4, <3>1, Alone
    <3> QED BY <1>1, <3>2 DEF Over
  <2> QED BY <1>1, <1>2, <2>1, <2>2 DEF TidyAt, clientVars, Over, LastSent
<1> QED BY <1>3, <1>4

\* The last frame is received when its handler has given the detector back.
LEMMA ReceiveTidy ==
  ASSUME SessionInv, NEW k \in Conns, TidyAt(k), NEW h \in Conns, Receive(h) \/ FetchFail(h)
  PROVE  TidyAt(k)'
<1>1. UNCHANGED <<pc, acquisition, sent, peer, call>>
  BY DEF Receive, FetchFail, ClientReads, detectorVars, history
<1>2. CASE h # k
  <2>1. wire'[k] = wire[k] /\ client'[k] = client[k] /\ received'[k] = received[k]
    BY <1>2 DEF Receive, FetchFail, ClientReads, SessionInv, ServerInv, IInv, TypeOK, ClientTypes
  <2> QED BY <1>1, <2>1 DEF TidyAt, Over, LastSent
<1>3. CASE h = k
  <2>1. /\ client[k] = "iterating" /\ peer[k] = "open" /\ wire[k] # <<>>
        /\ wire'[k] = Tail(wire[k]) /\ wire[k] \in Seq(Messages)
        /\ received[k] \in Nat /\ sent[k] \in Nat
    BY <1>3 DEF Receive, FetchFail, ClientReads, SessionInv, ServerInv, IInv, TypeOK, ClientTypes
  <2>2. /\ Len(wire[k]) \in Nat /\ Len(wire[k]) >= 1 /\ wire[k][1] = Head(wire[k])
        /\ Len(Tail(wire[k])) = Len(wire[k]) - 1
        /\ \A i \in 1..Len(Tail(wire[k])) : Tail(wire[k])[i] = wire[k][i + 1]
    BY <2>1, EmptySeq, HeadTailProperties, LenProperties
  <2>3. /\ received[k] + Len(wire[k]) = sent[k]
        /\ \A i \in 1..Len(wire[k]) : wire[k][i] # "FAIL"
    BY <2>1 DEF TidyAt
  <2>4. Receive(k) /\ received'[k] = received[k] + 1
        /\ client'[k] = IF Head(wire[k]) = "last" THEN "last" ELSE "iterating"
    <3>1. Head(wire[k]) # "FAIL"
      <4>1. 1 \in 1..Len(wire[k])
        BY <2>2
      <4> QED BY <2>2, <2>3, <4>1
    <3>2. Receive(k)
      BY <1>3, <3>1 DEF FetchFail
    <3> QED BY <2>1, <3>2 DEF Receive, SessionInv, ClientTypes
  <2>5. /\ received'[k] + Len(wire'[k]) = sent[k]
        /\ \A i \in 1..Len(wire'[k]) : wire'[k][i] # "FAIL"
    <3>1. (received[k] + 1) + (Len(wire[k]) - 1) = sent[k]
      BY <2>1, <2>2, <2>3
    <3>2. ASSUME NEW i \in 1..Len(wire'[k]) PROVE wire'[k][i] # "FAIL"
      <4>1. i + 1 \in 1..Len(wire[k]) /\ wire'[k][i] = wire[k][i + 1]
        BY <2>1, <2>2
      <4> QED BY <2>3, <4>1
    <3> QED BY <2>1, <2>2, <2>4, <3>1, <3>2
  <2>6. LastSent(k)' => LastSent(k)
    <3>1. CASE client'[k] = "last"
      <4>1. 1 \in 1..Len(wire[k]) /\ wire[k][1] = "last"
        BY <2>2, <2>4, <3>1
      <4> QED BY <4>1 DEF LastSent
    <3>2. ASSUME NEW i \in 1..Len(wire'[k]), wire'[k][i] = "last" PROVE LastSent(k)
      <4>1. i + 1 \in 1..Len(wire[k]) /\ wire[k][i + 1] = "last"
        BY <2>1, <2>2, <3>2
      <4> QED BY <4>1 DEF LastSent
    <3> QED BY <3>1, <3>2 DEF LastSent
  <2>7. ~Over(k)'
    BY <2>4 DEF Over
  <2> QED BY <1>1, <2>5, <2>6, <2>7 DEF TidyAt
<1> QED BY <1>2, <1>3

\* An iteration that ends has the last frame, or found the connection closed.
LEMMA ClientOnlyTidy ==
  ASSUME SessionInv, NEW k \in Conns, TidyAt(k), NoneLeft(k)', NEW h \in Conns, ClientOnly(h)
  PROVE  TidyAt(k)'
<1>1. UNCHANGED vars /\ received' = received
  BY DEF ClientOnly, FetchFinished, FetchEof, StopReply, ConsumerLeaves, ConsumerStops
<1>2. UNCHANGED <<pc, acquisition, wire, peer, sent>>
  BY <1>1 DEF vars, detectorVars, netVars, history
<1>3. client'[k] # "left"
  BY SessionAssumption DEF NoneLeft
<1>4. /\ \/ client'[k] = client[k]
         \/ client[k] = "last" /\ client'[k] = "returned"
         \/ call[k] = "error" /\ client'[k] = "error"
      /\ call'[k] = "error" => call[k] = "error" \/ pc[k] = "done"
  <2> USE <1>3 DEF SessionInv, ClientTypes
  <2>1. CASE FetchFinished(h)
    BY <2>1 DEF FetchFinished
  <2>2. CASE FetchEof(h)
    BY <2>2 DEF FetchEof
  <2>3. CASE StopReply(h)
    BY <2>3 DEF StopReply
  <2>4. CASE ConsumerLeaves(h) \/ ConsumerStops(h)
    BY <2>4 DEF ConsumerLeaves, ConsumerStops
  <2> QED BY <2>1, <2>2, <2>3, <2>4 DEF ClientOnly
<1>5. CASE client'[k] = client[k]
  BY <1>1, <1>2, <1>4, <1>5 DEF TidyAt, Over, LastSent
<1>6. CASE client[k] = "last" /\ client'[k] = "returned"
  <2>1. LastSent(k)
    BY <1>6 DEF LastSent
  <2> QED BY <1>1, <1>2, <1>4, <1>6, <2>1 DEF TidyAt, Over
<1>7. CASE call[k] = "error" /\ client'[k] = "error"
  BY <1>1, <1>2, <1>4, <1>7 DEF TidyAt, Over
<1> QED BY <1>4, <1>5, <1>6, <1>7

\* The next acquisition is prepared when the detector is free.
LEMMA PrepareTidy ==
  ASSUME SessionInv, NEW k \in Conns, TidyAt(k), NEW h \in Conns, Prepare(h)
  PROVE  TidyAt(k)'
<1>1. UNCHANGED <<pc, acquisition, sent, received, call>>
  BY DEF Prepare
<1>2. \/ client'[k] = client[k]
      \/ client[k] = "idle" /\ client'[k] = "iterating"
  BY DEF Prepare, SessionInv, ClientTypes
<1>3. \/ peer'[k] = peer[k] /\ wire'[k] = wire[k]
      \/ peer'[k] = "closed" /\ Over(k)
  BY SessionAssumption DEF Prepare, SessionInv, ServerInv, IInv, TypeOK
<1>4. CASE peer'[k] = peer[k] /\ wire'[k] = wire[k]
  BY <1>1, <1>2, <1>4 DEF TidyAt, Over, LastSent
<1>5. CASE peer'[k] = "closed" /\ Over(k)
  BY <1>1, <1>2, <1>5 DEF TidyAt, Over
<1> QED BY <1>3, <1>4, <1>5

\* An acquisition that nobody left has given the detector back when it is over.
LEMMA TidyNext ==
  SessionInv /\ OneCycle /\ InOrder /\ Tidy /\ [SessionNext]_sessionVars => Tidy'
<1> SUFFICES ASSUME SessionInv, OneCycle, InOrder, Tidy, [SessionNext]_sessionVars,
                    NEW k \in Conns, NoneLeft(k)'
             PROVE  TidyAt(k)'
  BY DEF Tidy
<1>0. NoneLeft(k) /\ TidyAt(k) /\ IInv
  BY LeftStays DEF SessionInv, ServerInv, Tidy
<1>1. CASE Runs /\ UNCHANGED clientVars
  <2>1. CASE HandlerStep(k)
    BY <1>0, <1>1, <2>1, HandlerTidy
  <2>2. CASE ~HandlerStep(k)
    BY <1>0, <1>1, <2>2, RunsApart, ApartTidy
  <2> QED BY <2>1, <2>2
<1>2. CASE UNCHANGED sessionVars
  <2>1. Apart(k) /\ UNCHANGED clientVars
    BY <1>2 DEF sessionVars, vars, detectorVars, taskVars, netVars, history, Apart, Unseen
  <2> QED BY <1>0, <2>1, ApartTidy
<1> QED BY <1>0, <1>1, <1>2, SessionSteps, PrepareTidy, StartTidy, ReceiveTidy, ClientOnlyTidy

\* The detector is used in order in every session of acquisitions with one
\* cycle and no dead time.
LEMMA TidyHolds ==
  ASSUME NbCycles \subseteq {0, 1}, FramePeriods = {FALSE}
  PROVE  SessionSpec => [](SessionInv /\ OneCycle /\ InOrder /\ Tidy)
<1>1. SessionInit => InOrder /\ Tidy
  <2>1. SessionInit => InOrder
    BY DEF SessionInit, InOrder
  <2>2. ASSUME SessionInit, NEW k \in Conns PROVE TidyAt(k)
    <3>1. /\ client[k] = "idle" /\ pc[k] = "new" /\ call[k] = "none"
          /\ wire[k] = <<>> /\ Len(wire[k]) = 0 /\ sent[k] = 0 /\ received[k] = 0
      BY <2>2 DEF SessionInit, Init
    <3> QED BY <3>1 DEF TidyAt, Over, LastSent
  <2> QED BY <2>1, <2>2 DEF Tidy
<1>2. SessionInv /\ OneCycle /\ InOrder /\ Tidy /\ [SessionNext]_sessionVars => InOrder' /\ Tidy'
  BY OrderNext, TidyNext DEF SessionInv
<1> QED BY <1>1, <1>2, SessionHolds, OneCycleHolds, PTL DEF SessionSpec

\* A program that leaves no loop.
LEMMA NobodyLeft ==
  ASSUME "leave" \notin Consumer
  PROVE  SessionSpec => [](\A k \in Conns : client[k] # "left")
<1> DEFINE Stays == \A k \in Conns : client[k] # "left" /\ call[k] # "left"
<1>1. SessionInit => Stays
  BY DEF SessionInit
<1>2. SessionInv /\ Stays /\ [SessionNext]_sessionVars => Stays'
  <2> SUFFICES ASSUME ClientTypes, Stays, [SessionNext]_sessionVars, NEW k \in Conns
               PROVE  client'[k] # "left" /\ call'[k] # "left"
    BY DEF SessionInv
  <2> USE DEF ClientTypes
  <2>1. ASSUME NEW h \in Conns, Prepare(h) PROVE client'[k] # "left" /\ call'[k] # "left"
    BY <2>1 DEF Prepare
  <2>2. ASSUME NEW h \in Conns, Receive(h) \/ FetchFail(h)
        PROVE  client'[k] # "left" /\ call'[k] # "left"
    BY <2>2 DEF Receive, FetchFail
  <2>3. ASSUME NEW h \in Conns, ClientOnly(h) PROVE client'[k] # "left" /\ call'[k] # "left"
    BY <2>3
       DEF ClientOnly, FetchFinished, FetchEof, ConsumerLeaves, ConsumerStops, StopReply
  <2> QED BY <2>1, <2>2, <2>3, SessionSteps DEF StartArrives, sessionVars, clientVars
<1>3. Stays => \A k \in Conns : client[k] # "left"
  OBVIOUS
<1> QED BY <1>1, <1>2, <1>3, SessionHolds, PTL DEF SessionSpec

\* As long as no loop was left, an acquisition that is over for the program is
\* over for the detector.
LEMMA ReleasedWhenOver ==
  ASSUME SessionInv, Tidy, NEW k \in Conns, NoneLeft(k), Over(k)
  PROVE  acquisition # k
<1>1. pc[k] \notin {"serving", "killing"}
  BY DEF Tidy, TidyAt
<1> QED BY <1>1, ConnsAssumption DEF SessionInv, ServerInv, IInv, OwnerIsServing

\* When an acquisition ends for the program, by itself, by a stop of its own or
\* by the stop of another program, the detector is free for the next one.
THEOREM ReleasedCorrect ==
  ASSUME NbCycles \subseteq {0, 1}, FramePeriods = {FALSE}, "leave" \notin Consumer
  PROVE  SessionSpec => []OverMeansReleased
<1>1. SessionInv /\ Tidy /\ (\A k \in Conns : client[k] # "left") => OverMeansReleased
  BY ReleasedWhenOver DEF OverMeansReleased, NoneLeft
<1> QED BY <1>1, TidyHolds, NobodyLeft, PTL

\* No START of the program takes the detector from an acquisition that has it.
THEOREM FreshCorrect ==
  ASSUME NbCycles \subseteq {0, 1}, FramePeriods = {FALSE}, "leave" \notin Consumer
  PROVE  SessionSpec => FreshDetector
<1> DEFINE Fresh == acquisition' # acquisition /\ acquisition' # None => acquisition = None
<1>1. /\ SessionInv /\ InOrder /\ Tidy /\ (\A k \in Conns : client[k] # "left")
      /\ [SessionNext]_sessionVars
      => [Fresh]_sessionVars
  <2> SUFFICES ASSUME SessionInv, InOrder, Tidy, \A k \in Conns : client[k] # "left",
                      [SessionNext]_sessionVars
               PROVE  Fresh \/ UNCHANGED sessionVars
    OBVIOUS
  <2>1. ASSUME NEW k \in Conns, StartArrives(k) PROVE Fresh
    <3> SUFFICES ASSUME acquisition # None PROVE FALSE
      OBVIOUS
    <3>1. acquisition \in Conns /\ pc[acquisition] \in {"serving", "killing"}
      BY DEF SessionInv, ServerInv, IInv, TypeOK, OwnerIsServing
    <3>2. client[k] = "iterating" /\ pc[k] = "new" /\ NoneLeft(k)
      BY <2>1 DEF StartArrives, StartAndReadAll, NoneLeft
    <3>3. acquisition \in Conns \ {k}
      BY <3>1, <3>2
    <3>4. pc[acquisition] \in {"new", "closing", "done"}
      BY <3>2, <3>3, Alone DEF Over
    <3> QED BY <3>1, <3>4
  <2>2. ASSUME NEW k \in Conns, Prepare(k) \/ Receive(k) \/ FetchFail(k) PROVE Fresh
    BY <2>2 DEF Prepare, Receive, FetchFail, ClientReads, detectorVars
  <2>3. ASSUME NEW k \in Conns, ClientOnly(k) PROVE Fresh
    BY <2>3 DEF ClientOnly, FetchFinished, FetchEof, StopReply, ConsumerLeaves, ConsumerStops,
                vars, detectorVars
  <2>4. ASSUME Runs PROVE acquisition' = acquisition \/ acquisition' = None
    BY <2>4 DEF Runs, TaskStep, TaskStart, Expose, Rested, HandlerStep, WriteFrames, LoseFrames,
           WriteFails, EndOfFrames, NextFrames, Finally, Release, FinallyKilled, CloseConn,
           SendFail, StopAcquisition, StopKilled, detectorVars
  <2> QED BY <2>1, <2>2, <2>3, <2>4, SessionSteps
<1> QED BY <1>1, TidyHolds, NobodyLeft, PTL DEF SessionSpec, FreshDetector

-----------------------------------------------------------------------------
(* Who has cut an acquisition, when nobody else uses the stop port *)

\* The kinds of step, with the caller of each stop.
LEMMA CalledSteps ==
  ASSUME UserStops = {}, [SessionNext]_sessionVars
  PROVE  \/ \E k \in Conns : \/ Prepare(k) \/ StartArrives(k) \/ Receive(k) \/ FetchFail(k)
                             \/ ClientOnly(k)
         \/ \E k \in Conns : StopArrives(k)
         \/ \E k \in Conns : (TaskStep(k) \/ HandlerStep(k)) /\ UNCHANGED clientVars
         \/ \E k \in Conns : \E s \in {StopOf(k), AbortOf(k)} : StopKilled(s) /\ UNCHANGED clientVars
         \/ UNCHANGED sessionVars
BY DEF SessionNext, Generator, ClientOnly, ProgramEnds, ServerRuns

\* Stops change the state of their own connection only, and only once.
LEMMA StopEffect ==
  ASSUME TypeOK, NEW s \in Stops, StopAcquisition(s) \/ StopKilled(s)
  PROVE  /\ spc[s] # "done" /\ spc'[s] \in {"killing", "done"}
         /\ StopKilled(s) => spc'[s] = "done"
         /\ \A r \in Stops \ {s} : spc'[r] = spc[r]
BY DEF StopAcquisition, StopKilled, TypeOK

\* No other step does.
LEMMA StopsKept ==
  ASSUME NEW k \in Conns,
         \/ Prepare(k) \/ StartArrives(k) \/ Receive(k) \/ FetchFail(k) \/ ClientOnly(k)
         \/ TaskStep(k) \/ HandlerStep(k)
  PROVE  UNCHANGED spc
BY DEF Prepare, StartArrives, StartAndReadAll, Receive, FetchFail, ClientReads, ClientOnly,
       FetchFinished, FetchEof, StopReply, ConsumerLeaves, ConsumerStops, vars,
       TaskStep, TaskStart, Expose, Rested, HandlerStep, WriteFrames, LoseFrames, WriteFails,
       EndOfFrames, FinallyKilled, CloseConn, SendFail

\* A stop that was answered stays answered.
LEMMA DoneStays ==
  ASSUME TypeOK, UserStops = {}, [SessionNext]_sessionVars, NEW r \in Stops, spc[r] = "done"
  PROVE  spc'[r] = "done"
<1>1. ASSUME NEW s \in Stops, StopAcquisition(s) \/ StopKilled(s) PROVE spc'[r] = "done"
  BY <1>1, StopEffect
<1> QED BY <1>1, CalledSteps, StopsKept, StopConnections DEF StopArrives, sessionVars, vars

\* A program that is not told to stop makes its calls one after the other.
LEMMA CallsNext ==
  ASSUME UserStops = {}, TypeOK, ClientTypes, CallsRunning, \A k \in Conns : OwnCalls(k),
         [SessionNext]_sessionVars, NEW e \in Conns
  PROVE  OwnCalls(e)'
<1>0. /\ OwnCalls(e) /\ StopOf(e) \in Stops /\ AbortOf(e) \in Stops
      /\ \A k \in Conns : /\ StopOf(e) # AbortOf(k)
                          /\ StopOf(e) = StopOf(k) => e = k
                          /\ AbortOf(e) = AbortOf(k) => e = k
  BY StopConnections, SessionAssumption DEF StopOf, AbortOf
<1> USE DEF ClientTypes
<1>1. ASSUME NEW k \in Conns,
             \/ Prepare(k) \/ StartArrives(k) \/ Receive(k) \/ FetchFail(k)
             \/ (TaskStep(k) \/ HandlerStep(k)) /\ UNCHANGED clientVars
      PROVE  OwnCalls(e)'
  <2>1. UNCHANGED <<call, spc>>
    BY <1>1, StopsKept DEF Prepare, StartArrives, Receive, FetchFail, clientVars
  <2>2. received'[e] = received[e] \/ received'[e] = received[e] + 1
    BY <1>1 DEF Prepare, StartArrives, Receive, FetchFail, clientVars
  <2> QED BY <1>0, <2>1, <2>2 DEF OwnCalls
<1>2. ASSUME NEW k \in Conns, ClientOnly(k) PROVE OwnCalls(e)'
  <2>1. UNCHANGED <<spc, received>>
    BY <1>2, StopsKept
       DEF ClientOnly, FetchFinished, FetchEof, StopReply, ConsumerLeaves, ConsumerStops
  <2>2. CASE call'[e] = call[e]
    BY <1>0, <2>1, <2>2 DEF OwnCalls
  <2>3. CASE StopReply(k) /\ k = e
    BY <1>0, <2>1, <2>3 DEF OwnCalls, StopReply, StopCall
  <2>4. CASE /\ FetchEof(k) \/ ConsumerLeaves(k) \/ ConsumerStops(k)
             /\ k = e
    BY <1>0, <2>1, <2>4 DEF OwnCalls, FetchEof, ConsumerLeaves, ConsumerStops, Running
  <2> QED BY <1>2, <2>2, <2>3, <2>4
          DEF ClientOnly, FetchFinished, FetchEof, StopReply, ConsumerLeaves, ConsumerStops
<1>3. ASSUME NEW k \in Conns, StopArrives(k) PROVE OwnCalls(e)'
  <2>1. /\ UNCHANGED <<call, received>> /\ call[k] # "none" /\ StopCall(k) \in Stops
        /\ \A r \in Stops \ {StopCall(k)} : spc'[r] = spc[r]
    BY <1>3, StopConnections, StopEffect DEF StopArrives, clientVars
  <2>2. CASE k = e
    BY <1>0, <2>1, <2>2 DEF OwnCalls, StopCall
  <2>3. CASE k # e
    <3>1. StopCall(k) \notin {StopOf(e), AbortOf(e)}
      BY <2>3, SessionAssumption DEF StopCall, StopOf, AbortOf
    <3> QED BY <1>0, <2>1, <3>1 DEF OwnCalls
  <2> QED BY <2>2, <2>3
<1>4. ASSUME NEW k \in Conns, NEW s \in {StopOf(k), AbortOf(k)}, StopKilled(s), UNCHANGED clientVars
      PROVE  OwnCalls(e)'
  <2>1. /\ UNCHANGED <<call, received>> /\ s \in Stops /\ spc'[s] = "done"
        /\ \A r \in Stops \ {s} : spc'[r] = spc[r]
    BY <1>4, StopConnections, StopEffect DEF clientVars
  <2> QED BY <1>0, <2>1 DEF OwnCalls
<1>5. CASE UNCHANGED sessionVars
  BY <1>0, <1>5 DEF sessionVars, clientVars, vars, OwnCalls
<1> QED BY <1>1, <1>2, <1>3, <1>4, <1>5, CalledSteps

\* What a program that has the detector for k can still do with it.
LEMMA OwnerAlone ==
  ASSUME SessionInv, InOrder, Tidy, NEW k \in Conns, NoneLeft(k), ~Over(k), pc[k] # "new"
  PROVE  /\ \A j \in Conns : pc[j] \in {"serving", "killing", "failing"} => j = k
         /\ \A j \in Conns : call[j] # "none" => j = k
<1>1. client[k] # "idle"
  BY DEF SessionInv, Reading, ReadingAt, Connected
<1>2. ASSUME NEW j \in Conns \ {k} PROVE pc[j] \in {"new", "closing", "done"} /\ call[j] = "none"
  <2>1. pc[j] \in {"new", "closing", "done"} /\ (client[j] = "idle" \/ Over(j))
    BY <1>1, Alone
  <2> QED BY <2>1 DEF Over, SessionInv, CallsRunning
<1> QED BY <1>2

\* A greenlet that has not run has sent nothing.
LEMMA SpawnedSentNothing ==
  ASSUME ServerInv, NEW k \in Conns, task[k] = "spawned"
  PROVE  sent[k] = 0 /\ frames[k] = <<>>
<1>1. /\ Account(k) /\ frames[k] = <<>> /\ ToProduce(k) = Total(k)
      /\ sent[k] \in Nat /\ Total(k) \in Nat
  BY AccountTypes DEF ServerInv, Accounts, Account, StartsWhole, ToProduce
<1>2. Queued(k) = 0
  BY <1>1 DEF Queued
<1>3. sent[k] + 0 + Total(k) <= Total(k)
  BY <1>1, <1>2 DEF Account, Accounted
<1> QED BY <1>1, <1>3

\* A handler cuts only what the program is through with.
LEMMA HandlerCutsOver ==
  ASSUME SessionInv, InOrder, Tidy, NEW k \in Conns, NoneLeft(k), k \notin cut,
         NEW c \in Conns, TaskStep(c) \/ HandlerStep(c), k \in cut'
  PROVE  Over(k)
<1> SUFFICES ASSUME ~Over(k) PROVE FALSE
  OBVIOUS
<1>0. TidyAt(k) /\ IInv /\ TypeOK /\ ServerInv
  BY DEF Tidy, SessionInv, ServerInv, IInv
<1>1. CASE FinallyKilled(c)
  <2>1. pc[c] = "killing" /\ KillLands(c)
    BY <1>1 DEF FinallyKilled
  <2>2. victim[c] = k /\ Alive(k)
    BY <2>1 DEF KillLands
  <2>3. pc[k] # "new" /\ pc[k] # "killing"
    BY <1>0, <2>2 DEF IInv, TaskStarted, Alive, TidyAt
  <2> QED BY <2>1, <2>3, OwnerAlone
<1>2. CASE Finally(c) /\ pc[c] = "serving" /\ frames[c] # <<>>
  <2>1. acquisition = k /\ task[k] = "spawned"
    BY <1>2 DEF Finally, KillReturns
  <2>2. pc[k] # "new"
    BY <1>0, <2>1 DEF IInv, TaskStarted
  <2>3. c = k
    BY <1>2, <2>2, OwnerAlone
  <2> QED BY <1>0, <1>2, <2>1, <2>3, SpawnedSentNothing
<1>3. CASE UNCHANGED cut
  BY <1>3
<1> QED BY <1>1, <1>2, <1>3
        DEF TaskStep, TaskStart, Expose, Rested, HandlerStep, WriteFrames, LoseFrames, WriteFails,
            EndOfFrames, NextFrames, FrameReady, CloseConn, SendFail, history

\* The program stops its acquisition after a frame, so its greenlet has run.
LEMMA ArrivalCutsNothing ==
  ASSUME SessionInv, InOrder, Tidy, \A j \in Conns : OwnCalls(j), NEW k \in Conns, NoneLeft(k),
         k \notin cut, NEW j \in Conns, StopArrives(j)
  PROVE  k \notin cut'
<1> SUFFICES ASSUME k \in cut' PROVE FALSE
  OBVIOUS
<1>0. TidyAt(k) /\ IInv /\ TypeOK /\ ServerInv /\ ClientTypes
  BY DEF Tidy, SessionInv, ServerInv, IInv
<1>1. acquisition = k /\ task[k] = "spawned" /\ call[j] # "none"
  BY DEF StopArrives, StopAcquisition, KillReturns
<1>2. pc[k] = "serving" /\ ~Over(k)
  BY <1>0, <1>1, ConnsAssumption DEF IInv, OwnerIsServing, TidyAt
<1>3. j = k
  BY <1>1, <1>2, OwnerAlone
<1>4. call[k] \in {"stop", "left"} /\ received[k] > 0
  BY <1>0, <1>1, <1>2, <1>3 DEF ClientTypes, TidyAt, OwnCalls
<1>5. peer[k] = "open" /\ received[k] + Len(wire[k]) = sent[k] /\ Len(wire[k]) \in Nat
  BY <1>0, <1>2, LenProperties DEF TidyAt, SessionInv, Reading, ReadingAt, Connected, TypeOK
<1>6. sent[k] = 0 /\ received[k] \in Nat
  BY <1>0, <1>1, SpawnedSentNothing DEF ClientTypes
<1> QED BY <1>4, <1>5, <1>6

\* A kill that is delivered to an acquisition in use was asked for by its consumer.
LEMMA KillIsCaused ==
  ASSUME SessionInv, InOrder, Tidy, \A j \in Conns : OwnCalls(j), NEW k \in Conns, NoneLeft(k),
         CausedAt(k), k \notin cut, ~Over(k),
         NEW j \in Conns, NEW s \in {StopOf(j), AbortOf(j)}, StopKilled(s), k \in cut'
  PROVE  spc'[StopOf(k)] = "done" \/ call[k] = "left"
<1>0. IInv /\ TypeOK /\ s \in Stops /\ StopOf(k) \in Stops
  BY StopConnections DEF SessionInv, ServerInv, IInv
<1>1. spc[s] = "killing" /\ spc'[s] = "done" /\ KillLands(s)
  BY <1>0, StopEffect DEF StopKilled
<1>2. Alive(k)
  BY <1>1 DEF KillLands
<1>3. pc[k] # "new"
  BY <1>0, <1>2 DEF IInv, TaskStarted, Alive
<1>4. call[j] # "none"
  BY <1>1 DEF OwnCalls
<1>5. j = k
  BY <1>3, <1>4, OwnerAlone
<1>6. CASE s = StopOf(k)
  BY <1>1, <1>6
<1>7. CASE s = AbortOf(k) /\ s # StopOf(k)
  <2>1. call[k] = "left" \/ spc[StopOf(k)] = "done"
    BY <1>1, <1>7 DEF OwnCalls, CausedAt
  <2> QED BY <1>0, <1>7, <2>1, StopEffect
<1> QED BY <1>5, <1>6, <1>7

\* The stream of an acquisition that nobody cut does not end before its last frame.
LEMMA EofIsCut ==
  ASSUME SessionInv, SingleCycle, NEW k \in Conns, TidyAt(k), FetchEof(k)
  PROVE  k \in cut
<1> SUFFICES ASSUME k \notin cut PROVE FALSE
  OBVIOUS
<1>0. IInv /\ TypeOK /\ Account(k) /\ ReadingAt(k) /\ ServerInv
  BY DEF SessionInv, ServerInv, Accounts, IInv, Reading
<1>1. client[k] = "iterating" /\ wire[k] = <<>> /\ pc[k] = "done"
  BY DEF FetchEof
<1>2. peer[k] = "open" /\ received[k] < params[k].nb_frames
  BY <1>0, <1>1 DEF ReadingAt, Connected, FirstCycle, Over
<1>3. received[k] + 0 = sent[k] /\ received[k] \in Nat /\ params[k].nb_frames \in Nat
  BY <1>0, <1>1, <1>2 DEF TidyAt, SessionInv, ClientTypes, TypeOK, Params
<1>4. task[k] = "dead" /\ frames[k] = <<>> /\ Accounted(k) = Total(k)
  BY <1>0, <1>1 DEF Account, Whole
<1>5. Queued(k) = 0 /\ ToProduce(k) = 0
  BY <1>4 DEF Queued, ToProduce, Alive
<1>6. Total(k) = params[k].nb_frames
  BY <1>3 DEF Total, SingleCycle
<1>7. sent[k] + 0 + 0 = params[k].nb_frames
  BY <1>4, <1>5, <1>6 DEF Accounted
<1> QED BY <1>2, <1>3, <1>7

\* The error of an acquisition has a cause.
LEMMA CausedNext ==
  ASSUME UserStops = {}, SessionInv, OneCycle, InOrder, Tidy, Caused, [SessionNext]_sessionVars,
         NEW k \in Conns, NoneLeft(k)'
  PROVE  CausedAt(k)'
<1>0. /\ NoneLeft(k) /\ TidyAt(k) /\ CausedAt(k) /\ TypeOK /\ ClientTypes
      /\ \A j \in Conns : OwnCalls(j)
      /\ StopOf(k) \in Stops /\ client'[k] # "left"
  BY LeftStays, StopConnections, SessionAssumption
     DEF SessionInv, ServerInv, IInv, Tidy, Caused, NoneLeft
<1>1. spc[StopOf(k)] = "done" => spc'[StopOf(k)] = "done"
  BY <1>0, DoneStays
<1>2. Over(k) => Over(k)'
  BY <1>0, OverStays
<1>3. ASSUME k \in cut', k \notin cut, ~Over(k)
      PROVE  spc'[StopOf(k)] = "done" \/ call'[k] = "left"
  <2>1. ASSUME NEW j \in Conns, Prepare(j) PROVE FALSE
    BY <1>3, <2>1 DEF Prepare
  <2>2. ASSUME NEW j \in Conns, StartArrives(j) \/ Receive(j) \/ FetchFail(j) PROVE FALSE
    BY <1>3, <2>2 DEF StartArrives, StartAndReadAll, Receive, FetchFail, ClientReads, history
  <2>3. ASSUME NEW j \in Conns, ClientOnly(j) PROVE FALSE
    BY <1>3, <2>3 DEF ClientOnly, FetchFinished, FetchEof, StopReply, ConsumerLeaves,
                      ConsumerStops, vars, history
  <2>4. ASSUME NEW j \in Conns, StopArrives(j) PROVE FALSE
    BY <1>0, <1>3, <2>4, ArrivalCutsNothing
  <2>5. ASSUME NEW j \in Conns, TaskStep(j) \/ HandlerStep(j) PROVE FALSE
    BY <1>0, <1>3, <2>5, HandlerCutsOver
  <2>6. ASSUME NEW j \in Conns, NEW s \in {StopOf(j), AbortOf(j)}, StopKilled(s),
               UNCHANGED clientVars
        PROVE  spc'[StopOf(k)] = "done" \/ call'[k] = "left"
    BY <1>0, <1>3, <2>6, KillIsCaused DEF clientVars
  <2>7. CASE UNCHANGED sessionVars
    BY <1>3, <2>7 DEF sessionVars, vars, history
  <2> QED BY <2>1, <2>2, <2>3, <2>4, <2>5, <2>6, <2>7, CalledSteps
<1>4. call[k] = "left" => call'[k] = "left" \/ Over(k)'
  <2> USE <1>0 DEF ClientTypes
  <2>1. ASSUME NEW j \in Conns, ClientOnly(j) PROVE call[k] = "left" => call'[k] = "left"
    BY <2>1 DEF ClientOnly, FetchFinished, FetchEof, StopReply, ConsumerLeaves, ConsumerStops,
                Running
  <2>2. ASSUME NEW j \in Conns, Prepare(j) \/ Receive(j) \/ FetchFail(j) PROVE UNCHANGED call
    BY <2>2 DEF Prepare, Receive, FetchFail
  <2> QED BY <2>1, <2>2, SessionSteps DEF StartArrives, sessionVars, clientVars
<1>5. k \in cut' /\ ~Over(k)' => spc'[StopOf(k)] = "done" \/ call'[k] = "left"
  BY <1>0, <1>1, <1>2, <1>3, <1>4 DEF CausedAt
<1>6. ASSUME call'[k] = "error" \/ client'[k] = "error", ~(call[k] = "error" \/ client[k] = "error")
      PROVE  spc[StopOf(k)] = "done"
  <2>1. FetchEof(k) \/ FetchFail(k)
    <3> USE <1>0, <1>6 DEF ClientTypes
    <3>1. ASSUME NEW j \in Conns, ClientOnly(j) PROVE FetchEof(k)
      BY <3>1 DEF ClientOnly, FetchFinished, FetchEof, StopReply, ConsumerLeaves, ConsumerStops
    <3>2. ASSUME NEW j \in Conns, Prepare(j) PROVE FALSE
      BY <3>2 DEF Prepare
    <3>3. ASSUME NEW j \in Conns, Receive(j) \/ FetchFail(j) PROVE FetchFail(k)
      BY <3>3 DEF Receive, FetchFail
    <3> QED BY <3>1, <3>2, <3>3, SessionSteps DEF StartArrives, sessionVars, clientVars
  <2>2. CASE FetchEof(k)
    <3>1. k \in cut /\ ~Over(k) /\ call[k] = "none"
      BY <1>0, <2>2, EofIsCut DEF FetchEof, Over, OneCycle
    <3> QED BY <1>0, <3>1 DEF CausedAt
  <2>3. CASE FetchFail(k)
    <3>1. peer[k] = "open" /\ wire[k] # <<>> /\ Head(wire[k]) = "FAIL" /\ wire[k] \in Seq(Messages)
      BY <1>0, <2>3 DEF FetchFail, ClientReads, TypeOK
    <3>2. Len(wire[k]) \in Nat /\ Len(wire[k]) >= 1 /\ wire[k][1] = "FAIL"
      BY <3>1, EmptySeq, HeadTailProperties, LenProperties
    <3> QED BY <1>0, <3>1, <3>2 DEF TidyAt
  <2> QED BY <2>1, <2>2, <2>3
<1> QED BY <1>0, <1>1, <1>5, <1>6 DEF CausedAt

\* The program gets an error only in an acquisition that it stopped itself,
\* as long as it leaves no loop and nobody else uses the stop port.
THEOREM NoErrorCorrect ==
  ASSUME NbCycles \subseteq {0, 1}, FramePeriods = {FALSE}, UserStops = {}
  PROVE  SessionSpec => []NoUnprovokedError
<1>1. SessionInit => Caused
  <2> SUFFICES ASSUME SessionInit, NEW k \in Conns PROVE OwnCalls(k) /\ CausedAt(k)
    BY DEF Caused
  <2>1. /\ client[k] = "idle" /\ call[k] = "none" /\ cut = {}
        /\ spc[StopOf(k)] = "new" /\ spc[AbortOf(k)] = "new"
    BY StopConnections DEF SessionInit, Init
  <2> QED BY <2>1 DEF OwnCalls, CausedAt
<1>2. SessionInv /\ OneCycle /\ InOrder /\ Tidy /\ Caused /\ [SessionNext]_sessionVars => Caused'
  BY CallsNext, CausedNext DEF Caused, SessionInv, ServerInv, IInv
<1>3. Caused => NoUnprovokedError
  <2> SUFFICES ASSUME Caused, NEW k \in Conns, client[k] = "error", ~LeftBefore(k)
               PROVE  spc[StopOf(k)] = "done"
    BY DEF NoUnprovokedError
  <2>1. NoneLeft(k)
    BY SessionAssumption DEF LeftBefore, NoneLeft
  <2> QED BY <2>1 DEF Caused, CausedAt
<1> QED BY <1>1, <1>2, <1>3, TidyHolds, PTL DEF SessionSpec
=============================================================================
