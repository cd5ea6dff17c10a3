---------------------------- MODULE SardanaProofs ----------------------------
(***************************************************************************)
(* Theorems about the Sardana controller, for any number of acquisitions,  *)
(* aborts, parameters, frames and foreign stops.  PoolInv is what holds    *)
(* whatever the threads do to each other's Connections: the call that the  *)
(* pool and each acquisition's thread make where they are, and the block   *)
(* that the thread takes over from the pool.  Delivered follows the frames *)
(* of each acquisition up to the queue, and MethodsSucceed the answers of  *)
(* the pool, while nobody crossed a Connection; CutShort and Blamed follow *)
(* the errors of an acquisition back to the frames that it lacks.  The     *)
(* last part, CalmInv, shows that a pool which nobody disturbs crosses no  *)
(* Connection.                                                             *)
(***************************************************************************)
EXTENDS SardanaController, ClientThreadsProofs

PoolTypes ==
  /\ acq \in Acqs \cup {None}
  /\ method \in Methods /\ todo \in 0..4
  /\ phase \in {"free", "loaded", "started", "aborted", "broken"}
  /\ reported \in {"On", "Running", "Fault"}
  /\ loop \in [Acqs -> Loops]
  /\ {stopping, failed, told} \subseteq [Acqs -> BOOLEAN]
  /\ {queued, read} \subseteq [Acqs -> Nat]
  /\ raised \subseteq Methods \cup {"ReadOne"}
  /\ spent \in [{"loads", "aborts", "pars"} -> Nat]

\* The call of a method.
PoolCalls ==
  /\ at[Pool] # "idle" =>
       \/ method \in {"LoadOne", "CtrlPar"} /\ call[Pool] = Ask("ctrl", "COMMAND", Pool)
       \/ method = "StartOne" /\ call[Pool] = Ask("ctrl", "START", acq)
       \/ method \in {"StateAll", "CtrlPar"} /\ call[Pool] = Ask("stop", "RUN_STATUS", Pool)
       \/ method = "AbortOne" /\ call[Pool] = Ask("stop", "STOP", Pool)
  /\ method = "StartOne" /\ at[Pool] # "connect" => reader["ctrl"] # None

\* What the pool has done with its acquisition, and how far that is.
Phases ==
  /\ method = "LoadOne" => phase = "free" /\ acq # None /\ loop[acq] = "bare"
  /\ method = "StartOne" => phase = "loaded"
  /\ phase = "loaded" => acq # None /\ loop[acq] = "ready"
  /\ phase = "started" /\ acq # None =>
       /\ loop[acq] \notin {"absent", "bare", "ready"}
       /\ reported = "On" \/ method = "StateAll" => loop[acq] = "over"
  /\ \A a \in Acqs : a > spent["loads"] => loop[a] = "absent"

\* The call of an acquisition's thread where it is.
LoopCalls(a) ==
  /\ at[a] # "idle" =>
       \/ loop[a] = "fetching" /\ call[a] = Ask("ctrl", "FRAME", a)
       \/ loop[a] \in {"raising", "hiding"} /\ call[a] = Ask("stop", "STOP", a)
       \/ loop[a] \in {"closing", "SLSError", "Exception"} /\ call[a] = Ask("ctrl", "CLOSE", a)
  /\ loop[a] \notin {"absent", "bare", "ready"} => reader["ctrl"] # None
  /\ failed[a] => loop[a] = "over"

\* START leaves its block open in the pool's thread.
PoolBlock ==
  method = "StartOne" /\ "ctrl" \notin crossed =>
    IF at[Pool] = "idle" THEN result[Pool] = "reply" /\ Held(Pool, acq)
    ELSE at[Pool] \in {"connect", "assign", "write"}

\* The acquisition's thread is in it until its exit.
Blocked(a) == loop[a] \in {"next", "fetching", "finished", "failed", "hidden", "raising", "hiding"}

LoopBlock(a) ==
  Blocked(a) /\ "ctrl" \notin crossed =>
    /\ Held(a, a)
    /\ loop[a] = "fetching" /\ at[a] = "reading" => waits[a] = reader["ctrl"]
    /\ loop[a] = "fetching" /\ at[a] \in {"test", "clear"} => result[a] = "ConnectionError"

PoolInv == /\ PoolTypes /\ SharedInv /\ OwnInv /\ PoolCalls /\ Phases /\ PoolBlock
           /\ \A a \in Acqs : LoopCalls(a) /\ LoopBlock(a)

\* Frames may still come, and those that the thread has got.
Flowing(a) == \/ loop[a] = "next"
              \/ loop[a] = "fetching" /\ at[a] = "reading"
              \/ loop[a] = "fetching" /\ at[a] = "idle" /\ result[a] = "frame"

Kept(a) == read[a] + queued[a]
Got(a)  == IF loop[a] = "fetching" /\ at[a] = "idle" THEN Kept(a) + 1 ELSE Kept(a)

\* No frame is lost between the simulator and the queue, or somebody is told.
Delivers(a) ==
  /\ Kept(a) <= Frames
  /\ loop[a] \in {"absent", "bare", "ready"} => Kept(a) = 0
  /\ Flowing(a) => FlowOf(reader["ctrl"], Got(a))
  /\ loop[a] = "fetching" /\ at[a] = "idle" =>
       /\ result[a] = "frame" => Kept(a) + 1 < Frames
       /\ result[a] = "last" => Kept(a) + 1 = Frames
  /\ loop[a] \in {"finished", "closing"} => Kept(a) = Frames
  /\ loop[a] = "over" => Kept(a) = Frames \/ failed[a] \/ told[a] \/ stopping[a]

Delivered ==
  "ctrl" \notin crossed =>
    /\ \A a \in Acqs : Delivers(a)
    /\ method = "StartOne" /\ at[Pool] = "idle" => FlowOf(reader["ctrl"], 0)

\* The methods of the pool get the answers to their commands.
MethodsSucceed ==
  crossed = {} =>
    /\ raised \subseteq {"ReadOne"}
    /\ method # "none" /\ at[Pool] = "idle" => Good \/ (method = "LoadOne" /\ todo = 4)
    /\ acq # None /\ loop[acq] = "bare" => method = "LoadOne"

\* Frames are still missing where an error is on its way, in the queue or told.
Short(a) ==
  /\ \/ loop[a] \in {"next", "failed", "hidden", "raising", "hiding", "SLSError", "Exception"}
     \/ loop[a] = "fetching" /\ ~(at[a] = "idle" /\ result[a] = "last")
     => Kept(a) < Frames
  /\ failed[a] \/ told[a] => Kept(a) < Frames /\ loop[a] = "over"

CutShort == crossed = {} => \A a \in Acqs : Short(a)

\* ReadOne raises after an abort or where it tells of an error.
Blamed ==
  /\ method = "AbortOne" \/ phase = "aborted" => spent["aborts"] > 0
  /\ phase = "started" => acq # None
  /\ "ReadOne" \in raised => spent["aborts"] > 0 \/ \E a \in Acqs : told[a]

SardanaInv == PoolInv /\ Delivered /\ MethodsSucceed /\ CutShort /\ Blamed

-----------------------------------------------------------------------------
(* The calls of the threads *)

\* The threads of the controller, and the tags of its calls.
LEMMA PoolThreads ==
  /\ Threads = {Pool} \cup Acqs /\ Pool \notin Acqs /\ Threads \subseteq Tags
  /\ None \notin Threads /\ None \notin Sockets /\ {"ctrl", "stop"} = Objects
  /\ Commands = {"COMMAND", "START", "FRAME", "CLOSE", "STOP", "TIME_LEFT", "RUN_STATUS"}
  /\ Loads \in Nat /\ Frames \in Nat \ {0}
  /\ \A s \in Sides("ctrl") : s \in Sockets /\ s # None
  BY SardanaAssumption, ThreadsAssumption, OneSide DEF Objects, Commands

\* Nothing was loaded yet.
LEMMA PoolInit == SardanaInit => PoolInv
<1> SUFFICES ASSUME SardanaInit PROVE PoolInv
  OBVIOUS
<1>1. SharedInv /\ OwnInv
  BY InitShared DEF SardanaInit
<1>2. PoolTypes
  BY DEF SardanaInit, PoolTypes, Loops, Methods
<1>3. \A t \in Threads : at[t] = "idle"
  BY DEF SardanaInit, ThreadsInit
<1>4. PoolCalls /\ Phases /\ PoolBlock
  BY <1>3, PoolThreads DEF SardanaInit, PoolCalls, Phases, PoolBlock
<1>5. \A a \in Acqs : LoopCalls(a) /\ LoopBlock(a)
  BY <1>3, PoolThreads DEF SardanaInit, LoopCalls, LoopBlock, Blocked
<1> QED BY <1>1, <1>2, <1>4, <1>5 DEF PoolInv

\* Nothing happens to a thread and what it holds.
LEMMA LoopApart ==
  ASSUME NEW a \in Acqs, LoopCalls(a), LoopBlock(a),
         loop'[a] = loop[a], at'[a] = at[a], call'[a] = call[a], waits'[a] = waits[a],
         result'[a] = result[a], failed'[a] => failed[a], crossed \subseteq crossed',
         reader["ctrl"] # None => reader'["ctrl"] # None,
         "ctrl" \notin crossed' /\ Held(a, a) => Held(a, a)' /\ reader'["ctrl"] = reader["ctrl"]
  PROVE  LoopCalls(a)' /\ LoopBlock(a)'
<1>1. LoopCalls(a)'
  BY DEF LoopCalls, Ask
<1>2. LoopBlock(a)'
  BY DEF LoopBlock, Blocked
<1> QED BY <1>1, <1>2

\* A thread goes on with its call: the others are where they were.
LEMMA CallPool ==
  ASSUME PoolInv, NEW t \in Threads, Calling(t)
  PROVE  PoolInv'
<1>1. CallStep(t) /\ UNCHANGED sardanaVars /\ SharedInv /\ OwnInv
  BY DEF Calling, PoolInv
<1>2. /\ SharedInv' /\ OwnInv' /\ crossed \subseteq crossed'
      /\ at[t] # "idle" /\ (at'[t] # "idle" => call'[t] = call[t])
      /\ \A u \in Threads \ {t} : /\ at'[u] = at[u] /\ call'[u] = call[u]
                                  /\ waits'[u] = waits[u] /\ result'[u] = result[u]
                                  /\ inside'[u] = inside[u]
      /\ reader["ctrl"] # None => reader'["ctrl"] # None
  BY <1>1, CallEffect
<1>3. UNCHANGED <<loop, method, acq, failed>>
  BY <1>1 DEF sardanaVars, poolVars, loopVars
<1>4. PoolTypes' /\ Phases'
  BY <1>1 DEF PoolInv, PoolTypes, Phases, sardanaVars, poolVars, loopVars
<1>5. ASSUME NEW u \in Threads \ {t}, "ctrl" \notin crossed', "ctrl" \in inside[u]
      PROVE  CtrlSame
  BY <1>1, <1>5, AloneInBlock, StopSame
<1>6. PoolCalls'
  <2>1. at'[Pool] # "idle" => at[Pool] # "idle" /\ call'[Pool] = call[Pool]
    BY <1>2, PoolThreads
  <2>2. method = "StartOne" /\ at'[Pool] # "connect" => reader'["ctrl"] # None
    <3>1. CASE at[Pool] = "connect" /\ t = Pool /\ method = "StartOne"
      <4>1. Connect(t) /\ Object(t) = "ctrl"
        BY SMTT(30), <1>1, <3>1 DEF CallStep, Assign, Write, SocketGone, TakeFrame, TakeReply,
            UpdateClient, TakeFail, TakeMessage, Takes, TakeEof, CloseTest,
           CloseClear, PoolInv, PoolCalls, Ask, Object
      <4>2. at'[t] = "assign"
        BY <4>1 DEF Connect, Goes, PoolInv, SharedInv, ThreadsTypeOK
      <4>3. Object(t)' = "ctrl"
        BY <1>2, <4>1, <4>2 DEF Object
      <4> QED BY <1>2, <4>2, <4>3 DEF SharedInv, Placed
    <3>2. CASE ~(at[Pool] = "connect" /\ t = Pool)
      BY <1>2, <3>2, PoolThreads DEF PoolInv, PoolCalls
    <3> QED BY <3>1, <3>2
  <2> QED BY <1>3, <2>1, <2>2 DEF PoolInv, PoolCalls, Ask
<1>7. PoolBlock'
  <2>1. SUFFICES ASSUME method = "StartOne", "ctrl" \notin crossed' PROVE PoolBlock'
    BY <1>3 DEF PoolBlock
  <2>2. "ctrl" \notin crossed /\ acq \in Acqs
    BY <1>2, <2>1 DEF PoolInv, Phases, PoolTypes
  <2>3. PICK tag \in Tags : tag = acq
    BY <2>2, PoolThreads
  <2>4. CASE t = Pool
    <3>1. call[t] = Ask("ctrl", "START", tag) /\ at[t] \in {"connect", "assign", "write"}
      BY <1>2, <2>1, <2>2, <2>3, <2>4 DEF PoolInv, PoolCalls, PoolBlock
    <3>2. \/ at'[t] \in {"assign", "write"}
          \/ at'[t] = "idle" /\ result'[t] = "reply" /\ Held(t, tag)'
      BY <1>1, <2>1, <3>1, StartCall
    <3> QED BY <1>3, <2>3, <2>4, <3>2 DEF PoolBlock, Held, Speaks
  <2>5. CASE t # Pool
    <3>1. at[Pool] = "idle" => result[Pool] = "reply" /\ Held(Pool, tag)
      BY <2>1, <2>2, <2>3 DEF PoolInv, PoolBlock
    <3>2. at[Pool] = "idle" => Held(Pool, tag)'
      BY <1>5, <2>1, <2>5, <3>1, SameHeld, PoolThreads DEF Held
    <3>3. at'[Pool] = at[Pool] /\ result'[Pool] = result[Pool]
      BY <1>2, <2>5, PoolThreads
    <3> QED BY <1>3, <2>1, <2>2, <2>3, <3>1, <3>2, <3>3 DEF PoolBlock, PoolInv, Held, Speaks
  <2> QED BY <2>4, <2>5
<1>8. ASSUME NEW a \in Acqs, a # t PROVE LoopCalls(a)' /\ LoopBlock(a)'
  <2>1. ASSUME "ctrl" \notin crossed', Held(a, a)
        PROVE  Held(a, a)' /\ reader'["ctrl"] = reader["ctrl"]
    <3>1. CtrlSame
      BY <1>5, <1>8, <2>1, PoolThreads DEF Held
    <3> QED BY <2>1, <3>1, SameHeld, PoolThreads DEF CtrlSame
  <2> QED BY <1>2, <1>3, <1>8, <2>1, LoopApart, PoolThreads DEF PoolInv
<1>9. ASSUME t \in Acqs PROVE LoopCalls(t)' /\ LoopBlock(t)'
  <2>0. LoopCalls(t) /\ LoopBlock(t) /\ t \in Tags
    BY <1>9, PoolThreads DEF PoolInv
  <2>1. LoopCalls(t)'
    BY <1>2, <1>3, <2>0 DEF LoopCalls, Ask
  <2>2. LoopBlock(t)'
    <3>1. SUFFICES ASSUME "ctrl" \notin crossed', Blocked(t) PROVE LoopBlock(t)'
      BY <1>3 DEF LoopBlock, Blocked
    <3>2. Held(t, t)
      BY <1>2, <2>0, <3>1 DEF LoopBlock
    <3>3. CASE loop[t] = "fetching"
      <4>1. /\ call[t] = Ask("ctrl", "FRAME", t)
            /\ at[t] = "reading" => waits[t] = reader["ctrl"]
            /\ at[t] \in {"test", "clear"} => result[t] = "ConnectionError"
        BY <1>2, <2>0, <3>1, <3>3 DEF LoopCalls, LoopBlock
      <4>2. /\ Held(t, t)' /\ at'[t] # "reading"
            /\ at'[t] \in {"test", "clear"} => result'[t] = "ConnectionError"
        <5>1. PICK tag \in Tags : tag = t
          BY <2>0
        <5> QED BY <1>1, <3>1, <3>2, <4>1, <5>1, FrameCall DEF Held, Speaks
      <4> QED BY <1>3, <3>3, <4>2 DEF LoopBlock
    <3>4. CASE loop[t] # "fetching"
      <4>1. Object(t) = "stop"
        BY <1>2, <2>0, <3>1, <3>4 DEF LoopCalls, Blocked, Ask, Object
      <4>2. Held(t, t)'
        BY <1>1, <3>2, <4>1, StopSame, SameHeld
      <4> QED BY <1>3, <3>4, <4>2 DEF LoopBlock
    <3> QED BY <3>3, <3>4
  <2> QED BY <2>1, <2>2
<1> QED BY <1>2, <1>4, <1>6, <1>7, <1>8, <1>9, PoolThreads DEF PoolInv

\* The simulator and other programs leave the threads where they are.
LEMMA ServerPool ==
  ASSUME PoolInv, (\E s \in Sockets : Serving(s)) \/ Stopped
  PROVE  PoolInv'
<1>1. UNCHANGED sardanaVars /\ ((\E s \in Sockets : ServerStep(s)) \/ ForeignStop)
  BY DEF Serving, Stopped
<1>2. UNCHANGED clientVars /\ SharedInv' /\ OwnInv'
  BY <1>1, ServerTouches, ServerShared, ServerOwn DEF PoolInv
<1>3. UNCHANGED <<at, call, waits, result, reader, crossed, loop, method, acq, failed>>
  BY <1>1, <1>2 DEF clientVars, sardanaVars, poolVars, loopVars
<1>4. PoolTypes' /\ PoolCalls' /\ Phases'
  BY <1>1, <1>3 DEF PoolInv, PoolTypes, PoolCalls, Phases, sardanaVars, poolVars, loopVars, Ask
<1>5. PoolBlock'
  <2>1. PICK tag : tag = acq
    OBVIOUS
  <2>2. Held(Pool, tag) => Held(Pool, tag)'
    BY <1>1, ServerHeld, PoolThreads DEF PoolInv
  <2> QED BY <1>3, <2>1, <2>2 DEF PoolInv, PoolBlock, Held, Speaks
<1>6. ASSUME NEW a \in Acqs PROVE LoopCalls(a)' /\ LoopBlock(a)'
  <2>1. Held(a, a) => Held(a, a)'
    BY <1>1, ServerHeld, PoolThreads DEF PoolInv
  <2> QED BY <1>3, <2>1, LoopApart DEF PoolInv
<1> QED BY <1>2, <1>4, <1>5, <1>6 DEF PoolInv

-----------------------------------------------------------------------------
(* The methods of the controller *)

\* Nothing of a thread changes in a step without a call.
LEMMA Quiet ==
  ASSUME PoolInv, UNCHANGED threadVars
  PROVE  /\ SharedInv' /\ OwnInv' /\ CtrlSame
         /\ UNCHANGED <<at, call, waits, result, reader, inside, crossed, request, replies, handler,
                        left, acquisition, foreign>>
  BY ThreadsStay, QuietSame DEF PoolInv, threadVars, clientVars, serverVars

\* A step of another thread leaves an acquisition's thread where it is.
LEMMA StepApart ==
  ASSUME PoolInv, NEW a \in Acqs, loop'[a] = loop[a], at'[a] = at[a], call'[a] = call[a],
         waits'[a] = waits[a], result'[a] = result[a], failed'[a] => failed[a],
         UNCHANGED <<reader, crossed>>, CtrlSame
  PROVE  LoopCalls(a)' /\ LoopBlock(a)'
  BY LoopApart, SameHeld, PoolThreads DEF PoolInv

\* The step in which the pool gives its block to the thread of the acquisition.
Hands == StartEnds /\ Good

\* The methods begin one of these calls, or none.
LEMMA PoolShape ==
  ASSUME PoolStep
  PROVE  \/ UNCHANGED threadVars
         \/ Begin(Pool, "ctrl", "COMMAND", Pool) \/ Begin(Pool, "stop", "STOP", Pool)
         \/ Begin(Pool, "stop", "RUN_STATUS", Pool)
         \/ StartOne
         \/ Hands
<1>1. CASE StartEnds
  BY <1>1 DEF StartEnds, Hands, threadVars, clientVars
<1> QED BY <1>1 DEF PoolStep, StateAll, PoolReturns, LoadOne, StateAlive, StateAsks, ReadOne, Collected,
     AbortOne, CtrlPar, LoadSends, LoadEnds, StateEnds, AbortEnds, ParSends, ParEnds

\* The block goes over with what is said in it.
LEMMA HandOver ==
  ASSUME PoolInv, Hands
  PROVE  /\ SharedInv' /\ OwnInv'
         /\ acq \in Acqs /\ loop[acq] = "ready" /\ at[acq] = "idle" /\ at[Pool] = "idle"
         /\ loop' = [loop EXCEPT ![acq] = "next"]
         /\ UNCHANGED <<sock, reader, local, waits, call, at, closes, result, crossed, mixed, serverVars>>
         /\ "ctrl" \notin crossed => /\ Held(acq, acq)'
                                     /\ \A a \in Acqs : "ctrl" \notin inside[a]
<1>1. /\ inside' = [inside EXCEPT ![Pool] = @ \ {"ctrl"}, ![acq] = @ \cup {"ctrl"}]
      /\ loop' = [loop EXCEPT ![acq] = "next"] /\ at[Pool] = "idle" /\ method = "StartOne" /\ acq' = acq
      /\ UNCHANGED <<sock, reader, local, waits, call, at, closes, result, crossed, mixed, serverVars>>
  BY DEF Hands, StartEnds, In, Idle
<1>2. acq \in Acqs /\ loop[acq] = "ready" /\ at[acq] = "idle"
  BY <1>1 DEF PoolInv, Phases, PoolTypes, LoopCalls
<1>3. inside \in [Threads -> SUBSET Objects] /\ {acq, Pool} \subseteq Threads /\ acq # Pool /\ "ctrl" \in Objects
  BY <1>2, PoolThreads DEF PoolInv, SharedInv, ThreadsTypeOK
<1>4. inside' \in [Threads -> SUBSET Objects]
  BY <1>1, <1>3
<1>5. SharedInv'
  BY <1>1, <1>4 DEF PoolInv, SharedInv, ThreadsTypeOK, Placed, Closing, Served, Object, serverVars
<1>6. \A u \in Threads \ {acq, Pool} : inside'[u] = inside[u]
  BY <1>1, <1>3
<1>7. "ctrl" \notin crossed => Held(Pool, acq) /\ \A a \in Acqs : "ctrl" \notin inside[a]
  <2>1. SUFFICES ASSUME "ctrl" \notin crossed
                 PROVE  Held(Pool, acq) /\ \A a \in Acqs : "ctrl" \notin inside[a]
    OBVIOUS
  <2>2. Held(Pool, acq)
    BY <1>1, <2>1 DEF PoolInv, PoolBlock
  <2> QED BY <1>3, <2>1, <2>2, PoolThreads DEF Held, PoolInv, OwnInv, Solo
<1>8. OwnInv'
  <2>1. Solo'
    <3>1. SUFFICES ASSUME NEW o \in Objects \ crossed, NEW t \in Threads, NEW u \in Threads,
                          o \in inside'[t], o \in inside'[u]
                   PROVE  t = u
      BY <1>1 DEF Solo
    <3>2. CASE o = "ctrl"
      BY <1>1, <1>3, <1>6, <1>7, <3>1, <3>2, PoolThreads
    <3>3. CASE o # "ctrl"
      <4>1. o \in inside[t] /\ o \in inside[u]
        BY <1>1, <1>3, <1>6, <3>1, <3>3
      <4> QED BY <3>1, <4>1 DEF PoolInv, OwnInv, Solo
    <3> QED BY <3>2, <3>3
  <2>2. ASSUME NEW u \in Threads, at[u] # "idle", Object(u) \notin crossed PROVE Own(u)'
    <3>1. Own(u) /\ inside'[u] = inside[u]
      BY <1>1, <1>2, <1>6, <2>2 DEF PoolInv, OwnInv
    <3> QED BY <1>1, <3>1 DEF Own, Object, Fresh, Speaks, Answering, serverVars
  <2> QED BY <1>1, <2>1, <2>2 DEF PoolInv, OwnInv, Object
<1>9. "ctrl" \notin crossed => Held(acq, acq)'
  BY <1>1, <1>3, <1>7 DEF Held, Speaks, serverVars
<1> QED BY <1>1, <1>2, <1>5, <1>7, <1>8, <1>9

\* A call that the pool begins.
LEMMA PoolAsks ==
  ASSUME PoolInv, NEW o \in Objects, NEW c \in {"COMMAND", "STOP", "RUN_STATUS", "START"},
         NEW tag \in Tags, Begin(Pool, o, c, tag)
  PROVE  /\ SharedInv' /\ OwnInv' /\ CtrlSame
         /\ at'[Pool] = "connect" /\ call'[Pool] = Ask(o, c, tag) /\ result'[Pool] = "none"
         /\ at[Pool] = "idle"
         /\ \A a \in Acqs : /\ at'[a] = at[a] /\ call'[a] = call[a]
                            /\ waits'[a] = waits[a] /\ result'[a] = result[a]
         /\ UNCHANGED <<sock, reader, inside, crossed, request, replies, handler, left, acquisition,
                        foreign>>
<1>1. Pool \in Threads /\ c \in Commands /\ \A a \in Acqs : a \in Threads \ {Pool}
  BY PoolThreads
<1>2. c # "FRAME" /\ c # "CLOSE"
  OBVIOUS
<1> QED BY <1>1, <1>2, BeginEffect DEF PoolInv

\* What a step of the pool leaves alone.
LEMMA PoolLeavesBe ==
  ASSUME PoolInv, PoolStep, ~Hands
  PROVE  /\ SharedInv' /\ OwnInv' /\ CtrlSame
         /\ \A a \in Acqs : /\ at'[a] = at[a] /\ call'[a] = call[a]
                            /\ waits'[a] = waits[a] /\ result'[a] = result[a]
         /\ UNCHANGED <<reader, inside, crossed, request, replies, handler, left, acquisition, foreign>>
         /\ at'[Pool] = "idle" => UNCHANGED threadVars /\ result'[Pool] = result[Pool]
         /\ at[Pool] = "idle" /\ at'[Pool] \in {"idle", "connect"}
<1>0. Pool \in Tags /\ {"ctrl", "stop"} = Objects
  BY PoolThreads
<1>1. at[Pool] = "idle"
  BY DEF PoolStep, StateAll, PoolReturns, LoadOne, StartOne, StateAlive, StateAsks, ReadOne, Collected,
     AbortOne, CtrlPar, LoadSends, LoadEnds, StartEnds, StateEnds, AbortEnds, ParSends, ParEnds, Free, In, Idle
<1>2. CASE UNCHANGED threadVars
  BY <1>1, <1>2, Quiet
<1>3. CASE StartOne
  <2>1. acq \in Tags /\ Begin(Pool, "ctrl", "START", acq)
    BY <1>3, PoolThreads DEF StartOne, Free, PoolInv, Phases, PoolTypes
  <2> QED BY <1>0, <1>1, <2>1, PoolAsks
<1> QED BY <1>0, <1>1, <1>2, <1>3, PoolShape, PoolAsks

\* A method keeps the types and where the pool is with its acquisition.
LEMMA PoolMoves ==
  ASSUME PoolInv, PoolStep
  PROVE  /\ PoolTypes' /\ Phases'
         /\ \A a \in Acqs : failed'[a] => failed[a]
         /\ \A a \in Acqs : \/ loop'[a] = loop[a]
                            \/ loop[a] \in {"absent", "bare"} /\ loop'[a] \in {"bare", "ready"}
                            \/ a = acq /\ Hands
<1>0. PoolTypes /\ Phases /\ None \notin Acqs
  BY PoolThreads DEF PoolInv
<1> USE DEF PoolTypes, Phases, Methods, Loops, Free, In, Raises
<1>1. CASE LoadOne
  <2>1. PICK n \in Nat : n = spent["loads"]
    BY <1>0
  <2>2. /\ n + 1 \in Acqs /\ spent' = [spent EXCEPT !["loads"] = n + 1] /\ acq' = n + 1
        /\ loop' = [loop EXCEPT ![n + 1] = "bare"] /\ method' = "LoadOne" /\ todo' = 4
        /\ method = "none" /\ phase = "free"
        /\ UNCHANGED <<phase, reported, read, told, raised, stopping, queued, failed>>
    BY <1>0, <1>1, <2>1, PoolThreads DEF LoadOne, Spend, Acqs
  <2>3. loop[n + 1] = "absent"
    BY <1>0, <2>1, <2>2 DEF Acqs
  <2>4. PoolTypes'
    BY <1>0, <2>2
  <2>5. \A a \in Acqs : a > n + 1 => loop'[a] = "absent"
    BY <1>0, <2>1, <2>2 DEF Acqs
  <2>6. Phases'
    BY <1>0, <2>1, <2>2, <2>5
  <2> QED BY <1>0, <2>2, <2>3, <2>4, <2>6
<1>2. CASE LoadSends
  BY <1>0, <1>2 DEF LoadSends, loopVars
<1>3. CASE LoadEnds
  <2>1. /\ acq \in Acqs /\ loop[acq] = "bare" /\ phase = "free" /\ acq' = acq /\ method' = "none"
        /\ \/ loop' = [loop EXCEPT ![acq] = "ready"] /\ phase' = "loaded" /\ raised' = raised
           \/ loop' = loop /\ phase' = "broken" /\ raised' = raised \cup {"LoadOne"}
        /\ todo' = 0 /\ UNCHANGED <<reported, read, told, spent, stopping, queued, failed>>
    BY <1>0, <1>3 DEF LoadEnds, Good
  <2>2. raised' \subseteq Methods \cup {"ReadOne"}
    <3>1. raised' \in {raised, raised \cup {"LoadOne"}} /\ "LoadOne" \in Methods
      BY <2>1
    <3> QED BY <1>0, <3>1
  <2>3. loop' \in [Acqs -> Loops]
    <3>1. loop' = [loop EXCEPT ![acq] = "ready"] \/ loop' = loop
      BY <2>1
    <3> QED BY <1>0, <3>1
  <2>4. PoolTypes'
    BY <1>0, <2>1, <2>2, <2>3
  <2>5. Phases'
    BY <1>0, <2>1
  <2> QED BY <1>0, <2>1, <2>4, <2>5
<1>4. CASE StartOne
  BY <1>0, <1>4 DEF StartOne, loopVars
<1>5. CASE StartEnds
  BY <1>0, <1>5 DEF StartEnds, Hands
<1>6. CASE StateAlive
  BY <1>0, <1>6 DEF StateAlive, Alive, loopVars
<1>7. CASE StateAsks
  BY <1>0, <1>7 DEF StateAsks, Alive, loopVars
<1>8. CASE StateEnds
  BY <1>0, <1>8 DEF StateEnds, loopVars
<1>9. CASE ReadOne
  <2>0. CASE acq = None
    <3>1. UNCHANGED <<read, queued, failed, told>> /\ raised' = raised \cup {"ReadOne"}
      BY <1>9, <2>0 DEF ReadOne
    <3>2. raised' \subseteq Methods \cup {"ReadOne"}
      BY <1>0, <3>1
    <3> QED BY <1>0, <1>9, <3>1, <3>2 DEF ReadOne
  <2> SUFFICES ASSUME acq # None PROVE /\ PoolTypes' /\ Phases'
                                       /\ \A a \in Acqs : failed'[a] => failed[a]
                                       /\ \A a \in Acqs : loop'[a] = loop[a]
    BY <2>0
  <2>1. PICK a \in Acqs : a = acq
    BY <1>0
  <2>2. queued[a] \in Nat /\ read[a] \in Nat /\ (queued[a] > 0 => queued[a] - 1 \in Nat)
    BY <1>0
  <2>3. read' \in [Acqs -> Nat] /\ queued' \in [Acqs -> Nat]
    BY <1>0, <1>9, <2>1, <2>2 DEF ReadOne
  <2>4. failed' \in [Acqs -> BOOLEAN] /\ told' \in [Acqs -> BOOLEAN] /\ raised' \subseteq Methods \cup {"ReadOne"}
        /\ \A b \in Acqs : failed'[b] => failed[b]
    BY <1>0, <1>9, <2>1 DEF ReadOne
  <2>5. UNCHANGED <<acq, method, todo, phase, reported, spent, loop, stopping>>
    BY <1>9 DEF ReadOne
  <2> QED BY <1>0, <2>3, <2>4, <2>5
<1>10. CASE Collected
  BY <1>0, <1>10 DEF Collected, loopVars
<1>11. CASE AbortOne
  <2>1. spent' \in [{"loads", "aborts", "pars"} -> Nat] /\ spent'["loads"] = spent["loads"]
    BY <1>0, <1>11 DEF AbortOne, Spend
  <2> QED BY <1>0, <1>11, <2>1 DEF AbortOne
<1>12. CASE AbortEnds
  BY <1>0, <1>12 DEF AbortEnds, loopVars
<1>13. CASE CtrlPar
  <2>1. spent' \in [{"loads", "aborts", "pars"} -> Nat] /\ spent'["loads"] = spent["loads"]
    BY <1>0, <1>13 DEF CtrlPar, Spend
  <2> QED BY <1>0, <1>13, <2>1 DEF CtrlPar, loopVars
<1>14. CASE ParSends \/ ParEnds
  <2>1. /\ UNCHANGED <<acq, phase, reported, read, told, spent, loopVars>> /\ todo' \in 0..4
        /\ method = "CtrlPar" /\ method' \in {"CtrlPar", "none"}
        /\ raised' \in {raised, raised \cup {"CtrlPar"}}
    BY <1>0, <1>14 DEF ParSends, ParEnds
  <2>2. raised' \subseteq Methods \cup {"ReadOne"}
    BY <1>0, <2>1
  <2> QED BY <1>0, <2>1, <2>2 DEF loopVars
<1> QED BY <1>1, <1>2, <1>3, <1>4, <1>5, <1>6, <1>7, <1>8, <1>9, <1>10, <1>11, <1>12, <1>13, <1>14
     DEF PoolStep, StateAll, PoolReturns

\* A method that starts an acquisition is in its call.
LEMMA PoolStarts ==
  ASSUME PoolInv, PoolStep, ~Hands
  PROVE  method' = "StartOne" => at'[Pool] # "idle"
<1>1. SUFFICES ASSUME method' = "StartOne", at'[Pool] = "idle" PROVE FALSE
  OBVIOUS
<1>2. ASSUME NEW o, NEW c, NEW tag, Begin(Pool, o, c, tag), c # "CLOSE" PROVE FALSE
  BY <1>1, <1>2, PoolThreads DEF Begin, Goes, PoolInv, SharedInv, ThreadsTypeOK
<1> QED BY <1>1, <1>2 DEF PoolStep, StateAll, PoolReturns, LoadOne, StartOne, StateAlive, StateAsks,
     ReadOne, Collected, AbortOne, CtrlPar, LoadSends, LoadEnds, StartEnds, StateEnds, AbortEnds,
     ParSends, ParEnds, Free, In, Raises, Hands

\* A step of the pool.
LEMMA StepPool ==
  ASSUME PoolInv, PoolStep
  PROVE  PoolInv'
<1>0. /\ Pool \in Tags /\ {"ctrl", "stop"} = Objects /\ PoolCalls /\ Phases /\ acq \in Acqs \cup {None}
      /\ None \notin Acqs /\ PoolBlock
  BY PoolThreads DEF PoolInv, PoolTypes
<1>1. CASE Hands
  <2>1. /\ acq \in Acqs /\ at' = at /\ call' = call /\ waits' = waits /\ result' = result
        /\ method' = "none" /\ at[Pool] = "idle" /\ UNCHANGED <<reader, crossed>>
        /\ loop' = [loop EXCEPT ![acq] = "next"] /\ loop[acq] = "ready" /\ at[acq] = "idle"
        /\ UNCHANGED serverVars /\ failed' = failed /\ acq' = acq /\ method = "StartOne"
    BY <1>1, HandOver DEF Hands, StartEnds, In
  <2>2. PoolCalls' /\ PoolBlock'
    BY <2>1 DEF PoolCalls, PoolBlock
  <2>3. ASSUME NEW a \in Acqs, a # acq PROVE LoopCalls(a)' /\ LoopBlock(a)'
    <3>1. loop'[a] = loop[a] /\ LoopCalls(a) /\ LoopBlock(a)
      BY <2>1, <2>3 DEF PoolInv, PoolTypes
    <3>2. "ctrl" \notin crossed => ~Held(a, a)
      BY <1>1, HandOver DEF Held
    <3> QED BY <2>1, <3>1, <3>2 DEF LoopCalls, LoopBlock, Blocked
  <2>4. PICK b \in Acqs : b = acq
    BY <2>1
  <2>5. LoopCalls(b)' /\ LoopBlock(b)'
    <3>1. loop'[b] = "next" /\ at'[b] = "idle" /\ ~failed'[b]
      BY <2>1, <2>4 DEF PoolInv, PoolTypes, LoopCalls
    <3>2. reader'["ctrl"] # None
      BY <1>0, <2>1 DEF PoolCalls
    <3>3. "ctrl" \notin crossed' => Held(b, b)'
      BY <1>1, <2>1, <2>4, HandOver DEF Held, Speaks
    <3> QED BY <3>1, <3>2, <3>3 DEF LoopCalls, LoopBlock
  <2> QED BY <1>1, <2>2, <2>3, <2>4, <2>5, PoolMoves, HandOver DEF PoolInv
<1>2. CASE ~Hands
  <2>1. PoolCalls' /\ PoolBlock'
    <3>1. CASE at'[Pool] = "idle"
      <4>1. /\ UNCHANGED threadVars /\ result'[Pool] = result[Pool] /\ UNCHANGED reader
            /\ at[Pool] = "idle"
        BY <1>2, <3>1, PoolLeavesBe
      <4>2. method' # "StartOne"
        BY <1>2, <3>1, PoolStarts
      <4> QED BY <3>1, <4>2 DEF PoolCalls, PoolBlock
    <3>2. CASE at'[Pool] # "idle"
      <4>1. at'[Pool] = "connect"
        BY <1>2, <3>2, PoolLeavesBe
      <4>2. ~UNCHANGED threadVars
        <5>1. at[Pool] = "idle"
          BY <1>2, PoolLeavesBe
        <5> QED BY <3>2, <5>1 DEF threadVars, clientVars
      <4>3. CASE LoadSends \/ CtrlPar \/ (ParSends /\ todo = 1)
        <5>1. Begin(Pool, "ctrl", "COMMAND", Pool) /\ method' \in {"LoadOne", "CtrlPar"}
          BY <4>3 DEF LoadSends, CtrlPar, ParSends, In
        <5>2. call'[Pool] = Ask("ctrl", "COMMAND", Pool)
          BY <1>0, <5>1, PoolAsks
        <5> QED BY <4>1, <5>1, <5>2 DEF PoolCalls, PoolBlock
      <4>4. CASE StartOne
        <5>1. /\ Begin(Pool, "ctrl", "START", acq) /\ method' = "StartOne" /\ acq' = acq /\ acq \in Tags
          BY <1>0, <4>4, PoolThreads DEF StartOne, Phases
        <5>2. call'[Pool] = Ask("ctrl", "START", acq)
          BY <1>0, <5>1, PoolAsks
        <5> QED BY <4>1, <5>1, <5>2 DEF PoolCalls, PoolBlock, Ask
      <4>5. CASE StateAsks \/ (ParSends /\ todo = 2)
        <5>1. Begin(Pool, "stop", "RUN_STATUS", Pool) /\ method' \in {"StateAll", "CtrlPar"}
          BY <4>5 DEF StateAsks, ParSends, In
        <5>2. call'[Pool] = Ask("stop", "RUN_STATUS", Pool)
          BY <1>0, <5>1, PoolAsks
        <5> QED BY <4>1, <5>1, <5>2 DEF PoolCalls, PoolBlock
      <4>6. CASE AbortOne
        <5>1. Begin(Pool, "stop", "STOP", Pool) /\ method' = "AbortOne"
          BY <4>6 DEF AbortOne
        <5>2. call'[Pool] = Ask("stop", "STOP", Pool)
          BY <1>0, <5>1, PoolAsks
        <5> QED BY <4>1, <5>1, <5>2 DEF PoolCalls, PoolBlock
      <4> QED BY <1>2, <4>2, <4>3, <4>4, <4>5, <4>6 DEF PoolStep, StateAll, PoolReturns, LoadOne, StateAlive,
            ReadOne, Collected, LoadEnds, StartEnds, StateEnds, AbortEnds, ParSends, ParEnds, Hands,
            threadVars, clientVars
    <3> QED BY <3>1, <3>2
  <2>2. ASSUME NEW a \in Acqs PROVE LoopCalls(a)' /\ LoopBlock(a)'
    <3>1. CASE loop'[a] = loop[a]
      BY <1>2, <3>1, PoolLeavesBe, PoolMoves, StepApart
    <3>2. CASE loop'[a] # loop[a]
      <4>1. loop[a] \in {"absent", "bare"} /\ loop'[a] \in {"bare", "ready"} /\ (failed'[a] => failed[a])
        BY <1>2, <3>2, PoolMoves
      <4>2. at'[a] = "idle" /\ ~failed'[a]
        BY <1>2, <4>1, PoolLeavesBe DEF PoolInv, LoopCalls
      <4> QED BY <4>1, <4>2 DEF LoopCalls, LoopBlock, Blocked
    <3> QED BY <3>1, <3>2
  <2> QED BY <1>2, <2>1, <2>2, PoolMoves, PoolLeavesBe DEF PoolInv
<1> QED BY <1>1, <1>2

-----------------------------------------------------------------------------
(* The threads of the acquisitions *)

\* The thread of an acquisition begins a call, in its block where it has to be in one.
LEMMA LoopAsks ==
  ASSUME PoolInv, NEW a \in Acqs, NEW o \in Objects, NEW c \in Commands, Begin(a, o, c, a),
         c = "FRAME" => o = "ctrl" /\ loop[a] = "next",
         c = "CLOSE" => o = "ctrl" /\ loop[a] \in {"finished", "raising", "hiding"}
  PROVE  /\ SharedInv' /\ OwnInv' /\ CtrlSame
         /\ at[a] = "idle" /\ call'[a] = Ask(o, c, a) /\ result'[a] = "none"
         /\ at'[a] = IF c = "FRAME" THEN "reading" ELSE IF c = "CLOSE" THEN "test" ELSE "connect"
         /\ c = "FRAME" => waits'[a] = reader[o] /\ reader[o] # None
         /\ \A u \in Threads \ {a} : /\ at'[u] = at[u] /\ call'[u] = call[u]
                                     /\ waits'[u] = waits[u] /\ result'[u] = result[u]
         /\ "ctrl" \notin crossed /\ Held(a, a) => Held(a, a)'
         /\ UNCHANGED <<sock, reader, inside, crossed, request, replies, handler, left, acquisition,
                        foreign>>
<1>1. LoopCalls(a) /\ LoopBlock(a) /\ SharedInv /\ OwnInv
  BY DEF PoolInv
<1>2. PICK tag \in Tags : tag = a
  BY PoolThreads
<1>3. a \in Threads /\ Begin(a, o, c, tag)
  BY <1>2, PoolThreads
<1>4. c = "FRAME" => reader[o] \in Sides(o) /\ reader[o] # None
  BY <1>1, PoolThreads DEF LoopCalls, SharedInv, Placed
<1>5. "ctrl" \notin crossed /\ c \in {"FRAME", "CLOSE"} => o = "ctrl" /\ Held(a, tag)
  BY <1>1, <1>2 DEF LoopBlock, Blocked
<1>6. /\ SharedInv' /\ OwnInv' /\ CtrlSame
      /\ at[a] = "idle" /\ call'[a] = Ask(o, c, tag) /\ result'[a] = "none"
      /\ at'[a] = IF c = "FRAME" THEN "reading" ELSE IF c = "CLOSE" THEN "test" ELSE "connect"
      /\ c = "FRAME" => waits'[a] = reader[o]
      /\ \A u \in Threads \ {a} : /\ at'[u] = at[u] /\ call'[u] = call[u]
                                  /\ waits'[u] = waits[u] /\ result'[u] = result[u]
      /\ UNCHANGED <<sock, reader, inside, crossed, request, replies, handler, left, acquisition, foreign>>
  BY <1>1, <1>3, <1>4, <1>5, BeginEffect DEF Held
<1>7. Held(a, tag) => Held(a, tag)'
  BY <1>3, <1>6, SameHeld
<1>8. "ctrl" \notin crossed /\ Held(a, a) => Held(a, a)'
  BY <1>2, <1>7 DEF Held, Speaks
<1> QED BY <1>1, <1>2, <1>4, <1>6, <1>8

\* A step of an acquisition's thread: where it goes, and the call that it begins.
LEMMA LoopMoves ==
  ASSUME PoolInv, NEW a \in Acqs, LoopStep(a)
  PROVE  /\ at[a] = "idle" /\ loop[a] \notin {"absent", "bare", "ready", "over"}
         /\ \E there \in Loops \ {"absent", "bare", "ready"} : loop' = [loop EXCEPT ![a] = there]
         /\ UNCHANGED <<poolVars, stopping>> /\ PoolTypes'
         /\ \A b \in Acqs \ {a} : failed'[b] = failed[b] /\ queued'[b] = queued[b]
         /\ failed'[a] => failed[a] \/ loop'[a] = "over"
         /\ \/ LoopFetched(a) \/ LoopEnds(a)
            \/ loop[a] = "next" /\ loop'[a] = "fetching" /\ Begin(a, "ctrl", "FRAME", a)
            \/ /\ loop[a] \in {"finished", "raising", "hiding"}
               /\ loop'[a] \in {"closing", "SLSError", "Exception"}
               /\ Begin(a, "ctrl", "CLOSE", a)
            \/ /\ loop[a] \in {"failed", "hidden"} /\ loop'[a] \in {"raising", "hiding"}
               /\ Begin(a, "stop", "STOP", a)
<1> USE DEF PoolInv, PoolTypes, Loops, At, Idle, OnlyLoop, poolVars
<1>1. CASE LoopFetches(a)
  BY <1>1 DEF LoopFetches
<1>2. CASE LoopFetched(a)
  <2>1. PICK there \in {"next", "finished", "hidden", "failed"} : loop' = [loop EXCEPT ![a] = there]
    BY <1>2 DEF LoopFetched
  <2>2. queued' \in [Acqs -> Nat] /\ \A b \in Acqs \ {a} : queued'[b] = queued[b]
    BY <1>2 DEF LoopFetched
  <2> QED BY <1>2, <2>1, <2>2 DEF LoopFetched
<1>3. CASE LoopFinishes(a)
  BY <1>3 DEF LoopFinishes
<1>4. CASE LoopStops(a)
  BY <1>4 DEF LoopStops
<1>5. CASE LoopLeaves(a)
  BY <1>5 DEF LoopLeaves
<1>6. CASE LoopEnds(a)
  <2>1. ErrorQueued(a) \in BOOLEAN
    BY DEF ErrorQueued
  <2> QED BY ZenonT(60), <1>6, <2>1 DEF LoopEnds
<1> QED BY <1>1, <1>2, <1>3, <1>4, <1>5, <1>6 DEF LoopStep

\* What it leaves alone.
LEMMA LoopLeavesBe ==
  ASSUME PoolInv, NEW a \in Acqs, LoopStep(a)
  PROVE  /\ SharedInv' /\ OwnInv' /\ CtrlSame
         /\ \A u \in Threads \ {a} : /\ at'[u] = at[u] /\ call'[u] = call[u]
                                     /\ waits'[u] = waits[u] /\ result'[u] = result[u]
         /\ UNCHANGED <<reader, inside, crossed, request, replies, handler, left, acquisition, foreign>>
         /\ LoopFetched(a) \/ LoopEnds(a) => at'[a] = at[a] /\ result'[a] = result[a]
<1>1. /\ a \in Threads /\ {"ctrl", "stop"} = Objects
      /\ {"FRAME", "CLOSE", "STOP"} \subseteq Commands
  BY PoolThreads
<1>2. CASE LoopFetched(a) \/ LoopEnds(a)
  BY <1>2, Quiet DEF LoopFetched, LoopEnds
<1>3. CASE ~(LoopFetched(a) \/ LoopEnds(a))
  BY <1>1, <1>3, LoopMoves, LoopAsks
<1> QED BY <1>2, <1>3

\* A step of an acquisition's thread.
LEMMA LoopPool ==
  ASSUME PoolInv, NEW a \in Acqs, LoopStep(a)
  PROVE  PoolInv'
<1>0. /\ a \in Threads /\ Pool # a /\ Pool \in Threads /\ {"ctrl", "stop"} = Objects
      /\ {"FRAME", "CLOSE", "STOP"} \subseteq Commands
      /\ LoopCalls(a) /\ LoopBlock(a) /\ None \notin Acqs /\ loop \in [Acqs -> Loops]
  BY PoolThreads DEF PoolInv, PoolTypes
<1>1. /\ \E there \in Loops \ {"absent", "bare", "ready"} : loop' = [loop EXCEPT ![a] = there]
      /\ loop[a] \notin {"absent", "bare", "ready", "over"} /\ at[a] = "idle" /\ PoolTypes'
      /\ UNCHANGED <<acq, method, phase, reported, spent>>
  BY LoopMoves DEF poolVars
<1>2. /\ SharedInv' /\ OwnInv' /\ CtrlSame /\ UNCHANGED <<reader, crossed>>
      /\ \A u \in Threads \ {a} : /\ at'[u] = at[u] /\ call'[u] = call[u]
                                  /\ waits'[u] = waits[u] /\ result'[u] = result[u]
  BY LoopLeavesBe
<1>3. PoolCalls' /\ Phases'
  BY <1>0, <1>1, <1>2 DEF PoolInv, PoolCalls, Phases, Ask
<1>4. PoolBlock'
  <2>1. PICK tag : tag = acq
    OBVIOUS
  <2>2. Held(Pool, tag) => Held(Pool, tag)'
    BY <1>0, <1>2, SameHeld
  <2> QED BY <1>0, <1>1, <1>2, <2>1, <2>2 DEF PoolInv, PoolBlock, Held, Speaks
<1>5. ASSUME NEW b \in Acqs \ {a} PROVE LoopCalls(b)' /\ LoopBlock(b)'
  <2>1. loop'[b] = loop[b] /\ b \in Threads \ {a} /\ failed'[b] = failed[b]
    BY <1>0, <1>1, LoopMoves, PoolThreads
  <2> QED BY <1>2, <2>1, StepApart
<1>6. LoopCalls(a)' /\ LoopBlock(a)'
  <2>0. /\ reader'["ctrl"] # None
        /\ failed'[a] => loop'[a] = "over"
    BY <1>0, <1>1, <1>2, LoopMoves DEF LoopCalls
  <2>1. CASE LoopFetched(a) \/ LoopEnds(a)
    <3>1. at'[a] = "idle" /\ (Held(a, a) => Held(a, a)')
      BY <1>0, <1>1, <1>2, <2>1, LoopLeavesBe, SameHeld
    <3>2. Blocked(a)' => Blocked(a)
      BY <1>0, <1>1, <2>1 DEF LoopFetched, LoopEnds, At, Blocked
    <3> QED BY <1>0, <1>2, <2>0, <3>1, <3>2 DEF LoopCalls, LoopBlock
  <2>2. CASE loop[a] = "next" /\ loop'[a] = "fetching" /\ Begin(a, "ctrl", "FRAME", a)
    <3>1. /\ at'[a] = "reading" /\ call'[a] = Ask("ctrl", "FRAME", a)
          /\ waits'[a] = reader["ctrl"] /\ ("ctrl" \notin crossed /\ Held(a, a) => Held(a, a)')
      BY <1>0, <2>2, LoopAsks
    <3> QED BY <1>0, <1>2, <2>0, <2>2, <3>1 DEF LoopCalls, LoopBlock, Blocked
  <2>3. CASE /\ loop[a] \in {"finished", "raising", "hiding"}
             /\ loop'[a] \in {"closing", "SLSError", "Exception"}
             /\ Begin(a, "ctrl", "CLOSE", a)
    <3>1. at'[a] = "test" /\ call'[a] = Ask("ctrl", "CLOSE", a)
      BY <1>0, <2>3, LoopAsks
    <3> QED BY <2>0, <2>3, <3>1 DEF LoopCalls, LoopBlock, Blocked
  <2>4. CASE /\ loop[a] \in {"failed", "hidden"} /\ loop'[a] \in {"raising", "hiding"}
             /\ Begin(a, "stop", "STOP", a)
    <3>1. /\ at'[a] = "connect" /\ call'[a] = Ask("stop", "STOP", a)
          /\ "ctrl" \notin crossed /\ Held(a, a) => Held(a, a)'
      BY <1>0, <2>4, LoopAsks
    <3> QED BY <1>0, <1>2, <2>0, <2>4, <3>1 DEF LoopCalls, LoopBlock, Blocked
  <2> QED BY <2>1, <2>2, <2>3, <2>4, LoopMoves
<1> QED BY <1>1, <1>2, <1>3, <1>4, <1>5, <1>6 DEF PoolInv

\* Every step keeps it.
LEMMA PoolNext == PoolInv /\ [SardanaNext]_systemVars => PoolInv'
<1> SUFFICES ASSUME PoolInv, [SardanaNext]_systemVars PROVE PoolInv'
  OBVIOUS
<1>1. CASE UNCHANGED systemVars
  <2>1. UNCHANGED threadVars /\ UNCHANGED <<poolVars, loopVars>>
    BY <1>1 DEF systemVars, sardanaVars
  <2>2. \A a \in Acqs : LoopCalls(a)' /\ LoopBlock(a)'
    BY <2>1, Quiet, StepApart DEF loopVars
  <2>3. PoolTypes' /\ PoolCalls' /\ Phases'
    BY <2>1, Quiet DEF PoolInv, PoolTypes, PoolCalls, Phases, poolVars, loopVars, Ask
  <2>4. PoolBlock'
    BY <2>1, Quiet DEF PoolInv, PoolBlock, Held, Speaks, poolVars
  <2> QED BY <2>1, <2>2, <2>3, <2>4, Quiet DEF PoolInv
<1> QED BY <1>1, StepPool, LoopPool, CallPool, ServerPool DEF SardanaNext

-----------------------------------------------------------------------------
(* The frames of an acquisition *)

\* A thread that frames may still come to is in its block.
LEMMA FlowingHeld ==
  ASSUME PoolInv, "ctrl" \notin crossed, NEW a \in Acqs, Flowing(a)
  PROVE  Held(a, a) /\ reader["ctrl"] \in Sides("ctrl") /\ "ctrl" \in inside[a]
  BY DEF PoolInv, LoopBlock, Flowing, Blocked, Held

\* An acquisition keeps its frames where nothing happens to it and its stream.
LEMMA SameDelivers ==
  ASSUME PoolInv, NEW a \in Acqs, Delivers(a),
         loop'[a] = loop[a], at'[a] = at[a], result'[a] = result[a],
         Kept(a)' = Kept(a), reader'["ctrl"] = reader["ctrl"],
         failed[a] \/ told[a] \/ stopping[a] => failed'[a] \/ told'[a] \/ stopping'[a],
         Flowing(a) => \A got \in Nat : FlowOf(reader["ctrl"], got) => FlowOf(reader["ctrl"], got)'
  PROVE  Delivers(a)'
<1>1. (Flowing(a)' <=> Flowing(a)) /\ Got(a)' = Got(a)
  BY DEF Flowing, Got
<1>2. ASSUME Flowing(a) PROVE FlowOf(reader["ctrl"], Got(a))'
  <2>1. PICK got \in Nat : got = Got(a)
    BY DEF Got, Kept, PoolInv, PoolTypes
  <2>2. FlowOf(reader["ctrl"], got)'
    BY <1>2, <2>1 DEF Delivers
  <2> QED BY <1>1, <2>1, <2>2 DEF FlowOf
<1> QED BY <1>1, <1>2 DEF Delivers

\* The simulator produces what was asked for, and other programs only stop it.
LEMMA ServerDelivered ==
  ASSUME PoolInv, Delivered, (\E s \in Sockets : Serving(s)) \/ Stopped
  PROVE  Delivered'
<1>1. UNCHANGED sardanaVars /\ ((\E s \in Sockets : ServerStep(s)) \/ ForeignStop)
  BY DEF Serving, Stopped
<1>2. UNCHANGED clientVars
  BY <1>1, ServerTouches DEF PoolInv
<1>3. UNCHANGED <<at, result, reader, inside, crossed, loop, method, acq, read, queued, failed, told, stopping>>
  BY <1>1, <1>2 DEF clientVars, sardanaVars, poolVars, loopVars
<1>4. SUFFICES ASSUME "ctrl" \notin crossed
               PROVE  /\ \A a \in Acqs : Delivers(a)'
                      /\ method = "StartOne" /\ at[Pool] = "idle" => FlowOf(reader["ctrl"], 0)'
  BY <1>3 DEF Delivered
<1>5. reader["ctrl"] \in Sides("ctrl")
        => \A got \in Nat : FlowOf(reader["ctrl"], got) => FlowOf(reader["ctrl"], got)'
  BY <1>1, ServerFlow DEF PoolInv
<1>6. ASSUME NEW a \in Acqs PROVE Delivers(a)'
  <2>1. Kept(a)' = Kept(a) /\ Delivers(a)
    BY <1>3, <1>4 DEF Kept, Delivered
  <2> QED BY <1>3, <1>4, <1>5, <2>1, FlowingHeld, SameDelivers
<1>7. method = "StartOne" /\ at[Pool] = "idle" => FlowOf(reader["ctrl"], 0)'
  BY <1>4, <1>5 DEF Delivered, PoolInv, PoolBlock, Held
<1> QED BY <1>6, <1>7

\* A message that a thread takes is the next frame of its acquisition.
LEMMA FrameDelivered ==
  ASSUME PoolInv, "ctrl" \notin crossed', NEW a \in Acqs, Delivers(a), Calling(a), loop[a] = "fetching"
  PROVE  Delivers(a)'
<1>1. /\ CallStep(a) /\ a \in Threads /\ SharedInv /\ OwnInv /\ at[a] # "idle"
      /\ LoopCalls(a) /\ LoopBlock(a) /\ "ctrl" \notin crossed
  BY PoolThreads, CallEffect DEF Calling, PoolInv
<1>2. UNCHANGED <<loop, read, queued, failed, told, stopping>>
  BY DEF Calling, sardanaVars, poolVars, loopVars
<1>3. PICK tag \in Tags : tag = a
  BY <1>1, PoolThreads
<1>4. /\ call[a] = Ask("ctrl", "FRAME", tag) /\ Held(a, tag)
      /\ at[a] = "reading" => waits[a] = reader["ctrl"]
      /\ at[a] \in {"test", "clear"} => result[a] = "ConnectionError"
  BY <1>1, <1>3 DEF LoopCalls, LoopBlock, Blocked
<1>5. PICK s \in Sockets : s = reader["ctrl"]
  BY <1>4, PoolThreads DEF Held
<1>6. PICK got \in Nat : got = Kept(a)
  BY DEF Kept, PoolInv, PoolTypes
<1>7. CASE /\ at[a] = "reading" /\ at'[a] = "idle"
           /\ replies[s] # <<>> /\ replies'[s] = Tail(replies[s])
           /\ UNCHANGED <<request, handler, left>>
           /\ result'[a] = Head(replies[s]).what
           /\ reader'["ctrl"] = s
  <2>1. FlowOf(s, got)
    BY <1>1, <1>5, <1>6, <1>7 DEF Delivers, Flowing, Got
  <2>2. /\ FlowOf(s, got + 1)'
        /\ result'[a] = "frame" => got + 1 < Frames
        /\ result'[a] = "last" => got + 1 = Frames
    BY <1>1, <1>7, <2>1, FlowTaken
  <2>3. Got(a)' = got + 1 /\ Kept(a)' = got
    BY <1>2, <1>6, <1>7 DEF Got, Kept
  <2>4. FlowOf(reader["ctrl"], Got(a))'
    BY <1>7, <2>2, <2>3 DEF FlowOf
  <2> QED BY <1>2, <1>6, <1>7, <2>2, <2>3, <2>4, PoolThreads DEF Delivers
<1>8. CASE at'[a] \in {"test", "clear", "idle"} /\ result'[a] = "ConnectionError"
  <2>1. ~Flowing(a)' /\ Kept(a)' = Kept(a)
    BY <1>2, <1>8 DEF Flowing, Kept
  <2> QED BY <1>2, <1>8, <2>1 DEF Delivers
<1> QED BY <1>1, <1>4, <1>5, <1>7, <1>8, FrameCall

\* A call on the control Connection loses nothing: it is the read of the next frame, or
\* no acquisition has the Connection.
LEMMA CallDelivered ==
  ASSUME PoolInv, Delivered, NEW t \in Threads, Calling(t)
  PROVE  Delivered'
<1>1. CallStep(t) /\ UNCHANGED sardanaVars /\ SharedInv /\ OwnInv
  BY DEF Calling, PoolInv
<1>2. /\ crossed \subseteq crossed' /\ at[t] # "idle"
      /\ \A u \in Threads \ {t} : at'[u] = at[u] /\ result'[u] = result[u]
  BY <1>1, CallEffect
<1>3. UNCHANGED <<loop, method, acq, read, queued, failed, told, stopping>>
  BY <1>1 DEF sardanaVars, poolVars, loopVars
<1>4. SUFFICES ASSUME "ctrl" \notin crossed'
               PROVE  /\ \A a \in Acqs : Delivers(a)'
                      /\ method = "StartOne" /\ at'[Pool] = "idle" => FlowOf(reader["ctrl"], 0)'
  BY <1>3 DEF Delivered
<1>5. "ctrl" \notin crossed /\ \A a \in Acqs : Delivers(a) /\ Kept(a)' = Kept(a)
  BY <1>2, <1>3, <1>4 DEF Delivered, Kept
<1>6. ASSUME NEW u \in Threads \ {t}, "ctrl" \in inside[u] PROVE CtrlSame
  BY <1>1, <1>4, <1>6, AloneInBlock, StopSame
<1>7. CtrlSame /\ reader["ctrl"] \in Sides("ctrl")
        => \A got \in Nat : FlowOf(reader["ctrl"], got) => FlowOf(reader["ctrl"], got)'
  BY SameFlow
<1>8. ASSUME NEW a \in Acqs PROVE Delivers(a)'
  <2>1. CASE a # t
    <3>1. Flowing(a) => /\ \A got \in Nat : FlowOf(reader["ctrl"], got) => FlowOf(reader["ctrl"], got)'
                        /\ reader'["ctrl"] = reader["ctrl"]
      BY <1>5, <1>6, <1>7, <2>1, FlowingHeld, PoolThreads DEF CtrlSame
    <3>2. at'[a] = at[a] /\ result'[a] = result[a]
      BY <1>2, <2>1, PoolThreads
    <3>3. CASE Flowing(a)
      BY <1>3, <1>5, <3>1, <3>2, <3>3, SameDelivers
    <3>4. CASE ~Flowing(a)
      <4>1. ~Flowing(a)'
        BY <1>3, <3>2, <3>4 DEF Flowing
      <4> QED BY <1>3, <1>5, <3>2, <4>1 DEF Delivers
    <3> QED BY <3>3, <3>4
  <2>2. CASE a = t /\ loop[a] = "fetching"
    BY <1>4, <1>5, <2>2, FrameDelivered
  <2>3. CASE a = t /\ loop[a] # "fetching"
    <3>1. LoopCalls(a)
      BY DEF PoolInv
    <3>2. ~Flowing(a)'
      BY <1>2, <1>3, <2>3, <3>1 DEF LoopCalls, Flowing
    <3> QED BY <1>3, <1>5, <2>3, <3>2 DEF Delivers
  <2> QED BY <2>1, <2>2, <2>3
<1>9. ASSUME method = "StartOne", at'[Pool] = "idle" PROVE FlowOf(reader["ctrl"], 0)'
  <2>1. acq \in Acqs /\ PoolCalls /\ PoolBlock /\ Pool \in Threads
    BY <1>9, PoolThreads DEF PoolInv, Phases, PoolTypes
  <2>2. CASE t = Pool
    <3>1. PICK tag \in Tags : tag = acq
      BY <2>1, PoolThreads
    <3>2. call[t] = Ask("ctrl", "START", tag) /\ at[t] \in {"connect", "assign", "write"}
      BY <1>2, <1>5, <1>9, <2>1, <2>2, <3>1 DEF PoolCalls, PoolBlock
    <3> QED BY <1>1, <1>4, <1>9, <2>2, <3>1, <3>2, StartCall
  <2>3. CASE t # Pool
    <3>1. at[Pool] = "idle" /\ Held(Pool, acq) /\ FlowOf(reader["ctrl"], 0)
      BY <1>2, <1>5, <1>9, <2>1, <2>3 DEF PoolBlock, Delivered
    <3> QED BY <1>6, <1>7, <2>1, <2>3, <3>1 DEF Held
  <2> QED BY <2>2, <2>3
<1> QED BY <1>8, <1>9

\* A frame is put in the queue, and an end without the last one leaves an error.
LEMMA LoopDelivered ==
  ASSUME PoolInv, Delivered, NEW a \in Acqs, LoopStep(a)
  PROVE  Delivered'
<1>0. /\ a \in Threads /\ Pool # a /\ Pool \in Threads /\ PoolTypes /\ LoopCalls(a)
      /\ Frames \in Nat \ {0}
  BY PoolThreads DEF PoolInv
<1>1. /\ CtrlSame /\ UNCHANGED <<reader, inside, crossed>>
      /\ \A u \in Threads \ {a} : at'[u] = at[u] /\ result'[u] = result[u]
      /\ LoopFetched(a) \/ LoopEnds(a) => at'[a] = at[a] /\ result'[a] = result[a]
  BY LoopLeavesBe
<1>2. /\ at[a] = "idle" /\ loop[a] \notin {"absent", "bare", "ready", "over"}
      /\ \E there \in Loops \ {"absent", "bare", "ready"} : loop' = [loop EXCEPT ![a] = there]
      /\ UNCHANGED <<acq, method, read, told, stopping>> /\ PoolTypes'
      /\ \A b \in Acqs \ {a} : failed'[b] = failed[b] /\ queued'[b] = queued[b]
  BY LoopMoves DEF poolVars
<1>3. SUFFICES ASSUME "ctrl" \notin crossed
               PROVE  /\ \A b \in Acqs : Delivers(b)'
                      /\ method = "StartOne" /\ at'[Pool] = "idle" => FlowOf(reader["ctrl"], 0)'
  BY <1>1, <1>2 DEF Delivered
<1>4. reader["ctrl"] \in Sides("ctrl")
        => \A got \in Nat : FlowOf(reader["ctrl"], got) => FlowOf(reader["ctrl"], got)'
  BY <1>1, SameFlow
<1>5. ASSUME NEW b \in Acqs \ {a} PROVE Delivers(b)'
  <2>1. /\ loop'[b] = loop[b] /\ at'[b] = at[b] /\ result'[b] = result[b] /\ Kept(b)' = Kept(b)
        /\ reader'["ctrl"] = reader["ctrl"] /\ Delivers(b)
    BY <1>0, <1>1, <1>2, <1>3, PoolThreads DEF PoolTypes, Kept, Delivered
  <2> QED BY <1>2, <1>3, <1>4, <2>1, FlowingHeld, SameDelivers
<1>6. Delivers(a)'
  <2>1. Delivers(a) /\ Kept(a) \in Nat /\ Kept(a)' \in Nat
    BY <1>2, <1>3 DEF Delivered, Kept, PoolInv, PoolTypes
  <2>2. PICK got \in Nat : got = Got(a)
    BY <2>1 DEF Got
  <2>3. Flowing(a) => FlowOf(reader["ctrl"], got)'
    BY <1>3, <1>4, <2>1, <2>2, FlowingHeld DEF Delivers
  <2>4. Flowing(a)' /\ Got(a)' = got /\ Flowing(a) => FlowOf(reader["ctrl"], Got(a))'
    BY <2>3 DEF FlowOf
  <2>5. CASE LoopFetched(a)
    <3>1. /\ loop[a] = "fetching" /\ at'[a] = "idle" /\ result'[a] = result[a] /\ failed' = failed
          /\ loop' = [loop EXCEPT ![a] = IF result[a] = "frame" THEN "next"
                                         ELSE IF result[a] = "last" THEN "finished"
                                         ELSE IF result[a] = "FAIL" THEN "hidden" ELSE "failed"]
          /\ queued' = IF result[a] \in {"frame", "last"} THEN [queued EXCEPT ![a] = @ + 1] ELSE queued
      BY <1>1, <1>2, <2>5 DEF LoopFetched, At
    <3>2. CASE result[a] = "frame"
      <4>1. loop'[a] = "next" /\ Kept(a)' = Kept(a) + 1
        BY <1>0, <1>2, <3>1, <3>2 DEF Kept, PoolTypes
      <4>2. Kept(a)' <= Frames /\ Flowing(a) /\ Got(a)' = got
        BY <1>0, <1>2, <2>1, <2>2, <3>1, <3>2, <4>1 DEF Delivers, Flowing, Got
      <4> QED BY <2>4, <4>1, <4>2 DEF Delivers
    <3>3. CASE result[a] = "last"
      <4>1. loop'[a] = "finished" /\ Kept(a)' = Kept(a) + 1
        BY <1>0, <1>2, <3>1, <3>3 DEF Kept, PoolTypes
      <4>2. Kept(a)' = Frames /\ ~Flowing(a)'
        BY <1>2, <2>1, <3>1, <3>3, <4>1 DEF Delivers, Flowing
      <4> QED BY <1>0, <4>1, <4>2 DEF Delivers
    <3>4. CASE result[a] \notin {"frame", "last"}
      <4>1. loop'[a] \in {"hidden", "failed"} /\ Kept(a)' = Kept(a)
        BY <1>0, <1>2, <3>1, <3>4 DEF Kept, PoolTypes
      <4> QED BY <2>1, <4>1 DEF Delivers, Flowing
    <3> QED BY <3>2, <3>3, <3>4
  <2>6. CASE LoopEnds(a)
    <3>1. /\ loop[a] \in {"closing", "SLSError", "Exception"} /\ loop'[a] = "over"
          /\ failed'[a] = ErrorQueued(a) /\ Kept(a)' = Kept(a)
      BY <1>0, <1>2, <2>6 DEF LoopEnds, Kept, PoolTypes
    <3>2. loop[a] = "closing" \/ failed'[a] \/ stopping'[a]
      BY <1>2, <3>1 DEF ErrorQueued
    <3> QED BY <2>1, <3>1, <3>2 DEF Delivers, Flowing
  <2>7. CASE ~(LoopFetched(a) \/ LoopEnds(a))
    <3>1. Kept(a)' = Kept(a)
      BY <1>2, <2>7 DEF LoopStep, LoopFetches, LoopFinishes, LoopStops, LoopLeaves, OnlyLoop, Kept
    <3>2. CASE loop[a] = "next" /\ loop'[a] = "fetching" /\ Begin(a, "ctrl", "FRAME", a)
      <4>1. at'[a] = "reading"
        BY <1>0, <3>2, LoopAsks, PoolThreads
      <4>2. Flowing(a) /\ Got(a) = Kept(a) /\ Got(a)' = Kept(a)'
        BY <3>2, <4>1 DEF Flowing, Got
      <4> QED BY <2>1, <2>2, <2>4, <3>1, <3>2, <4>1, <4>2 DEF Delivers
    <3>3. CASE loop[a] = "finished" /\ loop'[a] = "closing"
      BY <2>1, <3>1, <3>3 DEF Delivers, Flowing
    <3>4. CASE loop'[a] \in {"SLSError", "Exception", "raising", "hiding"}
      BY <2>1, <3>1, <3>4 DEF Delivers, Flowing
    <3> QED BY <1>0, <2>7, <3>2, <3>3, <3>4
        DEF PoolTypes, LoopStep, LoopFetches, LoopFinishes, LoopStops, LoopLeaves, At
  <2> QED BY <2>5, <2>6, <2>7
<1>7. method = "StartOne" /\ at'[Pool] = "idle" => FlowOf(reader["ctrl"], 0)'
  BY <1>0, <1>1, <1>3, <1>4 DEF Delivered, PoolInv, PoolBlock, Held
<1> QED BY <1>5, <1>6, <1>7

\* The pool takes frames out of a queue: it reads them, or it is told of the error behind them.
LEMMA ReadDelivers ==
  ASSUME PoolInv, NEW a \in Acqs, Delivers(a), ReadOne,
         at'[a] = at[a], result'[a] = result[a], CtrlSame,
         Flowing(a) => reader["ctrl"] \in Sides("ctrl")
  PROVE  Delivers(a)'
<1>0. PoolTypes /\ LoopCalls(a) /\ Kept(a) \in Nat /\ Frames \in Nat
  BY PoolThreads DEF PoolInv, PoolTypes, Kept
<1>1. loop' = loop /\ stopping' = stopping /\ reader'["ctrl"] = reader["ctrl"]
  BY <1>0 DEF ReadOne, CtrlSame, PoolTypes
<1>2. \A got \in Nat : Flowing(a) /\ FlowOf(reader["ctrl"], got) => FlowOf(reader["ctrl"], got)'
  BY SameFlow
<1>3. CASE Kept(a)' = Kept(a) /\ (failed[a] \/ told[a] => failed'[a] \/ told'[a])
  BY <1>1, <1>2, <1>3, SameDelivers
<1>4. CASE a # acq
  <2>1. read'[a] = read[a] /\ queued'[a] = queued[a] /\ failed'[a] = failed[a] /\ told'[a] = told[a]
    BY <1>0, <1>1, <1>4 DEF ReadOne, PoolTypes
  <2> QED BY <1>3, <2>1 DEF Kept
<1>5. CASE a = acq
  <2>0. acq # None
    BY <1>5, PoolThreads
  <2>1. PICK q \in Nat, r \in Nat : q = queued[a] /\ r = read[a]
    BY <1>0 DEF PoolTypes
  <2>2. CASE failed[a] /\ told' = [told EXCEPT ![a] = TRUE] /\ queued' = [queued EXCEPT ![a] = 0] /\ read' = read
    <3>1. loop[a] = "over" /\ told'[a] /\ Kept(a)' = r + 0 /\ Kept(a) = r + q
      BY <1>0, <2>1, <2>2 DEF LoopCalls, PoolTypes, Kept
    <3> QED BY <1>0, <1>1, <2>1, <3>1 DEF Delivers, Flowing
  <2>3. CASE UNCHANGED <<failed, told>> /\ Kept(a)' = Kept(a)
    BY <1>3, <2>3
  <2>4. CASE read' = [read EXCEPT ![a] = r + q] /\ queued' = [queued EXCEPT ![a] = 0] /\ UNCHANGED <<failed, told>>
    <3>1. Kept(a)' = (r + q) + 0 /\ Kept(a) = r + q
      BY <1>0, <2>1, <2>4 DEF PoolTypes, Kept
    <3> QED BY <2>3, <2>4, <3>1
  <2>5. CASE /\ read' = [read EXCEPT ![a] = r + 1] /\ queued' = [queued EXCEPT ![a] = q - 1]
             /\ UNCHANGED <<failed, told>>
    <3>1. Kept(a)' = (r + 1) + (q - 1) /\ Kept(a) = r + q
      BY <1>0, <2>1, <2>5 DEF PoolTypes, Kept
    <3> QED BY <2>3, <2>5, <3>1
  <2> QED BY <1>5, <2>0, <2>1, <2>2, <2>4, <2>5 DEF ReadOne
<1> QED BY <1>4, <1>5

\* The methods other than ReadOne leave the frames where they are.
LEMMA PoolLeavesFrames ==
  ASSUME PoolInv, PoolStep, NEW a \in Acqs
  PROVE  \/ ReadOne
         \/ /\ UNCHANGED <<read, queued, failed, told>> /\ Kept(a)' = Kept(a)
            /\ stopping[a] => stopping'[a]
  BY DEF PoolStep, StateAll, PoolReturns, LoadOne, StartOne, StateAlive, StateAsks, Collected,
     AbortOne, CtrlPar, LoadSends, LoadEnds, StartEnds, StateEnds, AbortEnds, ParSends, ParEnds,
     loopVars, PoolInv, PoolTypes, Kept

\* A step of the pool: a thread takes over a block in which no frame was read.
LEMMA PoolDelivered ==
  ASSUME PoolInv, Delivered, PoolStep
  PROVE  Delivered'
<1>0. PoolTypes /\ Phases /\ PoolBlock /\ Pool \in Threads /\ Frames \in Nat \ {0}
  BY PoolThreads DEF PoolInv
<1>1. CASE ~Hands
  <2>1. /\ CtrlSame /\ crossed' = crossed /\ reader' = reader
        /\ \A a \in Acqs : at'[a] = at[a] /\ result'[a] = result[a]
        /\ method' = "StartOne" => at'[Pool] # "idle"
    BY <1>1, PoolLeavesBe, PoolStarts
  <2>2. SUFFICES ASSUME "ctrl" \notin crossed, NEW a \in Acqs PROVE Delivers(a)'
    BY <2>1 DEF Delivered
  <2>3. Delivers(a) /\ (Flowing(a) => reader["ctrl"] \in Sides("ctrl"))
    BY <2>2, FlowingHeld DEF Delivered
  <2>4. CASE ReadOne
    BY <2>1, <2>3, <2>4, ReadDelivers
  <2>5. CASE ~ReadOne
    <3>1. UNCHANGED <<read, queued, failed, told>> /\ Kept(a)' = Kept(a) /\ (stopping[a] => stopping'[a])
      BY <2>5, PoolLeavesFrames
    <3>2. CASE loop'[a] = loop[a]
      <4>1. \A got \in Nat : Flowing(a) /\ FlowOf(reader["ctrl"], got) => FlowOf(reader["ctrl"], got)'
        BY <2>1, <2>3, SameFlow
      <4> QED BY <2>1, <2>3, <3>1, <3>2, <4>1, SameDelivers
    <3>3. CASE loop'[a] # loop[a]
      <4>1. loop[a] \in {"absent", "bare"} /\ loop'[a] \in {"bare", "ready"}
        BY <1>1, <3>3, PoolMoves
      <4> QED BY <1>0, <2>3, <3>1, <4>1 DEF Delivers, Flowing
    <3> QED BY <3>2, <3>3
  <2> QED BY <2>4, <2>5
<1>2. CASE Hands
  <2>1. /\ loop' = [loop EXCEPT ![acq] = "next"] /\ loop[acq] = "ready" /\ at[acq] = "idle"
        /\ UNCHANGED <<reader, at, result, crossed, serverVars>>
        /\ "ctrl" \notin crossed => \A a \in Acqs : "ctrl" \notin inside[a]
        /\ acq \in Acqs /\ at[Pool] = "idle"
    BY <1>2, HandOver
  <2>2. method = "StartOne" /\ method' = "none" /\ UNCHANGED <<acq, read, told, stopping, queued, failed>>
    BY <1>2 DEF Hands, StartEnds, In
  <2>3. SUFFICES ASSUME "ctrl" \notin crossed, NEW a \in Acqs PROVE Delivers(a)'
    BY <2>1, <2>2 DEF Delivered
  <2>4. Delivers(a) /\ Kept(a)' = Kept(a) /\ FlowOf(reader["ctrl"], 0)
    BY <2>1, <2>2, <2>3 DEF Delivered, Kept
  <2>5. CASE a = acq
    <3>1. loop'[a] = "next" /\ Kept(a)' = 0 /\ Got(a)' = 0
      BY <1>0, <2>1, <2>4, <2>5 DEF Delivers, PoolTypes, Got, Kept
    <3>2. FlowOf(reader["ctrl"], Got(a))'
      BY <2>1, <2>4, <3>1 DEF FlowOf, serverVars
    <3> QED BY <1>0, <3>1, <3>2 DEF Delivers
  <2>6. CASE a # acq
    <3>1. ~Flowing(a) /\ loop'[a] = loop[a]
      BY <1>0, <2>1, <2>3, <2>6, FlowingHeld DEF PoolTypes
    <3>2. ~Flowing(a)'
      BY <2>1, <3>1 DEF Flowing
    <3> QED BY <2>1, <2>2, <2>4, <3>1, <3>2 DEF Delivers
  <2> QED BY <2>5, <2>6
<1> QED BY <1>1, <1>2

\* Nothing was read yet.
LEMMA InitDelivered == SardanaInit => Delivered
  BY PoolThreads DEF SardanaInit, ThreadsInit, Delivered, Delivers, Flowing, Kept

\* Every step keeps it.
LEMMA DeliveredNext == PoolInv /\ Delivered /\ [SardanaNext]_systemVars => Delivered'
<1> SUFFICES ASSUME PoolInv, Delivered, [SardanaNext]_systemVars PROVE Delivered'
  OBVIOUS
<1>1. CASE UNCHANGED systemVars
  <2>1. UNCHANGED threadVars /\ UNCHANGED <<poolVars, loopVars>>
    BY <1>1 DEF systemVars, sardanaVars
  <2>2. UNCHANGED <<at, result, reader, crossed, request, replies, handler, left>>
    BY <2>1, Quiet
  <2> QED BY <2>1, <2>2 DEF Delivered, Delivers, Flowing, Got, Kept, FlowOf, poolVars, loopVars
<1> QED BY <1>1, PoolDelivered, LoopDelivered, CallDelivered, ServerDelivered DEF SardanaNext

-----------------------------------------------------------------------------
(* The methods that raise an error *)

\* The call of a method ends with one of its answers.
LEMMA CallSucceeds ==
  ASSUME PoolInv, MethodsSucceed, NEW t \in Threads, Calling(t)
  PROVE  MethodsSucceed'
<1>1. CallStep(t) /\ UNCHANGED sardanaVars /\ SharedInv /\ OwnInv /\ Pool \in Threads
  BY PoolThreads DEF Calling, PoolInv
<1>2. /\ crossed \subseteq crossed' /\ at[t] # "idle"
      /\ \A u \in Threads \ {t} : at'[u] = at[u] /\ result'[u] = result[u]
  BY <1>1, CallEffect
<1>3. UNCHANGED <<loop, method, acq, raised, todo>>
  BY <1>1 DEF sardanaVars, poolVars, loopVars
<1>4. SUFFICES ASSUME crossed' = {}, method # "none", at'[Pool] = "idle", t = Pool PROVE Good'
  BY <1>1, <1>2, <1>3 DEF MethodsSucceed, Good
<1>5. CASE method = "StartOne"
  <2>1. PICK tag \in Tags : tag = acq
    BY <1>5, PoolThreads DEF PoolInv, Phases, PoolTypes
  <2>2. call[t] = Ask("ctrl", "START", tag) /\ at[t] \in {"connect", "assign", "write"}
    BY <1>2, <1>4, <1>5, <2>1 DEF PoolInv, PoolCalls, PoolBlock
  <2> QED BY <1>1, <1>4, <2>1, <2>2, StartCall DEF Good
<1>6. CASE method # "StartOne"
  <2>1. call[t].command \in {"COMMAND", "STOP", "RUN_STATUS"}
    BY <1>2, <1>4, <1>6 DEF PoolInv, PoolCalls, Ask
  <2>2. result'[t] \in Ends(call[t].command)
    BY <1>1, <1>4, <2>1, AnswerGiven DEF Answered
  <2> QED BY <1>4, <2>1, <2>2 DEF AnswersTo, Ends, Good
<1> QED BY <1>5, <1>6

\* A step of the pool raises no error where its command was answered.
LEMMA PoolSucceeds ==
  ASSUME PoolInv, MethodsSucceed, PoolStep
  PROVE  MethodsSucceed'
<1>0. PoolTypes /\ Phases /\ None \notin Acqs
  BY PoolThreads DEF PoolInv
<1>1. /\ crossed' = crossed /\ at[Pool] = "idle"
      /\ at'[Pool] = "idle" => UNCHANGED result
  BY HandOver, PoolLeavesBe DEF Hands, threadVars, clientVars
<1>2. SUFFICES ASSUME crossed = {},
                      raised \subseteq {"ReadOne"},
                      method # "none" => Good \/ (method = "LoadOne" /\ todo = 4),
                      acq # None /\ loop[acq] = "bare" => method = "LoadOne"
               PROVE  /\ raised' \subseteq {"ReadOne"}
                      /\ method' # "none" /\ at'[Pool] = "idle" => Good' \/ (method' = "LoadOne" /\ todo' = 4)
                      /\ acq' # None /\ loop'[acq'] = "bare" => method' = "LoadOne"
  BY <1>1 DEF MethodsSucceed
<1>3. ASSUME NEW o, NEW c, NEW tag, Begin(Pool, o, c, tag), c # "CLOSE" PROVE at'[Pool] # "idle"
  BY <1>3, PoolThreads DEF Begin, Goes, PoolInv, SharedInv, ThreadsTypeOK
<1>4. CASE LoadOne
  BY <1>0, <1>2, <1>4 DEF LoadOne
<1>5. CASE LoadEnds
  <2>1. Good /\ loop' = [loop EXCEPT ![acq] = "ready"] /\ acq' = acq /\ raised' = raised /\ method' = "none"
    BY <1>2, <1>5 DEF LoadEnds, In
  <2> QED BY <1>0, <1>2, <2>1 DEF PoolTypes
<1>6. CASE StartEnds
  <2>1. Good /\ loop' = [loop EXCEPT ![acq] = "next"] /\ acq' = acq /\ raised' = raised /\ method' = "none"
    BY <1>2, <1>6 DEF StartEnds, In
  <2> QED BY <1>0, <1>2, <2>1 DEF PoolTypes
<1>7. CASE LoadSends \/ StartOne \/ StateAsks \/ AbortOne \/ CtrlPar
  <2>1. at'[Pool] # "idle" /\ raised' = raised /\ acq' = acq /\ loop' = loop
    BY <1>3, <1>7 DEF LoadSends, StartOne, StateAsks, AbortOne, CtrlPar, loopVars
  <2>2. method' = "LoadOne" \/ method = "none"
    BY <1>7 DEF LoadSends, StartOne, StateAsks, AbortOne, CtrlPar, Free, In
  <2> QED BY <1>2, <2>1, <2>2
<1>8. CASE StateAlive \/ ReadOne \/ Collected
  BY <1>2, <1>8 DEF StateAlive, Alive, ReadOne, Collected, Free, loopVars
<1>9. CASE StateEnds \/ AbortEnds \/ ParEnds
  BY <1>2, <1>9 DEF StateEnds, AbortEnds, ParEnds, In, loopVars
<1>10. CASE ParSends
  <2>1. at'[Pool] # "idle" /\ raised' = raised /\ acq' = acq /\ loop' = loop
    BY <1>3, <1>10 DEF ParSends, loopVars
  <2>2. method = "CtrlPar"
    BY <1>10 DEF ParSends, In
  <2> QED BY <1>2, <2>1, <2>2
<1> QED BY <1>4, <1>5, <1>6, <1>7, <1>8, <1>9, <1>10 DEF PoolStep, StateAll, PoolReturns

\* Every step keeps it.
LEMMA SucceedNext == PoolInv /\ MethodsSucceed /\ [SardanaNext]_systemVars => MethodsSucceed'
<1> SUFFICES ASSUME PoolInv, MethodsSucceed, [SardanaNext]_systemVars PROVE MethodsSucceed'
  OBVIOUS
<1>1. CASE UNCHANGED systemVars
  <2>1. UNCHANGED <<poolVars, loopVars, at, result, crossed>>
    BY <1>1, Quiet DEF systemVars, sardanaVars
  <2> QED BY <2>1 DEF MethodsSucceed, Good, poolVars, loopVars
<1>2. CASE \E a \in Acqs : LoopStep(a)
  <2>1. PICK a \in Acqs : LoopStep(a)
    BY <1>2
  <2>2. /\ \E there \in Loops \ {"absent", "bare", "ready"} : loop' = [loop EXCEPT ![a] = there]
        /\ UNCHANGED <<acq, method, todo, raised>>
    BY <2>1, LoopMoves DEF poolVars
  <2>3. at'[Pool] = at[Pool] /\ result'[Pool] = result[Pool] /\ crossed' = crossed
    BY <2>1, LoopLeavesBe, PoolThreads
  <2> QED BY <2>2, <2>3 DEF MethodsSucceed, Good, PoolInv, PoolTypes
<1>3. CASE (\E s \in Sockets : Serving(s)) \/ Stopped
  <2>1. UNCHANGED sardanaVars /\ UNCHANGED clientVars
    BY <1>3, ServerTouches DEF Serving, Stopped, PoolInv
  <2> QED BY <2>1 DEF MethodsSucceed, Good, sardanaVars, poolVars, loopVars, clientVars
<1> QED BY <1>1, <1>2, <1>3, PoolSucceeds, CallSucceeds DEF SardanaNext

-----------------------------------------------------------------------------
(* The acquisitions that were cut *)

\* A call takes its last frame only where the thread of the acquisition ends well.
LEMMA CallShort ==
  ASSUME PoolInv, CutShort, NEW t \in Threads, Calling(t)
  PROVE  CutShort'
<1>1. /\ crossed \subseteq crossed' /\ at[t] # "idle"
      /\ \A u \in Threads \ {t} : at'[u] = at[u] /\ result'[u] = result[u]
  BY CallEffect DEF Calling, PoolInv
<1>2. UNCHANGED <<loop, read, queued, failed, told>>
  BY DEF Calling, sardanaVars, poolVars, loopVars
<1>3. SUFFICES ASSUME crossed = {}, NEW a \in Acqs, Short(a) PROVE Short(a)'
  BY <1>1 DEF CutShort
<1>4. Kept(a)' = Kept(a)
  BY <1>2 DEF Kept
<1> QED BY <1>1, <1>2, <1>3, <1>4, PoolThreads DEF Short

\* The thread of an acquisition fails before the last frame, or not at all.
LEMMA LoopShort ==
  ASSUME PoolInv, Delivered, CutShort, NEW a \in Acqs, LoopStep(a)
  PROVE  CutShort'
<1>1. /\ crossed' = crossed /\ \A u \in Threads \ {a} : at'[u] = at[u] /\ result'[u] = result[u]
  BY LoopLeavesBe
<1>2. /\ at[a] = "idle" /\ loop[a] # "over" /\ UNCHANGED <<read, told>> /\ PoolTypes /\ PoolTypes'
      /\ \E there \in Loops \ {"absent", "bare", "ready"} : loop' = [loop EXCEPT ![a] = there]
      /\ \A b \in Acqs \ {a} : failed'[b] = failed[b] /\ queued'[b] = queued[b]
      /\ failed'[a] => failed[a] \/ loop'[a] = "over"
  BY LoopMoves DEF poolVars, PoolInv
<1>3. SUFFICES ASSUME crossed = {}, NEW b \in Acqs, Short(b), Delivers(b) PROVE Short(b)'
  BY <1>1 DEF CutShort, Delivered
<1>4. CASE b # a
  <2>1. /\ Kept(b)' = Kept(b) /\ loop'[b] = loop[b] /\ at'[b] = at[b] /\ result'[b] = result[b]
        /\ failed'[b] = failed[b] /\ told'[b] = told[b]
    BY <1>1, <1>2, <1>4, PoolThreads DEF Kept, PoolTypes
  <2> QED BY <1>3, <2>1 DEF Short
<1>5. CASE b = a
  <2>0. ~failed[a] /\ ~told'[a] /\ Kept(a) \in Nat
    BY <1>2, <1>3, <1>5 DEF Short, Kept, PoolTypes
  <2>1. CASE LoopFetched(a)
    <3>1. CASE result[a] = "frame"
      <4>1. loop'[a] = "next" /\ Kept(a)' = Kept(a) + 1 /\ ~failed'[a]
        BY <1>2, <2>0, <2>1, <3>1 DEF LoopFetched, Kept, PoolTypes
      <4>2. Kept(a)' < Frames
        BY <1>2, <1>3, <1>5, <2>1, <3>1, <4>1 DEF LoopFetched, At, Delivers
      <4> QED BY <1>5, <2>0, <4>1, <4>2 DEF Short
    <3>2. CASE result[a] = "last"
      <4>1. loop'[a] = "finished" /\ ~failed'[a]
        BY <1>2, <2>0, <2>1, <3>2 DEF LoopFetched, PoolTypes
      <4> QED BY <1>5, <2>0, <4>1 DEF Short
    <3>3. CASE result[a] \notin {"frame", "last"}
      <4>1. loop'[a] \in {"hidden", "failed"} /\ Kept(a)' = Kept(a) /\ ~failed'[a] /\ loop[a] = "fetching"
        BY <1>2, <2>0, <2>1, <3>3 DEF LoopFetched, At, Kept, PoolTypes
      <4> QED BY <1>3, <1>5, <2>0, <3>3, <4>1 DEF Short
    <3> QED BY <3>1, <3>2, <3>3
  <2>2. CASE LoopEnds(a)
    <3>1. /\ loop'[a] = "over" /\ Kept(a)' = Kept(a) /\ failed'[a] = ErrorQueued(a)
          /\ loop[a] \in {"closing", "SLSError", "Exception"}
      BY <1>2, <2>2 DEF LoopEnds, Kept, PoolTypes
    <3>2. result[a] # "error"
      BY <1>3, PoolThreads DEF PoolInv, OwnInv
    <3>3. failed'[a] => loop[a] \in {"SLSError", "Exception"}
      BY <3>1, <3>2 DEF ErrorQueued
    <3> QED BY <1>3, <1>5, <2>0, <3>1, <3>3 DEF Short
  <2>3. CASE ~LoopFetched(a) /\ ~LoopEnds(a)
    <3>1. Kept(a)' = Kept(a) /\ ~failed'[a]
      BY <1>2, <2>0, <2>3 DEF LoopStep, LoopFetches, LoopFinishes, LoopStops, LoopLeaves, OnlyLoop, Kept
    <3>2. \/ loop[a] = "next" /\ loop'[a] = "fetching"
          \/ loop[a] = "finished" /\ loop'[a] = "closing"
          \/ loop[a] \in {"failed", "hidden"} /\ loop'[a] \in {"raising", "hiding"}
          \/ loop[a] \in {"raising", "hiding"} /\ loop'[a] \in {"SLSError", "Exception"}
      BY <1>2, <2>3 DEF PoolTypes, LoopStep, LoopFetches, LoopFinishes, LoopStops, LoopLeaves, At
    <3> QED BY <1>3, <1>5, <2>0, <3>1, <3>2 DEF Short
  <2> QED BY <2>1, <2>2, <2>3
<1> QED BY <1>4, <1>5

\* ReadOne takes frames out of a queue, and drops them where it raises.
LEMMA ReadShort ==
  ASSUME PoolInv, NEW a \in Acqs, Short(a), ReadOne, at'[a] = at[a], result'[a] = result[a]
  PROVE  Short(a)'
<1>1. PoolTypes /\ loop' = loop
  BY DEF ReadOne, PoolInv
<1>2. PICK q \in Nat, r \in Nat : q = queued[a] /\ r = read[a]
  BY <1>1 DEF PoolTypes
<1>3. /\ Kept(a) = r + q
      /\ failed'[a] \/ told'[a] => failed[a] \/ told[a]
      /\ \/ Kept(a)' = r + q
         \/ Kept(a)' = (r + q) + 0
         \/ Kept(a)' = (r + 1) + (q - 1)
         \/ Kept(a)' = r + 0
  BY <1>1, <1>2 DEF ReadOne, Kept, PoolTypes
<1>4. Kept(a)' <= Kept(a) /\ Kept(a)' \in Int /\ Kept(a) \in Int
  BY <1>2, <1>3
<1> QED BY <1>1, <1>3, <1>4, PoolThreads DEF Short

\* A step of the pool: an acquisition starts with all of its frames missing.
LEMMA PoolShort ==
  ASSUME PoolInv, Delivered, CutShort, PoolStep
  PROVE  CutShort'
<1>1. /\ crossed' = crossed /\ \A a \in Acqs : at'[a] = at[a] /\ result'[a] = result[a]
  BY HandOver, PoolLeavesBe
<1>2. SUFFICES ASSUME crossed = {}, NEW a \in Acqs, Short(a), Delivers(a) PROVE Short(a)'
  BY <1>1 DEF CutShort, Delivered
<1>3. CASE ReadOne
  BY <1>1, <1>2, <1>3, ReadShort
<1>4. CASE ~ReadOne
  <2>1. Kept(a)' = Kept(a) /\ failed' = failed /\ told' = told
    BY <1>4, PoolLeavesFrames
  <2>2. \/ loop'[a] = loop[a]
        \/ loop[a] \in {"absent", "bare", "ready"} /\ loop'[a] \in {"bare", "ready", "next"}
    BY PoolMoves, HandOver DEF PoolInv, PoolTypes
  <2> QED BY <1>1, <1>2, <2>1, <2>2, PoolThreads DEF Short, Delivers
<1> QED BY <1>3, <1>4

\* Every step keeps it.
LEMMA ShortNext ==
  PoolInv /\ Delivered /\ CutShort /\ [SardanaNext]_systemVars => CutShort'
<1> SUFFICES ASSUME PoolInv, Delivered, CutShort, [SardanaNext]_systemVars PROVE CutShort'
  OBVIOUS
<1>1. CASE UNCHANGED systemVars \/ (\E s \in Sockets : Serving(s)) \/ Stopped
  <2>1. UNCHANGED <<poolVars, loopVars>> /\ UNCHANGED clientVars
    BY <1>1, ServerTouches DEF Serving, Stopped, PoolInv, systemVars, sardanaVars, threadVars
  <2> QED BY <2>1 DEF CutShort, Short, Kept, poolVars, loopVars, clientVars
<1> QED BY <1>1, PoolShort, LoopShort, CallShort DEF SardanaNext

\* Only an abort leaves the pool without the acquisition that it reads.
LEMMA PoolBlames ==
  ASSUME PoolInv, Blamed, PoolStep
  PROVE  Blamed'
<1>0. PoolTypes /\ None \notin Acqs
  BY PoolThreads DEF PoolInv
<1>1. PICK n \in Nat : n = spent["aborts"]
  BY <1>0 DEF PoolTypes
<1>2. CASE AbortOne
  <2>1. spent'["aborts"] = n + 1 /\ UNCHANGED <<acq, phase, raised, told>>
    BY <1>0, <1>1, <1>2 DEF AbortOne, Spend, PoolTypes
  <2> QED BY <1>1, <2>1 DEF Blamed
<1>3. CASE AbortEnds
  <2>1. method = "AbortOne" /\ UNCHANGED spent
    BY <1>3 DEF AbortEnds, In
  <2>2. phase' = "aborted"
    BY <1>3 DEF AbortEnds
  <2> QED BY <2>1, <2>2 DEF Blamed
<1>4. CASE LoadOne \/ CtrlPar
  <2>1. /\ spent'["aborts"] = n /\ UNCHANGED <<phase, raised, told>> /\ method' # "AbortOne"
        /\ acq' = acq \/ phase = "free"
    BY <1>0, <1>1, <1>4 DEF LoadOne, CtrlPar, Spend, PoolTypes, Free
  <2> QED BY <1>1, <2>1 DEF Blamed
<1>5. CASE ReadOne
  <2>1. /\ UNCHANGED <<acq, method, phase, spent>> /\ phase \in {"started", "aborted"}
        /\ \A a \in Acqs : told[a] => told'[a]
        /\ \/ acq = None \/ raised' = raised
           \/ acq \in Acqs /\ told'[acq]
    BY <1>0, <1>5 DEF ReadOne, PoolTypes
  <2> QED BY <2>1 DEF Blamed
<1>6. CASE LoadEnds \/ StartEnds
  <2>1. /\ UNCHANGED <<acq, told, spent>> /\ phase' \in {"loaded", "started", "broken"}
        /\ method' = "none"
        /\ "ReadOne" \in raised' => "ReadOne" \in raised
    BY <1>6 DEF LoadEnds, StartEnds, Raises
  <2>2. acq # None
    BY <1>6 DEF LoadEnds, StartEnds, In, PoolInv, Phases
  <2> QED BY <2>1, <2>2 DEF Blamed
<1>7. CASE \/ StartOne \/ StateAlive \/ StateAsks \/ Collected
           \/ LoadSends \/ StateEnds \/ ParSends \/ ParEnds
  <2>1. /\ UNCHANGED <<acq, told, spent>> /\ phase' \in {phase, "free"} /\ method' # "AbortOne"
        /\ "ReadOne" \in raised' => "ReadOne" \in raised
    BY <1>7 DEF StartOne, StateAlive, StateAsks, Collected, LoadSends, StateEnds, ParSends, ParEnds,
       Raises, Free, In
  <2> QED BY <2>1 DEF Blamed
<1> QED BY <1>2, <1>3, <1>4, <1>5, <1>6, <1>7 DEF PoolStep, StateAll, PoolReturns

\* Every step keeps it.
LEMMA BlamedNext == PoolInv /\ Blamed /\ [SardanaNext]_systemVars => Blamed'
<1> SUFFICES ASSUME PoolInv, Blamed, [SardanaNext]_systemVars PROVE Blamed'
  OBVIOUS
<1>1. CASE \E a \in Acqs : LoopStep(a)
  BY <1>1, LoopMoves DEF Blamed, poolVars
<1>2. CASE \/ UNCHANGED systemVars \/ Stopped
           \/ (\E t \in Threads : Calling(t)) \/ (\E s \in Sockets : Serving(s))
  BY <1>2 DEF Blamed, Serving, Stopped, Calling, systemVars, sardanaVars, poolVars
<1> QED BY <1>1, <1>2, PoolBlames DEF SardanaNext

-----------------------------------------------------------------------------
(* A pool that nobody disturbs *)

Calm == spent["aborts"] = 0 /\ spent["pars"] = 0 /\ foreign = 0

\* One acquisition at a time, without an error.
OneAtATime ==
  /\ method \in {"none", "LoadOne", "StartOne", "StateAll"}
  /\ phase \in {"free", "loaded", "started"} /\ reported \in {"On", "Running"}
  /\ phase # "free" => acq # None
  /\ phase = "free" /\ acq # None => loop[acq] = IF method = "LoadOne" THEN "bare" ELSE "over"
  /\ \A a \in Acqs :
       /\ a # acq => loop[a] \in {"absent", "over"}
       /\ loop[a] \in {"absent", "bare", "ready", "next", "fetching", "finished", "closing", "over"}
       /\ ~failed[a]

\* Only the pool, or the thread that took its block over, is in a block.
Entered ==
  /\ "stop" \in inside[Pool] => method = "StateAll" /\ at[Pool] # "idle"
  /\ "ctrl" \in inside[Pool] => method = "StartOne" \/ (method = "LoadOne" /\ at[Pool] # "idle")
  /\ \A a \in Acqs :
       /\ "stop" \notin inside[a]
       /\ "ctrl" \in inside[a] =>
            loop[a] \in {"next", "fetching", "finished"} \/ (loop[a] = "closing" /\ at[a] # "idle")

\* Nobody stops the acquisition of the detector, which is the only one.
Unstopped == \A x \in Sockets :
  /\ request[x] # None => request[x].command # "STOP"
  /\ handler[x] \in Begun => x = acquisition /\ handler[x] # "hung"

Runs(x) == Underway(x) \/ handler[x] \in {"ending", "hung"}

\* It is the one of the pool, and it ends when its last frame was read.
Wanted == \A x \in Sockets : Runs(x) =>
  /\ x = reader["ctrl"]
  /\ (method = "StartOne" /\ at[Pool] = "idle") \/ (phase = "started" /\ reported # "On")
  /\ phase = "started" /\ ~Flowing(acq) => handler[x] = "ending"

\* The pool is told, or was told, that the detector is idle.
SaidIdle ==
  \/ at[Pool] = "reading" /\ replies[waits[Pool]] # <<>> /\ replies[waits[Pool]][1].what = "IDLE"
  \/ at[Pool] \in {"test", "clear", "idle"} /\ result[Pool] = "IDLE"

\* Then the acquisition that it started is over in the simulator too.
Quiesced == method = "StateAll" /\ phase = "started" /\ SaidIdle => \A x \in Sockets : ~Runs(x)

\* The stream of an acquisition ends with its last frame.
Uncut(s) ==
  /\ \A i \in 1..Len(replies[s]) : replies[s][i].what # "FAIL"
  /\ handler[s] = "open" => request[s] # None
  /\ handler[s] \in {"ending", "closed", "hung"} =>
       replies[s] # <<>> /\ replies[s][Len(replies[s])].what = "last"

Whole ==
  /\ method = "StartOne" /\ at[Pool] = "idle" => Uncut(reader["ctrl"])
  /\ \A a \in Acqs : /\ Flowing(a) => Uncut(reader["ctrl"])
                     /\ loop[a] = "fetching" => at[a] \in {"reading", "idle"}
                     /\ loop[a] = "fetching" /\ at[a] = "idle" => result[a] \in {"frame", "last"}

CalmNow == /\ crossed = {} /\ raised = {}
           /\ OneAtATime /\ Entered /\ Unstopped /\ Wanted /\ Quiesced /\ Whole

CalmInv == Calm => CalmNow

\* Who makes a call, and which.
Makes(t, o, c, tag) == call[t] = Ask(o, c, tag) /\ Object(t) = o /\ call[t].command = c

\* The threads that make one at all.
LEMMA CalmCaller ==
  ASSUME PoolInv, OneAtATime, NEW t \in Threads, at[t] # "idle"
  PROVE  \/ /\ t = Pool
            /\ \/ method = "LoadOne" /\ phase = "free" /\ Makes(t, "ctrl", "COMMAND", Pool)
               \/ method = "StartOne" /\ phase = "loaded" /\ Makes(t, "ctrl", "START", acq)
               \/ method = "StateAll" /\ Makes(t, "stop", "RUN_STATUS", Pool)
         \/ /\ t = acq /\ t \in Acqs /\ t # Pool
            /\ \/ loop[t] = "fetching" /\ Makes(t, "ctrl", "FRAME", t)
               \/ loop[t] = "closing" /\ Makes(t, "ctrl", "CLOSE", t)
<1>1. ASSUME NEW o, NEW c, NEW tag, call[t] = Ask(o, c, tag) PROVE Makes(t, o, c, tag)
  BY <1>1 DEF Makes, Ask, Object
<1>2. CASE t = Pool
  BY <1>1, <1>2 DEF PoolInv, PoolCalls, Phases, OneAtATime
<1>3. CASE t \in Acqs
  <2>1. \/ loop[t] = "fetching" /\ call[t] = Ask("ctrl", "FRAME", t)
        \/ loop[t] = "closing" /\ call[t] = Ask("ctrl", "CLOSE", t)
    BY <1>3 DEF PoolInv, LoopCalls, OneAtATime
  <2> QED BY <1>1, <1>3, <2>1, PoolThreads DEF OneAtATime
<1> QED BY <1>2, <1>3, PoolThreads

\* Where a Connection is crossed.
LEMMA CallCrosses ==
  ASSUME NEW t \in Threads, CallStep(t)
  PROVE  \/ crossed' = crossed
         \/ at[t] = "connect" /\ \E u \in Threads \ {t} : Object(t) \in inside[u]
  BY DEF CallStep, Connect, Assign, Write, SocketGone, TakeFrame, TakeReply,
      UpdateClient, TakeFail, TakeMessage, Takes, TakeEof, CloseTest, CloseClear

\* No Connection is.
LEMMA CalmUncrossed ==
  ASSUME PoolInv, OneAtATime, Entered, NEW t \in Threads, CallStep(t)
  PROVE  crossed' = crossed
<1>1. SUFFICES ASSUME at[t] = "connect", NEW u \in Threads \ {t}, Object(t) \in inside[u] PROVE FALSE
  BY CallCrosses
<1>2. t = Pool /\ u \in Acqs
  <2>1. call[t].command \notin {"FRAME", "CLOSE"}
    BY <1>1 DEF PoolInv, SharedInv, Closing
  <2> QED BY <1>1, <2>1, CalmCaller, PoolThreads DEF Makes
<1>3. Object(t) = "ctrl" /\ method \in {"LoadOne", "StartOne"} /\ loop[u] \in {"next", "fetching", "finished", "closing"}
  BY <1>1, <1>2, CalmCaller DEF Makes, Entered
<1>4. u = acq
  BY <1>2, <1>3 DEF OneAtATime
<1> QED BY <1>2, <1>3, <1>4 DEF PoolInv, Phases, PoolTypes

\* A call that is over is out of its block, but for START and the read of a frame.
LEMMA CallLeaves ==
  ASSUME SharedInv, NEW t \in Threads, CallStep(t), at'[t] = "idle",
         call[t].command \notin {"START", "FRAME"}
  PROVE  Object(t) \notin inside'[t]
<1>1. CloseTest(t) \/ CloseClear(t)
  BY CallPlaces DEF CallStep, Connect, Assign, Write, SocketGone, TakeFrame, TakeReply,
      UpdateClient, TakeFail, TakeMessage, Takes, TakeEof, Goes, SharedInv, ThreadsTypeOK
<1>2. Closed(t) /\ closes[t] \in 0..3
  BY <1>1 DEF CloseTest, CloseClear, Goes, SharedInv, ThreadsTypeOK
<1>3. inside' = [inside EXCEPT ![t] = @ \ {Object(t)}]
  BY <1>2 DEF Closed, Goes, SharedInv, ThreadsTypeOK
<1> QED BY <1>3 DEF SharedInv, ThreadsTypeOK

\* A call enters its own block and leaves it.
LEMMA CallEnters ==
  ASSUME PoolInv, OneAtATime, Entered, NEW t \in Threads, Calling(t)
  PROVE  Entered'
<1>1. CallStep(t) /\ UNCHANGED <<method, loop, acq>> /\ SharedInv /\ OwnInv
  BY DEF Calling, sardanaVars, poolVars, loopVars, PoolInv
<1>2. /\ at[t] # "idle" /\ inside'[t] \subseteq inside[t] \cup {Object(t)}
      /\ \A u \in Threads \ {t} : inside'[u] = inside[u] /\ at'[u] = at[u]
  BY <1>1, CallKeeps, CallEffect
<1>3. at'[t] = "idle" /\ call[t].command \notin {"START", "FRAME"} => Object(t) \notin inside'[t]
  BY <1>1, CallLeaves
<1>4. CASE t = Pool
  <2>1. \/ method = "LoadOne" /\ Object(t) = "ctrl" /\ call[t].command = "COMMAND"
        \/ method = "StartOne" /\ Object(t) = "ctrl"
        \/ method = "StateAll" /\ Object(t) = "stop" /\ call[t].command = "RUN_STATUS"
    BY <1>2, <1>4, CalmCaller, PoolThreads DEF Makes
  <2> QED BY <1>1, <1>2, <1>3, <1>4, <2>1, PoolThreads DEF Entered
<1>5. CASE t \in Acqs
  <2>1. /\ Object(t) = "ctrl"
        /\ loop[t] = "fetching" \/ (loop[t] = "closing" /\ call[t].command = "CLOSE")
    BY <1>2, <1>5, CalmCaller, PoolThreads DEF Makes
  <2> QED BY <1>1, <1>2, <1>3, <1>5, <2>1, PoolThreads DEF Entered
<1> QED BY <1>4, <1>5, PoolThreads

\* What a call does to the TCP connections of the simulator.
LEMMA CallServers ==
  ASSUME SharedInv, NEW t \in Threads, CallStep(t)
  PROVE  /\ UNCHANGED <<acquisition, foreign>>
         /\ \A x \in Sockets :
              \/ request'[x] = request[x] /\ handler'[x] = handler[x]
              \/ request'[x] = None /\ handler'[x] = "open"
              \/ /\ request'[x] = call[t] /\ handler'[x] = handler[x]
                 /\ at[t] = "write" /\ x = sock[Object(t)]
<1>1. CASE Connect(t)
  <2>1. PICK s \in Sides(Object(t)) : /\ request' = [request EXCEPT ![s] = None]
                                      /\ handler' = [handler EXCEPT ![s] = "open"]
    BY <1>1, ConnectMakes
  <2>2. UNCHANGED <<acquisition, foreign>>
    BY <1>1 DEF Connect
  <2> QED BY <2>1, <2>2 DEF SharedInv, ThreadsTypeOK
<1>2. CASE Write(t)
  BY <1>2 DEF Write, SharedInv, ThreadsTypeOK
<1>3. CASE ~Connect(t) /\ ~Write(t)
  BY <1>3 DEF CallStep, Assign, SocketGone, TakeFrame, TakeReply,
      UpdateClient, TakeFail, TakeMessage, Takes, TakeEof, CloseTest, CloseClear, serverVars
<1> QED BY <1>1, <1>2, <1>3

\* No call is a stop.
LEMMA CallUnstopped ==
  ASSUME PoolInv, OneAtATime, Unstopped, NEW t \in Threads, CallStep(t)
  PROVE  Unstopped'
<1>1. call[t].command # "STOP"
  BY CalmCaller, CallEffect DEF Makes, PoolInv
<1>2. SharedInv
  BY DEF PoolInv
<1> QED BY <1>1, <1>2, CallServers DEF Unstopped, Begun

\* A call keeps the handlers of the control Connection, unless it is the pool's.
LEMMA CallRunning ==
  ASSUME SharedInv, NEW t \in Threads, CallStep(t), NEW x \in Sockets, Runs(x)'
  PROVE  \/ Runs(x) /\ handler'[x] = handler[x]
         \/ at[t] = "write" /\ call[t].command = "START" /\ x = sock[Object(t)]
  BY CallServers DEF Runs, Underway

\* The acquisition that the thread of the pool reads.
LEMMA ReadsWanted ==
  ASSUME PoolInv, Delivered, CalmNow, NEW a \in Acqs, a = acq, CallStep(a), UNCHANGED <<acq, loop>>,
         Runs(reader["ctrl"]), loop[a] \in {"fetching", "closing"}
  PROVE  /\ reader'["ctrl"] = reader["ctrl"]
         /\ ~Flowing(a)' => \/ ~Flowing(a)
                            \/ handler[reader["ctrl"]] = "ending"
<1>0. /\ a \in Threads /\ at[a] # "idle" /\ SharedInv /\ OwnInv /\ LoopCalls(a) /\ LoopBlock(a)
      /\ crossed = {} /\ crossed' = {}
  BY CallEffect, CalmUncrossed, PoolThreads DEF PoolInv, CalmNow
<1>1. CASE loop[a] = "closing"
  <2>1. call[a].command = "CLOSE"
    BY <1>0, <1>1 DEF LoopCalls, Ask
  <2>2. at[a] \in {"test", "clear"}
    BY <1>0, <2>1 DEF SharedInv, Placed, Closing, ThreadsTypeOK, Places
  <2> QED BY <1>1, <2>2 DEF CallStep, Connect, Assign, Write, SocketGone, TakeFrame, TakeReply,
      UpdateClient, TakeFail, TakeMessage, Takes, TakeEof, CloseTest,
        CloseClear, Flowing
<1>2. CASE loop[a] = "fetching"
  <2>1. PICK tag \in Tags : tag = a
    BY <1>0, PoolThreads
  <2>2. /\ at[a] = "reading" /\ call[a] = Ask("ctrl", "FRAME", tag) /\ Held(a, tag)
        /\ waits[a] = reader["ctrl"] /\ Flowing(a)
    BY <1>0, <1>2, <2>1 DEF LoopCalls, LoopBlock, Blocked, CalmNow, Whole, Flowing
  <2>3. PICK s \in Sockets : s = reader["ctrl"]
    BY <2>2, PoolThreads DEF Held
  <2>4. PICK got \in Nat : got = Got(a)
    BY <1>0 DEF Got, Kept, PoolInv, PoolTypes
  <2>5. FlowOf(s, got) /\ handler[s] \notin {"closed", "hung"}
    BY <1>0, <2>2, <2>3, <2>4 DEF Delivered, Delivers, Runs, Underway, CalmNow, Unstopped, Begun
  <2>6. /\ reader'["ctrl"] = reader["ctrl"]
        /\ at'[a] = "idle" /\ replies[s] # <<>> /\ replies'[s] = Tail(replies[s])
        /\ UNCHANGED <<request, handler, left>> /\ result'[a] = Head(replies[s]).what
    BY <1>0, <2>2, <2>3, <2>5, FrameCall
  <2>7. result'[a] # "frame" => handler[s] \notin {"open", "spawned", "serving"}
    BY <1>0, <2>5, <2>6, FlowTaken
  <2> QED BY <1>2, <2>3, <2>5, <2>6, <2>7 DEF Flowing, SharedInv, ThreadsTypeOK, Handlers, Runs, Underway
<1> QED BY <1>1, <1>2

\* A call asks for an acquisition only where the pool starts one.
LEMMA CallWanted ==
  ASSUME PoolInv, Delivered, CalmNow, NEW t \in Threads, Calling(t)
  PROVE  Wanted'
<1>0. /\ CallStep(t) /\ UNCHANGED <<method, loop, acq, phase, reported>> /\ SharedInv /\ OwnInv
      /\ OneAtATime /\ Wanted /\ Phases /\ PoolBlock /\ crossed = {} /\ crossed' = {}
  BY CalmUncrossed DEF Calling, sardanaVars, poolVars, loopVars, PoolInv, CalmNow
<1>1. /\ at[t] # "idle"
      /\ \A u \in Threads \ {t} : at'[u] = at[u] /\ result'[u] = result[u]
  BY <1>0, CallEffect
<1>2. SUFFICES ASSUME NEW x \in Sockets, Runs(x)'
               PROVE  /\ x = reader'["ctrl"]
                      /\ (method = "StartOne" /\ at'[Pool] = "idle") \/ (phase = "started" /\ reported # "On")
                      /\ phase = "started" /\ ~Flowing(acq)' => handler'[x] = "ending"
  BY <1>0 DEF Wanted, Flowing
<1>3. CASE at[t] = "write" /\ call[t].command = "START" /\ x = sock[Object(t)]
  <2>1. t = Pool /\ method = "StartOne" /\ phase = "loaded" /\ Makes(t, "ctrl", "START", acq)
    BY <1>0, <1>3, CalmCaller DEF Makes
  <2>2. PICK tag \in Tags : tag = acq
    BY <1>0, <2>1, PoolThreads DEF Phases, PoolInv, PoolTypes
  <2>3. at'[t] = "idle" /\ sock["ctrl"] = reader["ctrl"] /\ reader'["ctrl"] = reader["ctrl"]
    BY <1>0, <1>3, <2>1, <2>2, StartCall DEF Makes
  <2> QED BY <1>3, <2>1, <2>3 DEF Makes
<1>4. CASE Runs(x) /\ handler'[x] = handler[x]
  <2>1. /\ x = reader["ctrl"]
        /\ (method = "StartOne" /\ at[Pool] = "idle") \/ (phase = "started" /\ reported # "On")
        /\ phase = "started" /\ ~Flowing(acq) => handler[x] = "ending"
    BY <1>0, <1>4 DEF Wanted
  <2>2. CASE t = Pool
    <3>1. Object(t) = "stop" /\ phase = "started" /\ reported # "On" /\ acq \in Threads \ {t}
      BY <1>0, <1>1, <2>1, <2>2, CalmCaller, PoolThreads DEF Makes, Phases, OneAtATime, PoolInv, PoolTypes
    <3>2. reader'["ctrl"] = reader["ctrl"]
      BY <1>0, <3>1, StopSame DEF CtrlSame
    <3> QED BY <1>0, <1>1, <1>4, <2>1, <3>1, <3>2 DEF Flowing
  <2>3. CASE t # Pool
    <3>1. t = acq /\ t \in Acqs /\ loop[t] \in {"fetching", "closing"}
      BY <1>0, <1>1, <2>3, CalmCaller
    <3>2. phase = "started" /\ reported # "On"
      BY <1>0, <2>1, <3>1 DEF Phases
    <3>3. reader'["ctrl"] = reader["ctrl"] /\ (~Flowing(t)' => ~Flowing(t) \/ handler[x] = "ending")
      BY <1>0, <1>4, <2>1, <3>1, ReadsWanted
    <3> QED BY <1>0, <1>4, <2>1, <3>1, <3>2, <3>3 DEF Flowing
  <2> QED BY <2>2, <2>3
<1> QED BY <1>0, <1>2, <1>3, <1>4, CallRunning

\* The answer that a call of the pool takes is there to be read.
LEMMA CallIdle ==
  ASSUME SharedInv, OwnInv, crossed = {}, Pool \in Threads, CallStep(Pool),
         Makes(Pool, "stop", "RUN_STATUS", Pool), SaidIdle'
  PROVE  SaidIdle
<1>0. /\ Own(Pool) /\ at[Pool] # "idle" /\ Object(Pool) = "stop" /\ call[Pool].command = "RUN_STATUS"
      /\ at \in [Threads -> Places] /\ result \in [Threads -> Results] /\ waits \in [Threads -> Sockets \cup {None}]
      /\ replies \in [Sockets -> Seq(Messages)]
  BY CallEffect DEF OwnInv, Makes, SharedInv, ThreadsTypeOK
<1>1. CASE Connect(Pool) \/ Assign(Pool) \/ SocketGone(Pool)
  BY <1>0, <1>1 DEF Connect, Assign, SocketGone, Goes, SaidIdle, Own
<1>2. CASE Write(Pool)
  <2>1. replies[reader["stop"]] = <<>>
    BY <1>0, <1>2 DEF Write, Own, Fresh
  <2>2. at'[Pool] = "reading" /\ waits'[Pool] = reader["stop"] /\ replies' = replies
    BY <1>0, <1>2 DEF Write, Goes
  <2> QED BY <2>1, <2>2 DEF SaidIdle
<1>3. CASE Reads(Pool)
  <2>1. PICK what \in Results :
          /\ at[Pool] = "reading" /\ Takes(Pool, what)
          /\ \/ at'[Pool] = "test" /\ result'[Pool] = what
             \/ at'[Pool] = "message" /\ result'[Pool] = result[Pool]
    BY <1>0, <1>3, ReadsStep
  <2>2. replies[waits[Pool]] # <<>> /\ replies[waits[Pool]] \in Seq(Messages)
    BY <2>1, TakesEffect
  <2>3. what = replies[waits[Pool]][1].what
    BY <1>0, <2>1, <2>2, TakesOwn
  <2> QED BY <2>1, <2>2, <2>3 DEF SaidIdle
<1>4. CASE TakeEof(Pool) \/ TakeMessage(Pool)
  BY <1>0, <1>4 DEF TakeEof, TakeMessage, Goes, SaidIdle
<1>5. CASE CloseTest(Pool) \/ CloseClear(Pool)
  <2>1. at[Pool] \in {"test", "clear"} /\ result'[Pool] \in {result[Pool], "error"}
    BY <1>0, <1>5 DEF CloseTest, CloseClear
  <2>2. at'[Pool] # "reading"
    BY <1>0, <1>5 DEF CloseTest, CloseClear, Closed, Goes
  <2> QED BY <2>1, <2>2 DEF SaidIdle
<1> QED BY <1>1, <1>2, <1>3, <1>4, <1>5 DEF CallStep, Reads

\* What the pool was told stays true.
LEMMA CallQuiesced ==
  ASSUME PoolInv, Delivered, CalmNow, NEW t \in Threads, Calling(t)
  PROVE  Quiesced'
<1>0. /\ CallStep(t) /\ UNCHANGED <<method, phase>> /\ SharedInv /\ OwnInv
      /\ OneAtATime /\ Quiesced /\ Phases /\ crossed = {} /\ at[t] # "idle"
  BY CallEffect DEF Calling, sardanaVars, poolVars, PoolInv, CalmNow
<1>1. SUFFICES ASSUME method = "StateAll", phase = "started", SaidIdle', NEW x \in Sockets, Runs(x)'
               PROVE  FALSE
  BY <1>0 DEF Quiesced
<1>2. acq # None /\ loop[acq] = "over"
  BY <1>0, <1>1 DEF Phases, OneAtATime
<1>3. t = Pool /\ Makes(Pool, "stop", "RUN_STATUS", Pool)
  BY <1>0, <1>1, <1>2, CalmCaller
<1>4. SaidIdle
  BY <1>0, <1>1, <1>3, CallIdle
<1>5. Runs(x)
  BY <1>0, <1>1, <1>3, CallRunning DEF Makes
<1> QED BY <1>0, <1>1, <1>4, <1>5 DEF Quiesced

\* A frame that is taken is not the end of the stream.
LEMMA UncutTaken ==
  ASSUME SharedInv, NEW s \in Sockets, Uncut(s), replies[s] # <<>>, Head(replies[s]).what # "last",
         replies'[s] = Tail(replies[s]), UNCHANGED <<request, handler>>
  PROVE  Uncut(s)'
<1>1. PICK n \in Nat \ {0} : /\ Len(replies[s]) = n /\ Len(replies'[s]) = n - 1
                             /\ \A i \in 1..(n - 1) : replies'[s][i] = replies[s][i + 1]
                             /\ Head(replies[s]) = replies[s][1]
  <2>1. replies[s] \in Seq(Messages)
    BY DEF SharedInv, ThreadsTypeOK
  <2>2. Len(replies[s]) \in Nat \ {0}
    BY <2>1, EmptySeq
  <2> QED BY <2>1, <2>2
<1>2. \A i \in 1..Len(replies'[s]) : replies'[s][i].what # "FAIL"
  BY <1>1 DEF Uncut
<1>3. ASSUME replies[s][n].what = "last" PROVE replies'[s] # <<>> /\ replies'[s][Len(replies'[s])].what = "last"
  <2>1. PICK m \in Nat \ {0} : n = m + 1
    <3>1. n # 1
      BY <1>1, <1>3
    <3> QED BY <3>1
  <2>2. Len(replies'[s]) = m /\ replies'[s][m] = replies[s][n]
    BY <1>1, <2>1
  <2>3. replies'[s] # <<>>
    BY <2>1, <2>2
  <2> QED BY <1>3, <2>2, <2>3
<1> QED BY <1>1, <1>2, <1>3 DEF Uncut

\* Where nothing happens to the control Connection, nothing happens to its stream.
LEMMA SameUncut ==
  ASSUME CtrlSame, reader["ctrl"] \in Sides("ctrl"), Uncut(reader["ctrl"])
  PROVE  Uncut(reader["ctrl"])'
  BY DEF CtrlSame, Uncut

\* The thread of an acquisition reads a stream that nobody cuts.
LEMMA CallWhole ==
  ASSUME PoolInv, Delivered, CalmNow, NEW t \in Threads, Calling(t)
  PROVE  Whole'
<1>0. /\ CallStep(t) /\ UNCHANGED <<method, loop, acq, phase>> /\ SharedInv /\ OwnInv
      /\ OneAtATime /\ Whole /\ Phases /\ PoolBlock /\ PoolCalls /\ crossed = {} /\ crossed' = {}
      /\ acq \in Acqs \cup {None} /\ None \notin Acqs
  BY CalmUncrossed, PoolThreads DEF Calling, sardanaVars, poolVars, loopVars, PoolInv, CalmNow, PoolTypes
<1>1. /\ at[t] # "idle"
      /\ \A u \in Threads \ {t} : at'[u] = at[u] /\ result'[u] = result[u]
  BY <1>0, CallEffect
<1>2. CASE t = Pool
  <2>1. ASSUME method = "StartOne", at'[Pool] = "idle" PROVE Uncut(reader["ctrl"])'
    <3>1. PICK tag \in Tags : tag = acq
      BY <1>0, <2>1, PoolThreads DEF Phases
    <3>2. call[t] = Ask("ctrl", "START", tag) /\ at[t] \in {"connect", "assign", "write"}
      BY <1>0, <1>1, <1>2, <2>1, <3>1 DEF PoolCalls, PoolBlock
    <3>3. /\ request'[reader["ctrl"]] = call[t] /\ handler'[reader["ctrl"]] = "open"
          /\ FlowOf(reader["ctrl"], 0)' /\ reader'["ctrl"] = reader["ctrl"]
      BY <1>0, <1>2, <2>1, <3>1, <3>2, StartCall
    <3>4. call[t] # None
      BY <1>0, <1>1, NoneAssumption DEF SharedInv, Placed
    <3> QED BY <3>3, <3>4 DEF FlowOf, Uncut
  <2>2. ASSUME NEW a \in Acqs, Flowing(a) PROVE Uncut(reader["ctrl"])'
    <3>1. Uncut(reader["ctrl"]) /\ "ctrl" \in inside[a] /\ reader["ctrl"] \in Sides("ctrl")
      BY <1>0, <2>2, FlowingHeld DEF Whole
    <3>2. CtrlSame
      BY <1>0, <1>2, <3>1, AloneInBlock, StopSame, PoolThreads
    <3> QED BY <3>1, <3>2, SameUncut
  <2>3. \A a \in Acqs : at'[a] = at[a] /\ result'[a] = result[a] /\ (Flowing(a)' <=> Flowing(a))
    BY <1>0, <1>1, <1>2, PoolThreads DEF Flowing
  <2> QED BY <1>0, <1>2, <2>1, <2>2, <2>3 DEF Whole
<1>3. CASE t # Pool
  <2>1. t \in Acqs /\ t = acq /\ loop[t] \in {"fetching", "closing"} /\ method # "StartOne"
    BY <1>0, <1>1, <1>3, CalmCaller DEF Phases
  <2>2. \A a \in Acqs \ {t} : ~Flowing(a)' /\ loop'[a] # "fetching"
    BY <1>0, <2>1 DEF OneAtATime, Flowing
  <2>3. CASE loop[t] = "closing"
    BY <1>0, <2>1, <2>2, <2>3 DEF Whole, Flowing
  <2>4. CASE loop[t] = "fetching"
    <3>1. PICK tag \in Tags : tag = t
      BY PoolThreads
    <3>2. /\ at[t] = "reading" /\ call[t] = Ask("ctrl", "FRAME", tag) /\ Held(t, tag)
          /\ waits[t] = reader["ctrl"] /\ Flowing(t) /\ Uncut(reader["ctrl"])
      BY <1>0, <1>1, <2>1, <2>4, <3>1 DEF PoolInv, LoopCalls, LoopBlock, Blocked, Whole, Flowing
    <3>3. PICK s \in Sockets : s = reader["ctrl"]
      BY <3>2, PoolThreads DEF Held
    <3>4. PICK got \in Nat : got = Got(t)
      BY <2>1 DEF Got, Kept, PoolInv, PoolTypes
    <3>5. FlowOf(s, got)
      BY <1>0, <2>1, <3>2, <3>3, <3>4 DEF Delivered, Delivers
    <3>6. /\ reader'["ctrl"] = reader["ctrl"]
          /\ at'[t] = "idle" /\ replies[s] # <<>> /\ replies'[s] = Tail(replies[s])
          /\ UNCHANGED <<request, handler, left>> /\ result'[t] = Head(replies[s]).what
      BY <1>0, <3>1, <3>2, <3>3, FrameCall DEF Uncut
    <3>7. Head(replies[s]).what \in {"frame", "last"}
      <4>1. Head(replies[s]).what \in {"frame", "last", "FAIL"}
        BY <1>0, <3>5, <3>6, FlowTaken
      <4>2. replies[s] \in Seq(Messages) /\ Len(replies[s]) \in Nat \ {0}
        BY <1>0, <3>6, EmptySeq DEF SharedInv, ThreadsTypeOK
      <4>3. Head(replies[s]) = replies[s][1] /\ 1 \in 1..Len(replies[s])
        BY <4>2
      <4> QED BY <3>2, <3>3, <4>1, <4>3 DEF Uncut
    <3>8. Flowing(t)' => Uncut(reader["ctrl"])'
      <4>1. SUFFICES ASSUME Head(replies[s]).what = "frame" PROVE Uncut(reader["ctrl"])'
        BY <1>0, <2>4, <3>6 DEF Flowing
      <4>2. Uncut(s)'
        BY <1>0, <3>2, <3>3, <3>6, <4>1, UncutTaken
      <4> QED BY <3>3, <3>6, <4>2 DEF Uncut
    <3> QED BY <1>0, <2>1, <2>2, <3>6, <3>7, <3>8 DEF Whole
  <2> QED BY <2>1, <2>3, <2>4
<1> QED BY <1>2, <1>3

\* The simulator starts and revives no acquisition.
LEMMA ServerRunning ==
  ASSUME SharedInv, NEW s \in Sockets, ServerStep(s), NEW x \in Sockets, Runs(x)'
  PROVE  Runs(x) /\ (handler[x] = "ending" => handler'[x] = "ending")
<1>1. CASE Elsewhere(x)
  BY <1>1 DEF Elsewhere, Runs, Underway, Killed
<1>2. CASE ServerStep(x)
  BY <1>2 DEF ServerStep, Serve, ServeCommand, ServeTimeLeft, ServeRunStatus, ServeStart, ServeStop,
     RunAcquisition, Produce, LoseClient, EndAcquisition, Asked, HangUp, Runs, Underway, Killed, SharedInv,
     ThreadsTypeOK, Served, Begun
<1> QED BY <1>1, <1>2, ServerEffect DEF ServerFx

\* A handler leaves the others alone where nobody stops and there is one acquisition.
LEMMA ServerAlone ==
  ASSUME SharedInv, Unstopped, NEW s \in Sockets, ServerStep(s), NEW x \in Sockets \ {s}
  PROVE  request'[x] = request[x] /\ replies'[x] = replies[x] /\ handler'[x] = handler[x]
<1>1. request'[x] = request[x] /\ replies'[x] = replies[x]
  BY ServerEffect DEF ServerFx, Elsewhere
<1>2. ~ServeStop(s)
  BY DEF ServeStop, Asked, Unstopped
<1>3. EndAcquisition(s) => handler'[x] = handler[x]
  BY DEF EndAcquisition, Unstopped, Begun, SharedInv, ThreadsTypeOK
<1> QED BY <1>1, <1>2, <1>3 DEF ServerStep, Serve, ServeCommand, ServeTimeLeft, ServeRunStatus, ServeStart,
     RunAcquisition, Produce, LoseClient, HangUp, SharedInv, ThreadsTypeOK

\* The detector gets one acquisition at a time, and no handler hangs.
LEMMA ServerUnstopped ==
  ASSUME SharedInv, Unstopped, Wanted, NEW s \in Sockets, ServerStep(s)
  PROVE  Unstopped'
<1>1. SUFFICES ASSUME NEW x \in Sockets
               PROVE  /\ request'[x] # None => request'[x].command # "STOP"
                      /\ handler'[x] \in Begun => x = acquisition' /\ handler'[x] # "hung"
  BY DEF Unstopped
<1>2. request'[x] # None => request'[x].command # "STOP"
  BY ServerEffect DEF ServerFx, Elsewhere, Onwards, Unstopped
<1>3. CASE ServeStart(s)
  <2>1. /\ Runs(s) /\ acquisition' = s /\ handler' = [handler EXCEPT ![s] = "spawned"]
        /\ handler \in [Sockets -> Handlers]
    BY <1>3 DEF ServeStart, Asked, Runs, Underway, SharedInv, ThreadsTypeOK
  <2>2. handler'[x] \in Begun => x = s
    BY <2>1 DEF Wanted, Runs, Underway, Begun
  <2> QED BY <1>2, <2>1, <2>2
<1>4. CASE EndAcquisition(s)
  <2>1. acquisition = s /\ handler' = [handler EXCEPT ![s] = "closed"]
    BY <1>4 DEF EndAcquisition, Unstopped, Begun
  <2>2. handler'[x] \notin Begun
    BY <2>1 DEF Unstopped, Begun, SharedInv, ThreadsTypeOK
  <2> QED BY <1>2, <2>2
<1>5. CASE RunAcquisition(s) \/ Produce(s) \/ LoseClient(s)
  <2>1. acquisition' = acquisition /\ handler[s] \in Begun /\ handler'[s] \in {"serving", "ending"}
    BY <1>5 DEF RunAcquisition, Produce, LoseClient, Begun, SharedInv, ThreadsTypeOK
  <2>2. CASE x = s
    BY <1>2, <2>1, <2>2 DEF Unstopped
  <2>3. CASE x # s
    BY <1>2, <2>1, <2>3, ServerAlone DEF Unstopped
  <2> QED BY <2>2, <2>3
<1>6. CASE ServeCommand(s) \/ ServeTimeLeft(s) \/ ServeRunStatus(s)
  <2>1. acquisition' = acquisition /\ handler' = [handler EXCEPT ![s] = "closed"]
    BY <1>6 DEF ServeCommand, ServeTimeLeft, ServeRunStatus, HangUp
  <2> QED BY <1>2, <2>1 DEF Unstopped, Begun, SharedInv, ThreadsTypeOK
<1>7. ~ServeStop(s)
  BY DEF ServeStop, Asked, Unstopped
<1> QED BY <1>3, <1>4, <1>5, <1>6, <1>7 DEF ServerStep, Serve

\* Where the reader is there, the stream of an acquisition ends with its last frame.
LEMMA ServerUncut ==
  ASSUME SharedInv, Unstopped, NEW s \in Sockets, ServerStep(s), NEW r \in Sockets, NEW got \in Nat,
         FlowOf(r, got), Connected(r), Uncut(r)
  PROVE  Uncut(r)'
<1>1. CASE r # s
  BY <1>1, ServerAlone DEF Uncut
<1>2. CASE r = s
  <2>0. replies[s] \in Seq(Messages) /\ handler \in [Sockets -> Handlers] /\ replies \in [Sockets -> Seq(Messages)]
    BY DEF SharedInv, ThreadsTypeOK
  <2>1. PICK n \in Nat : n = Len(replies[s])
    BY <2>0
  <2>2. CASE Serve(s)
    <3>1. ServeStart(s)
      BY <1>2, <2>2 DEF Serve, ServeCommand, ServeTimeLeft, ServeRunStatus, ServeStop, Asked, FlowOf
    <3>2. handler'[s] = "spawned" /\ replies' = replies
      BY <2>0, <3>1 DEF ServeStart
    <3> QED BY <1>2, <3>2 DEF Uncut
  <2>3. CASE RunAcquisition(s)
    <3>1. handler'[s] = "serving" /\ replies' = replies
      BY <2>0, <2>3 DEF RunAcquisition
    <3> QED BY <1>2, <3>1 DEF Uncut
  <2>4. CASE Produce(s)
    <3>1. PICK what \in {"frame", "last"} :
            /\ replies'[s] = Append(replies[s], [tag |-> Tag(s), what |-> what])
            /\ handler'[s] = IF what = "last" THEN "ending" ELSE "serving"
      <4>1. PICK what \in {"frame", "last"} : what = IF left[s] = 1 THEN "last" ELSE "frame"
        OBVIOUS
      <4>2. Says(s, Tag(s), what) /\ handler' = IF what = "last" THEN [handler EXCEPT ![s] = "ending"] ELSE handler
        BY <2>4, <4>1 DEF Produce
      <4>3. handler[s] = "serving"
        BY <2>4 DEF Produce
      <4> QED BY <1>2, <2>0, <4>2, <4>3 DEF Says
    <3>2. PICK m \in Messages : m = [tag |-> Tag(s), what |-> what]
      BY <2>4 DEF Produce, SharedInv, Served, Begun, Calls, Messages, Answers, Tag
    <3>3. /\ Len(replies'[s]) = n + 1 /\ replies'[s][n + 1] = m /\ m.what = what
          /\ \A i \in 1..n : replies'[s][i] = replies[s][i]
      BY <2>0, <2>1, <3>1, <3>2
    <3>4. \A i \in 1..Len(replies'[s]) : replies'[s][i].what # "FAIL"
      <4>1. \A i \in 1..(n + 1) : i \in 1..n \/ i = n + 1
        OBVIOUS
      <4> QED BY <1>2, <2>1, <3>3, <4>1 DEF Uncut
    <3>5. replies'[s] # <<>>
      <4>1. n + 1 # 0 /\ Len(<<>>) = 0
        OBVIOUS
      <4> QED BY <3>3, <4>1
    <3> QED BY <1>2, <3>1, <3>3, <3>4, <3>5 DEF Uncut
  <2>5. CASE LoseClient(s)
    BY <1>2, <2>5 DEF LoseClient
  <2>6. CASE EndAcquisition(s)
    <3>1. acquisition = s /\ handler[s] = "ending"
      BY <2>6 DEF EndAcquisition, Unstopped, Begun
    <3>2. handler'[s] = "closed" /\ replies' = replies
      BY <2>0, <2>6, <3>1, OneSide DEF EndAcquisition
    <3> QED BY <1>2, <3>1, <3>2 DEF Uncut
  <2> QED BY <2>2, <2>3, <2>4, <2>5, <2>6 DEF ServerStep
<1> QED BY <1>1, <1>2

\* A detector that says it is idle has no acquisition, and none will come of a START.
LEMMA ServerIdle ==
  ASSUME PoolInv, CalmNow, NEW s \in Sockets, ServerStep(s), method = "StateAll", phase = "started",
         SaidIdle', UNCHANGED clientVars
  PROVE  SaidIdle \/ \A x \in Sockets : ~Runs(x)
<1>0. /\ at' = at /\ waits' = waits /\ result' = result /\ crossed = {} /\ Unstopped /\ Wanted
      /\ SharedInv /\ OwnInv /\ Pool \in Threads /\ OneAtATime
      /\ replies \in [Sockets -> Seq(Messages)]
  BY PoolThreads DEF clientVars, CalmNow, PoolInv, SharedInv, ThreadsTypeOK
<1>1. CASE at[Pool] # "reading"
  BY <1>0, <1>1 DEF SaidIdle
<1>2. CASE at[Pool] = "reading"
  <2>1. Makes(Pool, "stop", "RUN_STATUS", Pool)
    BY <1>0, <1>2, CalmCaller
  <2>2. PICK w \in Sockets : w = waits[Pool]
    BY <1>0, <1>2, <2>1, OneSide DEF SharedInv, Placed, Makes, Objects
  <2>3. Answering(w, call[Pool]) /\ replies'[w] # <<>> /\ replies'[w][1].what = "IDLE"
    BY <1>0, <1>2, <2>1, <2>2 DEF OwnInv, Own, Answered, Makes, SaidIdle
  <2>4. CASE replies'[w] = replies[w]
    BY <1>2, <2>2, <2>3, <2>4 DEF SaidIdle
  <2>5. CASE replies'[w] # replies[w]
    <3>1. s = w /\ handler[w] # "closed"
      BY <1>0, <2>5, ServerEffect DEF ServerFx, Elsewhere, Onwards
    <3>2. request[s].command = "RUN_STATUS" /\ handler[s] = "open" /\ replies[s] = <<>>
      BY <2>1, <2>3, <3>1 DEF Answering, Makes
    <3>3. ServeRunStatus(s)
      BY <3>2 DEF ServerStep, Serve, ServeCommand, ServeTimeLeft, ServeStart, ServeStop,
         Asked, RunAcquisition, Produce, LoseClient, EndAcquisition
    <3>4. acquisition = None
      <4>1. SUFFICES ASSUME acquisition # None PROVE FALSE
        OBVIOUS
      <4>2. PICK m : m = [tag |-> Tag(s), what |-> "RUNNING"]
        OBVIOUS
      <4>3. replies'[s] = Append(replies[s], m)
        BY <1>0, <2>5, <3>1, <3>3, <4>1, <4>2 DEF ServeRunStatus, Says
      <4>4. m \in Messages
        BY <1>0, <3>1, <4>2, ServerEffect DEF ServerFx, Onwards, Calls, Messages, Answers, Tag
      <4>5. replies'[s][1] = m
        BY <3>2, <4>3, <4>4
      <4> QED BY <2>3, <3>1, <4>2, <4>5
    <3>5. ~Flowing(acq)
      BY <1>0 DEF PoolInv, Phases, OneAtATime, Flowing
    <3> QED BY <1>0, <3>4, <3>5, OneSide DEF Wanted, Unstopped, Begun
  <2> QED BY <2>4, <2>5
<1> QED BY <1>1, <1>2

\* The simulator serves the pool's acquisition to its end.
LEMMA ServerCalm ==
  ASSUME PoolInv, Delivered, CalmNow, NEW s \in Sockets, Serving(s)
  PROVE  CalmNow'
<1>1. /\ ServerStep(s) /\ UNCHANGED sardanaVars /\ UNCHANGED clientVars /\ SharedInv
      /\ crossed = {} /\ raised = {} /\ OneAtATime /\ Entered /\ Unstopped /\ Wanted /\ Quiesced /\ Whole
  BY ServerTouches DEF Serving, PoolInv, CalmNow
<1>2. /\ UNCHANGED <<reader, at, waits, result, inside, crossed>>
      /\ UNCHANGED <<acq, method, phase, reported, loop, failed, raised>>
  BY <1>1 DEF clientVars, sardanaVars, poolVars, loopVars
<1>3. OneAtATime' /\ Entered' /\ (\A a : Flowing(a)' <=> Flowing(a))
  BY <1>1, <1>2 DEF OneAtATime, Entered, Flowing
<1>4. Unstopped'
  BY <1>1, ServerUnstopped
<1>5. Wanted'
  <2>1. SUFFICES ASSUME NEW x \in Sockets, Runs(x)'
                 PROVE  /\ x = reader["ctrl"]
                        /\ (method = "StartOne" /\ at[Pool] = "idle") \/ (phase = "started" /\ reported # "On")
                        /\ phase = "started" /\ ~Flowing(acq) => handler'[x] = "ending"
    BY <1>2, <1>3 DEF Wanted, Flowing
  <2>2. Runs(x) /\ (handler[x] = "ending" => handler'[x] = "ending")
    BY <1>1, <2>1, ServerRunning
  <2> QED BY <1>1, <2>2 DEF Wanted
<1>6. Quiesced'
  <2>1. SUFFICES ASSUME method = "StateAll", phase = "started", SaidIdle', NEW x \in Sockets, Runs(x)'
                 PROVE  FALSE
    BY <1>2 DEF Quiesced
  <2>2. Runs(x)
    BY <1>1, <2>1, ServerRunning
  <2> QED BY <1>1, <2>1, <2>2, ServerIdle DEF Quiesced
<1>7. Whole'
  <2>1. ASSUME reader["ctrl"] \in Sides("ctrl"), NEW got \in Nat, FlowOf(reader["ctrl"], got),
               Uncut(reader["ctrl"])
        PROVE  Uncut(reader["ctrl"])'
    <3>1. PICK r \in Sockets : r = reader["ctrl"]
      BY <2>1, PoolThreads
    <3>2. Connected(r)
      BY <3>1, PoolThreads DEF Connected
    <3>3. Uncut(r)'
      BY <1>1, <2>1, <3>1, <3>2, ServerUncut
    <3> QED BY <1>2, <3>1, <3>3 DEF Uncut
  <2>2. ASSUME method = "StartOne", at[Pool] = "idle" PROVE Uncut(reader["ctrl"])'
    <3>1. reader["ctrl"] \in Sides("ctrl") /\ FlowOf(reader["ctrl"], 0) /\ Uncut(reader["ctrl"])
      BY <1>1, <2>2 DEF PoolInv, PoolBlock, Held, Delivered, Whole
    <3> QED BY <2>1, <3>1
  <2>3. ASSUME NEW a \in Acqs, Flowing(a) PROVE Uncut(reader["ctrl"])'
    <3>1. PICK got \in Nat : got = Got(a)
      BY DEF Got, Kept, PoolInv, PoolTypes
    <3>2. reader["ctrl"] \in Sides("ctrl") /\ FlowOf(reader["ctrl"], got) /\ Uncut(reader["ctrl"])
      BY <1>1, <2>3, <3>1, FlowingHeld DEF Delivered, Delivers, Whole
    <3> QED BY <2>1, <3>2
  <2> QED BY <1>1, <1>2, <1>3, <2>2, <2>3 DEF Whole
<1> QED BY <1>1, <1>2, <1>3, <1>4, <1>5, <1>6, <1>7 DEF CalmNow

\* The call of a thread.
LEMMA CallCalm ==
  ASSUME PoolInv, Delivered, CalmNow, NEW t \in Threads, Calling(t)
  PROVE  CalmNow'
<1>1. /\ CallStep(t) /\ UNCHANGED sardanaVars
      /\ crossed = {} /\ raised = {} /\ OneAtATime /\ Entered /\ Unstopped
  BY DEF Calling, CalmNow
<1>2. crossed' = {} /\ raised' = {} /\ OneAtATime'
  BY <1>1, CalmUncrossed DEF sardanaVars, poolVars, loopVars, OneAtATime
<1>3. Entered' /\ Unstopped'
  BY <1>1, CallEnters, CallUnstopped
<1> QED BY <1>2, <1>3, CallWanted, CallQuiesced, CallWhole DEF CalmNow

\* Where the simulator is left alone, and the pool is where it was.
LEMMA SameServers ==
  ASSUME CalmNow, UNCHANGED <<reader, request, replies, handler, acquisition, crossed>>
  PROVE  /\ crossed' = {} /\ Unstopped'
         /\ \A x \in Sockets : Runs(x)' <=> Runs(x)
         /\ Uncut(reader["ctrl"]) <=> Uncut(reader["ctrl"])'
  BY DEF CalmNow, Unstopped, Runs, Underway, Uncut

\* The thread of an acquisition fetches frames, and then closes its Connection.
LEMMA LoopCalm ==
  ASSUME PoolInv, Delivered, CalmNow, NEW a \in Acqs, LoopStep(a)
  PROVE  CalmNow'
<1>0. /\ PoolTypes /\ Phases /\ OneAtATime /\ Entered /\ Wanted /\ Quiesced /\ Whole /\ raised = {} /\ crossed = {}
      /\ Pool \in Threads \ {a} /\ SharedInv /\ OwnInv /\ a \in Threads
  BY PoolThreads DEF PoolInv, CalmNow
<1>1. /\ UNCHANGED <<reader, inside, crossed, request, replies, handler, acquisition>>
      /\ \A u \in Threads \ {a} : at'[u] = at[u] /\ result'[u] = result[u] /\ waits'[u] = waits[u]
      /\ LoopFetched(a) \/ LoopEnds(a) => at'[a] = at[a] /\ result'[a] = result[a]
  BY LoopLeavesBe
<1>2. /\ UNCHANGED <<acq, method, phase, reported, raised>> /\ at[a] = "idle"
      /\ loop \in [Acqs -> Loops] /\ \A b \in Acqs \ {a} : failed'[b] = failed[b]
  BY <1>0, LoopMoves DEF poolVars, PoolTypes
<1>3. \/ loop[a] = "next" /\ loop' = [loop EXCEPT ![a] = "fetching"] /\ at'[a] = "reading" /\ failed' = failed
      \/ /\ loop[a] = "fetching" /\ at'[a] = "idle" /\ result'[a] = result[a] /\ failed' = failed
         /\ loop' = [loop EXCEPT ![a] = IF result[a] = "frame" THEN "next" ELSE "finished"]
      \/ loop[a] = "finished" /\ loop' = [loop EXCEPT ![a] = "closing"] /\ at'[a] # "idle" /\ failed' = failed
      \/ loop[a] = "closing" /\ loop' = [loop EXCEPT ![a] = "over"] /\ ~failed'[a]
  <2>1. CASE LoopFetches(a)
    <3>1. at'[a] = "reading"
      BY <1>0, <2>1 DEF LoopFetches, Begin, Goes, SharedInv, ThreadsTypeOK
    <3> QED BY <2>1, <3>1 DEF LoopFetches, At, OnlyLoop
  <2>2. CASE LoopFetched(a)
    BY <1>0, <1>1, <1>2, <2>2 DEF LoopFetched, At, Whole
  <2>3. CASE LoopFinishes(a)
    <3>1. at'[a] = "test"
      BY <1>0, <2>3 DEF LoopFinishes, Begin, Goes, SharedInv, ThreadsTypeOK
    <3> QED BY <2>3, <3>1 DEF LoopFinishes, At, OnlyLoop
  <2>4. CASE LoopEnds(a)
    <3>1. loop[a] = "closing" /\ result[a] # "error"
      BY <1>0, <2>4 DEF LoopEnds, OneAtATime, OwnInv
    <3>2. failed'[a] = FALSE
      BY <1>0, <2>4, <3>1 DEF LoopEnds, ErrorQueued, PoolTypes
    <3> QED BY <2>4, <3>1, <3>2 DEF LoopEnds
  <2> QED BY <1>0, <2>1, <2>2, <2>3, <2>4 DEF LoopStep, LoopStops, LoopLeaves, OneAtATime
<1>4. a = acq /\ \A b \in Acqs \ {a} : loop'[b] = loop[b] /\ (Flowing(b)' <=> Flowing(b))
  <2>1. a = acq
    BY <1>0, <1>3 DEF OneAtATime
  <2>2. ASSUME NEW b \in Acqs \ {a} PROVE loop'[b] = loop[b] /\ at'[b] = at[b] /\ result'[b] = result[b]
    BY <1>1, <1>2, <1>3, PoolThreads
  <2> QED BY <2>1, <2>2 DEF Flowing
<1>5. Flowing(a)' <=> Flowing(a)
  BY <1>0, <1>2, <1>3 DEF Flowing, Whole
<1>6. OneAtATime'
  <2>1. loop'[a] \in {"next", "fetching", "finished", "closing", "over"} /\ ~failed'[a]
    BY <1>0, <1>2, <1>3 DEF OneAtATime
  <2>2. phase # "free"
    BY <1>0, <1>3, <1>4, PoolThreads DEF OneAtATime
  <2> QED BY <1>0, <1>2, <1>4, <2>1, <2>2 DEF OneAtATime
<1>7. Entered'
  <2>1. "ctrl" \in inside[a] => loop'[a] \in {"next", "fetching", "finished"} \/ (loop'[a] = "closing" /\ at'[a] # "idle")
    BY <1>0, <1>2, <1>3 DEF Entered
  <2>2. \A b \in Acqs \ {a} : at'[b] = at[b]
    BY <1>1, PoolThreads
  <2> QED BY <1>0, <1>1, <1>2, <1>4, <2>1, <2>2 DEF Entered
<1>8. Wanted'
  BY <1>0, <1>1, <1>2, <1>4, <1>5, SameServers DEF Wanted
<1>9. Quiesced'
  BY <1>0, <1>1, <1>2, SameServers DEF Quiesced, SaidIdle
<1>10. Whole'
  <2>1. loop'[a] = "fetching" => at'[a] = "reading"
    BY <1>2, <1>3
  <2>2. ASSUME NEW b \in Acqs \ {a} PROVE loop'[b] = loop[b] /\ at'[b] = at[b] /\ result'[b] = result[b]
    BY <1>1, <1>4, PoolThreads
  <2> QED BY <1>0, <1>1, <1>2, <1>4, <1>5, <2>1, <2>2, SameServers DEF Whole
<1> QED BY <1>0, <1>1, <1>2, <1>6, <1>7, <1>8, <1>9, <1>10, SameServers DEF CalmNow

\* The methods of a pool that neither aborts nor touches a parameter.
LEMMA PoolOneAtATime ==
  ASSUME PoolInv, MethodsSucceed, CalmNow, PoolStep, Calm'
  PROVE  OneAtATime' /\ raised' = {}
<1>0. /\ PoolTypes /\ Phases /\ OneAtATime /\ raised = {} /\ crossed = {} /\ None \notin Acqs
      /\ method # "none" /\ at[Pool] = "idle" => Good \/ (method = "LoadOne" /\ todo = 4)
      /\ acq # None /\ loop[acq] = "bare" => method = "LoadOne"
  BY PoolThreads DEF PoolInv, CalmNow, MethodsSucceed
<1>1. ~AbortOne /\ ~CtrlPar
  <2>1. PICK n \in Nat, m \in Nat : n = spent["aborts"] /\ m = spent["pars"]
    BY <1>0 DEF PoolTypes
  <2>2. AbortOne => spent'["aborts"] = n + 1
    BY <1>0, <2>1 DEF AbortOne, Spend, PoolTypes
  <2>3. CtrlPar => spent'["pars"] = m + 1
    BY <1>0, <2>1 DEF CtrlPar, Spend, PoolTypes
  <2> QED BY <2>1, <2>2, <2>3 DEF Calm
<1>2. ~AbortEnds /\ ~ParSends /\ ~ParEnds
  BY <1>0 DEF AbortEnds, ParSends, ParEnds, In, OneAtATime
<1>3. CASE LoadOne
  <2>1. PICK n \in Acqs : n = acq'
    <3>1. PICK k \in Nat : k = spent["loads"]
      BY <1>0 DEF PoolTypes
    <3>2. acq' = k + 1 /\ k < Loads
      BY <1>0, <1>3, <3>1 DEF LoadOne, Spend, PoolTypes
    <3> QED BY <3>1, <3>2, PoolThreads DEF Acqs
  <2>2. /\ loop' = [loop EXCEPT ![n] = "bare"] /\ method' = "LoadOne" /\ method = "none"
        /\ phase = "free" /\ UNCHANGED <<phase, reported, failed, raised>>
    BY <1>3, <2>1 DEF LoadOne, Free
  <2>3. \A a \in Acqs : loop[a] \in {"absent", "over"}
    BY <1>0, <2>2 DEF OneAtATime
  <2> QED BY <1>0, <2>1, <2>2, <2>3 DEF OneAtATime, PoolTypes
<1>4. CASE LoadEnds
  <2>1. /\ loop' = [loop EXCEPT ![acq] = "ready"] /\ method' = "none" /\ phase' = "loaded"
        /\ UNCHANGED <<acq, reported, failed, raised>> /\ acq \in Acqs
    BY <1>0, <1>4 DEF LoadEnds, In, Idle, Phases, PoolTypes
  <2> QED BY <1>0, <2>1 DEF OneAtATime, PoolTypes
<1>5. CASE StartEnds
  <2>1. /\ loop' = [loop EXCEPT ![acq] = "next"] /\ method' = "none" /\ phase' = "started"
        /\ reported' = "Running" /\ UNCHANGED <<acq, failed, raised>> /\ acq \in Acqs
    BY <1>0, <1>5 DEF StartEnds, In, Idle, Phases, PoolTypes
  <2> QED BY <1>0, <2>1 DEF OneAtATime, PoolTypes
<1>6. CASE LoadSends \/ StartOne \/ StateAsks
  <2>1. /\ UNCHANGED <<acq, loop, phase, reported, failed, raised>>
        /\ \/ method' = method
           \/ method = "none" /\ method' \in {"StartOne", "StateAll"}
    BY <1>6 DEF LoadSends, StartOne, StateAsks, loopVars, Free
  <2> QED BY <1>0, <2>1 DEF OneAtATime
<1>7. CASE StateAlive
  <2>1. /\ UNCHANGED <<acq, loop, phase, failed, method>> /\ reported' = "Running" /\ raised' = raised
    BY <1>0, <1>7 DEF StateAlive, loopVars, Free
  <2> QED BY <1>0, <2>1 DEF OneAtATime
<1>8. CASE StateEnds
  <2>1. /\ UNCHANGED <<acq, loop, phase, failed, raised>> /\ reported' \in {"On", "Running"}
        /\ method' = "none" /\ method = "StateAll"
    BY <1>0, <1>8 DEF StateEnds, loopVars, In, Idle, OneAtATime
  <2> QED BY <1>0, <2>1 DEF OneAtATime
<1>9. CASE ReadOne
  <2>1. /\ UNCHANGED <<acq, loop, phase, failed, method, reported, raised>>
    BY <1>0, <1>9 DEF ReadOne, OneAtATime, PoolTypes
  <2> QED BY <1>0, <2>1 DEF OneAtATime
<1>10. CASE Collected
  <2>1. /\ UNCHANGED <<acq, loop, failed, method, reported, raised>> /\ phase' = "free" /\ method = "none"
        /\ loop[acq] = "over" /\ acq # None
    BY <1>0, <1>10 DEF Collected, loopVars, Free, Phases
  <2> QED BY <1>0, <2>1 DEF OneAtATime
<1> QED BY <1>1, <1>2, <1>3, <1>4, <1>5, <1>6, <1>7, <1>8, <1>9, <1>10 DEF PoolStep, StateAll, PoolReturns

\* Where the pool is in its methods.
LEMMA PoolPaths ==
  ASSUME PoolInv, MethodsSucceed, CalmNow, PoolStep, Calm'
  PROVE  \/ LoadOne \/ StateAlive \/ ReadOne \/ Collected
         \/ at'[Pool] = "connect" /\ (LoadSends \/ StartOne \/ StateAsks)
         \/ method = "LoadOne" /\ LoadEnds /\ phase' = "loaded" /\ method' = "none" /\ at'[Pool] = "idle"
         \/ method = "StartOne" /\ Hands
         \/ /\ method = "StateAll" /\ StateEnds /\ method' = "none" /\ phase' = phase
            /\ reported' = IF result[Pool] = "IDLE" THEN "On" ELSE "Running"
<1>0. /\ PoolTypes /\ Phases /\ OneAtATime /\ crossed = {} /\ SharedInv /\ Pool \in Threads
      /\ method # "none" /\ at[Pool] = "idle" => Good \/ (method = "LoadOne" /\ todo = 4)
  BY PoolThreads DEF PoolInv, CalmNow, MethodsSucceed
<1>1. OneAtATime'
  BY PoolOneAtATime
<1>2. ~AbortOne /\ ~CtrlPar /\ ~AbortEnds /\ ~ParSends /\ ~ParEnds
  BY <1>0, <1>1 DEF AbortOne, CtrlPar, AbortEnds, ParSends, ParEnds, In, OneAtATime
<1>3. ASSUME NEW o, NEW c, NEW tag, Begin(Pool, o, c, tag), c \notin {"FRAME", "CLOSE"}
      PROVE  at'[Pool] = "connect"
  BY <1>0, <1>3 DEF Begin, Goes, SharedInv, ThreadsTypeOK
<1>4. LoadSends \/ StartOne \/ StateAsks => at'[Pool] = "connect"
  BY <1>3 DEF LoadSends, StartOne, StateAsks
<1>5. LoadEnds => method = "LoadOne" /\ phase' = "loaded" /\ method' = "none" /\ at'[Pool] = "idle"
  BY <1>0 DEF LoadEnds, In, Idle, threadVars, clientVars
<1>6. StartEnds => method = "StartOne" /\ Hands
  BY <1>0 DEF StartEnds, In, Idle, Hands
<1>7. StateEnds => /\ method = "StateAll" /\ method' = "none" /\ phase' = phase
                   /\ reported' = IF result[Pool] = "IDLE" THEN "On" ELSE "Running"
  BY <1>0 DEF StateEnds, In, Idle, OneAtATime
<1> QED BY <1>2, <1>4, <1>5, <1>6, <1>7 DEF PoolStep, StateAll, PoolReturns

\* The pool starts the next acquisition when the last one is over.
LEMMA PoolCalm ==
  ASSUME PoolInv, MethodsSucceed, CalmNow, PoolStep, Calm'
  PROVE  CalmNow'
<1>0. /\ PoolTypes /\ Phases /\ OneAtATime /\ Entered /\ Wanted /\ Quiesced /\ Whole /\ crossed = {}
      /\ Pool \notin Acqs /\ Threads = {Pool} \cup Acqs /\ inside \in [Threads -> SUBSET Objects]
  BY PoolThreads DEF PoolInv, CalmNow, SharedInv, ThreadsTypeOK
<1>1. /\ UNCHANGED <<reader, request, replies, handler, acquisition, crossed>> /\ at[Pool] = "idle"
      /\ \A a \in Acqs : at'[a] = at[a] /\ result'[a] = result[a]
  BY HandOver, PoolLeavesBe DEF serverVars
<1>2. OneAtATime' /\ raised' = {}
  BY PoolOneAtATime
<1>3. \A a \in Acqs : \/ loop'[a] = loop[a]
                      \/ loop[a] \in {"absent", "bare"} /\ loop'[a] \in {"bare", "ready"}
                      \/ a = acq /\ Hands
  BY PoolMoves
<1>4. Hands => /\ method = "StartOne" /\ phase = "loaded" /\ method' = "none" /\ phase' = "started"
               /\ reported' = "Running" /\ acq' = acq /\ acq \in Acqs /\ loop' = [loop EXCEPT ![acq] = "next"]
               /\ inside' = [inside EXCEPT ![Pool] = @ \ {"ctrl"}, ![acq] = @ \cup {"ctrl"}]
  BY <1>0 DEF Hands, StartEnds, In, Phases, PoolTypes
<1>5. method = "StartOne" => Hands
  BY <1>0, PoolPaths DEF LoadOne, StateAlive, ReadOne, Collected, LoadSends, StartOne, StateAsks, Free, In
<1>6. ~Hands => \A a \in Acqs : /\ Flowing(a)' <=> Flowing(a)
                                /\ loop'[a] = "fetching" => loop[a] = "fetching"
  BY <1>1, <1>3 DEF Flowing
<1>7. Entered'
  <2>1. CASE Hands
    <3>1. \A a \in Acqs \ {acq} : inside'[a] = inside[a] /\ loop'[a] = loop[a]
      BY <1>0, <1>4, <2>1 DEF PoolTypes
    <3>2. inside'[Pool] = inside[Pool] \ {"ctrl"} /\ inside'[acq] = inside[acq] \cup {"ctrl"} /\ loop'[acq] = "next"
      BY <1>0, <1>4, <2>1 DEF PoolTypes
    <3> QED BY <1>0, <1>1, <3>1, <3>2 DEF Entered
  <2>2. CASE ~Hands
    <3>1. inside' = inside /\ "ctrl" \notin inside[Pool] /\ "stop" \notin inside[Pool]
      BY <1>0, <1>1, <1>5, <2>2, PoolLeavesBe DEF Entered
    <3> QED BY <1>0, <1>1, <1>3, <2>2, <3>1 DEF Entered
  <2> QED BY <2>1, <2>2
<1>8. Wanted'
  <2>1. SUFFICES ASSUME NEW x \in Sockets, Runs(x)
                 PROVE  /\ x = reader["ctrl"]
                        /\ (method' = "StartOne" /\ at'[Pool] = "idle") \/ (phase' = "started" /\ reported' # "On")
                        /\ phase' = "started" /\ ~Flowing(acq)' => handler[x] = "ending"
    BY <1>1, SameServers DEF Wanted, Flowing
  <2>2. /\ x = reader["ctrl"] /\ (method = "StartOne" \/ (phase = "started" /\ reported # "On"))
        /\ phase = "started" /\ ~Flowing(acq) => handler[x] = "ending"
    BY <1>0, <2>1 DEF Wanted
  <2>3. CASE Hands
    <3>1. loop'[acq'] = "next"
      BY <1>0, <1>4, <2>3 DEF PoolTypes
    <3> QED BY <1>4, <2>2, <2>3, <3>1 DEF Flowing
  <2>4. CASE ~Hands
    <3>1. phase = "started" /\ reported # "On" /\ method \in {"none", "StateAll"} /\ acq \in Acqs
      BY <1>0, <1>5, <2>2, <2>4 DEF Phases, OneAtATime, PoolTypes
    <3>2. phase' = "started" /\ reported' # "On" /\ acq' = acq
      <4>1. CASE StateEnds /\ reported' = IF result[Pool] = "IDLE" THEN "On" ELSE "Running"
        <5>1. result[Pool] # "IDLE"
          BY <1>0, <1>1, <2>1, <3>1, <4>1 DEF Quiesced, SaidIdle, StateEnds, In
        <5>2. acq' = acq /\ method = "StateAll" /\ Good
          BY <1>1, <1>0, <3>1, <4>1 DEF StateEnds, In, MethodsSucceed
        <5> QED BY <3>1, <4>1, <5>1, <5>2 DEF StateEnds
      <4>2. CASE StateAlive \/ ReadOne \/ StateAsks
        BY <3>1, <4>2, <1>2 DEF StateAlive, ReadOne, StateAsks, OneAtATime
      <4>3. ~LoadOne /\ ~Collected /\ ~LoadSends /\ ~StartOne /\ ~(method = "LoadOne")
        BY <1>0, <3>1 DEF LoadOne, Collected, LoadSends, StartOne, In
      <4> QED BY <2>4, <4>1, <4>2, <4>3, PoolPaths
    <3> QED BY <1>6, <2>2, <2>4, <3>1, <3>2 DEF Flowing
  <2> QED BY <2>3, <2>4
<1>9. Quiesced'
  <2>1. SUFFICES ASSUME method' = "StateAll" PROVE at'[Pool] = "connect"
    BY DEF Quiesced, SaidIdle
  <2> QED BY <1>4, <2>1, PoolPaths DEF LoadOne, StateAlive, ReadOne, Collected, Free
<1>10. Whole'
  <2>1. CASE Hands
    <3>1. \A a \in Acqs \ {acq} : loop'[a] \in {"absent", "over"} /\ ~Flowing(a)'
      BY <1>0, <1>2, <1>4, <2>1 DEF OneAtATime, Flowing
    <3>2. loop'[acq] = "next" /\ Uncut(reader["ctrl"])
      BY <1>0, <1>1, <1>4, <2>1 DEF Whole, PoolTypes
    <3> QED BY <1>1, <1>4, <2>1, <3>1, <3>2, SameServers DEF Whole
  <2>2. CASE ~Hands
    BY <1>0, <1>1, <1>6, <2>2, SameServers, PoolStarts DEF Whole
  <2> QED BY <2>1, <2>2
<1> QED BY <1>0, <1>1, <1>2, <1>7, <1>8, <1>9, <1>10, SameServers DEF CalmNow

\* Nothing was started yet.
LEMMA InitCalm == SardanaInit => CalmNow
<1> SUFFICES ASSUME SardanaInit PROVE CalmNow
  OBVIOUS
<1>1. /\ \A t \in Threads : inside[t] = {} /\ at[t] = "idle" /\ result[t] = "none"
      /\ \A x \in Sockets : request[x] = None /\ handler[x] = "closed"
      /\ crossed = {} /\ raised = {} /\ method = "none" /\ \A a \in Acqs : loop[a] = "absent" /\ ~failed[a]
      /\ acq = None /\ phase = "free" /\ reported = "On"
  BY DEF SardanaInit, ThreadsInit
<1>2. OneAtATime /\ Entered /\ Unstopped /\ Whole
  BY <1>1, PoolThreads DEF OneAtATime, Entered, Unstopped, Whole, Begun, Flowing
<1>3. Wanted /\ Quiesced
  BY <1>1 DEF Wanted, Quiesced, Runs, Underway
<1> QED BY <1>1, <1>2, <1>3 DEF CalmNow

\* Every step keeps it.
LEMMA CalmNext == SardanaInv /\ CalmInv /\ [SardanaNext]_systemVars => CalmInv'
<1> SUFFICES ASSUME SardanaInv, CalmInv, [SardanaNext]_systemVars, Calm' PROVE CalmNow'
  BY DEF CalmInv
<1>0. PoolInv /\ Delivered /\ MethodsSucceed /\ spent \in [{"loads", "aborts", "pars"} -> Nat] /\ foreign \in Nat
  BY DEF SardanaInv, PoolInv, PoolTypes, SharedInv, ThreadsTypeOK
<1>1. CASE UNCHANGED systemVars
  <2>1. UNCHANGED threadVars /\ UNCHANGED <<poolVars, loopVars>>
    BY <1>1 DEF systemVars, sardanaVars
  <2>2. UNCHANGED <<at, waits, result, reader, inside, crossed, request, replies, handler, acquisition, foreign>>
    BY <1>0, <2>1, Quiet
  <2>3. CalmNow
    BY <2>1, <2>2 DEF CalmInv, Calm, poolVars
  <2> QED BY <2>1, <2>2, <2>3 DEF CalmNow, OneAtATime, Entered, Unstopped, Wanted, Quiesced, Whole, Flowing,
        Runs, Underway, SaidIdle, Uncut, poolVars, loopVars
<1>2. CASE PoolStep
  <2>1. foreign' = foreign
    BY <1>0, <1>2, HandOver, PoolLeavesBe DEF serverVars
  <2>2. /\ spent'["aborts"] = spent["aborts"] \/ spent'["aborts"] = spent["aborts"] + 1
        /\ spent'["pars"] = spent["pars"] \/ spent'["pars"] = spent["pars"] + 1
    BY <1>0, <1>2 DEF PoolStep, StateAll, PoolReturns, LoadOne, StartOne, StateAlive, StateAsks, ReadOne,
       Collected, AbortOne, CtrlPar, LoadSends, LoadEnds, StartEnds, StateEnds, AbortEnds, ParSends, ParEnds, Spend
  <2>3. Calm
    <3>1. PICK n \in Nat, m \in Nat : n = spent["aborts"] /\ m = spent["pars"]
      BY <1>0
    <3> QED BY <2>1, <2>2, <3>1 DEF Calm
  <2> QED BY <1>0, <1>2, <2>3, PoolCalm DEF CalmInv
<1>3. CASE \E a \in Acqs : LoopStep(a)
  <2>1. PICK a \in Acqs : LoopStep(a)
    BY <1>3
  <2>2. UNCHANGED <<spent, foreign>>
    BY <1>0, <2>1, LoopMoves, LoopLeavesBe DEF poolVars
  <2> QED BY <1>0, <2>1, <2>2, LoopCalm DEF CalmInv, Calm
<1>4. CASE \E t \in Threads : Calling(t)
  <2>1. PICK t \in Threads : Calling(t)
    BY <1>4
  <2>2. UNCHANGED <<spent, foreign>>
    BY <1>0, <2>1, CallServers DEF Calling, sardanaVars, poolVars, PoolInv
  <2> QED BY <1>0, <2>1, <2>2, CallCalm DEF CalmInv, Calm
<1>5. CASE \E s \in Sockets : Serving(s)
  <2>1. PICK s \in Sockets : Serving(s)
    BY <1>5
  <2>2. UNCHANGED <<spent, foreign>>
    BY <2>1 DEF Serving, sardanaVars, poolVars, ServerStep, Serve, ServeCommand, ServeTimeLeft,
       ServeRunStatus, ServeStart, ServeStop, RunAcquisition, Produce, LoseClient, EndAcquisition
  <2> QED BY <1>0, <2>1, <2>2, ServerCalm DEF CalmInv, Calm
<1>6. ~Stopped
  <2>1. PICK n \in Nat : n = foreign
    BY <1>0
  <2> QED BY <2>1 DEF Stopped, ForeignStop, Calm
<1> QED BY <1>1, <1>2, <1>3, <1>4, <1>5, <1>6 DEF SardanaNext

-----------------------------------------------------------------------------
(* Theorems *)

\* The inductive invariant.
LEMMA SardanaInvariant == SardanaSpec => []SardanaInv
<1>1. SardanaInit => SardanaInv
  <2> SUFFICES ASSUME SardanaInit PROVE SardanaInv
    OBVIOUS
  <2>1. MethodsSucceed /\ Blamed /\ CutShort
    BY PoolThreads DEF SardanaInit, MethodsSucceed, Blamed, CutShort, Short
  <2> QED BY <2>1, PoolInit, InitDelivered DEF SardanaInv
<1>2. SardanaInv /\ [SardanaNext]_systemVars => SardanaInv'
  BY PoolNext, DeliveredNext, SucceedNext, ShortNext, BlamedNext DEF SardanaInv
<1> QED BY <1>1, <1>2, PTL DEF SardanaSpec

\* The controller's variables keep their types, and no acquisition has more frames
\* than it was asked for as long as nobody else used its Connection.
THEOREM SardanaTypeOKCorrect == SardanaSpec => []SardanaTypeOK
<1>1. SardanaInv => SardanaTypeOK
  BY DEF SardanaInv, PoolInv, SharedInv, PoolTypes, Delivered, Delivers, Kept, SardanaTypeOK
<1> QED BY <1>1, SardanaInvariant, PTL

\* The pool never takes a cut acquisition for a complete one.
THEOREM NeverSilentlyShortCorrect == SardanaSpec => []NeverSilentlyShort
<1>1. SardanaInv => NeverSilentlyShort
  BY DEF SardanaInv, PoolInv, PoolTypes, Phases, Delivered, Delivers, Kept, NeverSilentlyShort
<1> QED BY <1>1, SardanaInvariant, PTL

\* Nothing but ReadOne raises an error: after an abort, or of an acquisition that was cut.
THEOREM RaisesOnlyCutCorrect == SardanaSpec => []RaisesOnlyCut
<1>1. SardanaInv => RaisesOnlyCut
  <2> SUFFICES ASSUME SardanaInv, crossed = {} PROVE RaisesOnlyCut
    BY DEF RaisesOnlyCut
  <2>1. \A a \in Acqs : failed[a] \/ told[a] => read[a] + queued[a] < Frames
    BY DEF SardanaInv, CutShort, Short, Kept
  <2>2. raised \subseteq {"ReadOne"} /\ ("ReadOne" \in raised => spent["aborts"] > 0 \/ \E a \in Acqs : told[a])
    BY DEF SardanaInv, MethodsSucceed, Blamed
  <2> QED BY <2>1, <2>2 DEF RaisesOnlyCut
<1> QED BY <1>1, SardanaInvariant, PTL

\* A pool that neither aborts nor touches a parameter, and whose acquisitions nobody
\* else stops, gets no error, and uses each Connection in one thread at a time.
THEOREM UndisturbedCorrect == SardanaSpec => []Undisturbed
<1>1. SardanaInit => CalmInv
  BY InitCalm DEF CalmInv
<1>2. SardanaInv /\ CalmInv /\ [SardanaNext]_systemVars => CalmInv'
  BY CalmNext
<1>3. CalmInv => Undisturbed
  BY DEF CalmInv, CalmNow, Calm, Undisturbed
<1> QED BY <1>1, <1>2, <1>3, SardanaInvariant, PTL DEF SardanaSpec
=============================================================================
