----------------------------- MODULE LimaProofs -----------------------------
(***************************************************************************)
(* Theorems about the Lima plugin, for any number of acquisitions, of      *)
(* stops, of frames and of foreign stops.  PluginInv is what holds of the  *)
(* plugin whatever its threads do to each other's Connections: the call    *)
(* that each thread makes where it is, and the block that it is in.        *)
(* Settled is what holds of it as long as no two blocks used a Connection  *)
(* at once and no thread took _acq away from stopAcq: only the newest      *)
(* acquisition is under way, and no frame of it is lost.                   *)
(***************************************************************************)
EXTENDS LimaInterface, ClientThreadsProofs

PluginTypes ==
  /\ {acq, acq_thread, target} \subseteq Acqs \cup {None}
  /\ status \in Statuses /\ acquired \in Nat
  /\ method \in {"none", "nb_frames", "nb_cycles", "length", "tested", "stopping"}
  /\ prepares \in 0..Prepares /\ stops \in 0..Stops
  /\ loop \in [Acqs -> Loops]
  /\ {info, stopped} \subseteq [Acqs -> BOOLEAN]
  /\ outcome \in {"none", "returned", "raised"} /\ asked \subseteq Acqs /\ wiped \in BOOLEAN

\* The call of a method, and the acquisitions that were not prepared yet.
CtlCalls ==
  /\ at[Ctl] # "idle" =>
       \/ method \in {"nb_frames", "nb_cycles", "length"} /\ call[Ctl] = Ask("ctrl", "COMMAND", Ctl)
       \/ method = "stopping" /\ call[Ctl] = Ask("stop", "STOP", Ctl)
  /\ method = "length" => target # None
  /\ method \in {"nb_frames", "nb_cycles"} => prepares \in Acqs /\ loop[prepares] = "absent"
  /\ \A a \in Acqs : a > prepares => loop[a] = "absent"

\* The call of an acquisition's thread where it is.
LoopCalls(a) ==
  /\ at[a] # "idle" =>
       \/ loop[a] = "updating" /\ call[a] = Ask("ctrl", "COMMAND", a)
       \/ loop[a] = "started" /\ call[a] = Ask("ctrl", "START", a)
       \/ loop[a] = "fetching" /\ call[a] = Ask("ctrl", "FRAME", a)
       \/ loop[a] \in {"closing", "raising"} /\ call[a] = Ask("ctrl", "CLOSE", a)
       \/ loop[a] = "stopping" /\ call[a] = Ask("stop", "STOP", a)
  /\ loop[a] \in {"started", "next", "fetching", "frame"} /\ at[a] # "connect" => reader["ctrl"] # None

Asking(a) == loop[a] = "started" /\ at[a] # "idle"
Blocked(a) == \/ loop[a] = "started" /\ at[a] = "idle"
              \/ loop[a] \in {"next", "fetching", "frame", "last", "finished", "stopping"}

\* START leaves its block open, until its exit.
LoopBlock(a) ==
  "ctrl" \notin crossed =>
    /\ Asking(a) => at[a] \in {"connect", "assign", "write"}
    /\ loop[a] = "started" /\ at[a] = "idle" => result[a] = "reply"
    /\ loop[a] # "failed"
    /\ Blocked(a) => Held(a, a)
    /\ loop[a] = "fetching" /\ at[a] = "reading" => waits[a] = reader["ctrl"]
    /\ loop[a] = "fetching" /\ at[a] \in {"test", "clear"} => result[a] = "ConnectionError"

Calm == crossed = {} /\ ~wiped

\* Frames may still come, and those that the thread has got.
Flowing(a) == \/ loop[a] \in {"started", "next", "frame"} /\ at[a] = "idle"
              \/ loop[a] = "fetching" /\ at[a] = "reading"
              \/ loop[a] = "fetching" /\ at[a] = "idle" /\ result[a] = "frame"

Got(a) == IF loop[a] = "frame" \/ (loop[a] = "fetching" /\ at[a] = "idle") THEN acquired + 1 ELSE acquired

\* Only the newest acquisition is under way, and none while one is prepared.
OnlyNewest ==
  /\ acq \in {None, acq_thread}
  /\ acq_thread = None => acquired = 0
  /\ acq_thread # None => loop[acq_thread] # "absent"
  /\ \A a \in Acqs : a # acq_thread => loop[a] \in {"absent", "unstarted", "finally", "over"}
  /\ acq_thread # None /\ method \in {"nb_frames", "nb_cycles"}
       => loop[acq_thread] \in {"unstarted", "finally", "over"}
  /\ \A x \in Sockets : Underway(x)
       => acq_thread # None /\ Flowing(acq_thread) /\ x = reader["ctrl"]

\* stopAcq uses the _acq that it tested, unless the acquisition is over.
StopsIt ==
  /\ method \notin {"none", "tested"} /\ at[Ctl] = "idle" => Good
  /\ method \in {"length", "tested"} => acq_thread # None /\ (acq = acq_thread \/ loop[acq_thread] = "over")
  /\ outcome # "none" /\ acq_thread # None => loop[acq_thread] \in {"unstarted", "over"}
  /\ \A a \in Acqs : stopped[a] =>
       a \in asked \/ loop[a] \in {"stopping", "raising", "finally", "over"}

\* The frames of the newest acquisition.
Delivers(a) ==
  LET Complete == acquired = Frames \/ a \in asked IN
  /\ acquired <= Frames
  /\ loop[a] \in {"unstarted", "new", "iterating", "updating", "starting"} => acquired = 0
  /\ Asking(a) => acquired = 0
  /\ Flowing(a) => FlowOf(reader["ctrl"], Got(a))
  /\ loop[a] = "fetching" /\ at[a] = "idle" =>
       /\ result[a] = "frame" => acquired + 1 <= Frames
       /\ result[a] = "last" => acquired + 1 = Frames
  /\ loop[a] = "frame" => acquired + 1 <= Frames
  /\ loop[a] = "last" => acquired + 1 = Frames
  /\ loop[a] = "finished" => acquired = Frames
  /\ loop[a] = "closing" => Complete
  /\ loop[a] \in {"finally", "over"} /\ status = "Ready" => Complete
  /\ loop[a] \notin {"unstarted", "new", "finally", "over"} => status # "Ready"
  /\ loop[a] = "updating" /\ at[a] = "idle" => result[a] = "reply"

Settled == /\ OnlyNewest /\ StopsIt
           /\ acq_thread # None => Delivers(acq_thread)

PluginInv == /\ PluginTypes /\ SharedInv /\ OwnInv /\ CtlCalls
             /\ \A a \in Acqs : LoopCalls(a) /\ LoopBlock(a)

LimaInv == PluginInv /\ (Calm => Settled)

-----------------------------------------------------------------------------
(* The calls of the threads *)

\* The threads of the plugin, and the tags of its calls.
LEMMA PluginThreads ==
  /\ Threads = {Ctl} \cup Acqs /\ Ctl \notin Acqs /\ Threads \subseteq Tags
  /\ None \notin Threads /\ None \notin Sockets /\ {"ctrl", "stop"} = Objects
  /\ Prepares \in Nat /\ Stops \in Nat /\ Frames \in Nat \ {0}
  /\ \A s \in Sides("ctrl") : s \in Sockets /\ s # None
  BY LimaAssumption, ThreadsAssumption, OneSide DEF Objects

\* The plugin starts with nothing prepared.
LEMMA PluginInit == LimaInit => PluginInv
<1> SUFFICES ASSUME LimaInit PROVE PluginInv
  OBVIOUS
<1>1. SharedInv /\ OwnInv
  BY InitShared DEF LimaInit
<1>2. PluginTypes
  <2>1. loop \in [Acqs -> Loops] /\ {info, stopped} \subseteq [Acqs -> BOOLEAN]
    BY DEF LimaInit, Loops
  <2>2. 0 \in 0..Prepares /\ 0 \in 0..Stops
    BY PluginThreads
  <2> QED BY <2>1, <2>2 DEF LimaInit, PluginTypes, Statuses
<1>3. \A t \in Threads : at[t] = "idle"
  BY DEF LimaInit, ThreadsInit
<1>4. CtlCalls
  BY <1>3, PluginThreads DEF LimaInit, CtlCalls
<1>5. \A a \in Acqs : LoopCalls(a) /\ LoopBlock(a)
  BY <1>3, PluginThreads DEF LimaInit, LoopCalls, LoopBlock, Blocked, Asking
<1> QED BY <1>1, <1>2, <1>4, <1>5 DEF PluginInv

\* Nothing happens to a thread and what it holds.
LEMMA LoopApart ==
  ASSUME NEW a \in Acqs, LoopCalls(a), LoopBlock(a),
         loop'[a] = loop[a], at'[a] = at[a], call'[a] = call[a], waits'[a] = waits[a],
         result'[a] = result[a], crossed \subseteq crossed',
         reader["ctrl"] # None => reader'["ctrl"] # None,
         "ctrl" \notin crossed' /\ Held(a, a) => Held(a, a)' /\ reader'["ctrl"] = reader["ctrl"]
  PROVE  LoopCalls(a)' /\ LoopBlock(a)'
<1>1. LoopCalls(a)'
  BY DEF LoopCalls, Ask
<1>2. LoopBlock(a)'
  <2>1. SUFFICES ASSUME "ctrl" \notin crossed' PROVE LoopBlock(a)'
    BY DEF LoopBlock
  <2>2. (Blocked(a)' <=> Blocked(a)) /\ (Asking(a)' <=> Asking(a))
    BY DEF Blocked, Asking
  <2>3. loop[a] = "fetching" => Blocked(a)
    BY DEF Blocked
  <2> QED BY <2>1, <2>2, <2>3 DEF LoopBlock
<1> QED BY <1>1, <1>2

\* A thread goes on with its call: the others are where they were.
LEMMA CallPlugin ==
  ASSUME PluginInv, NEW t \in Threads, Calling(t)
  PROVE  PluginInv'
<1>1. CallStep(t) /\ UNCHANGED limaVars
  BY DEF Calling
<1>2. /\ SharedInv' /\ OwnInv' /\ crossed \subseteq crossed'
      /\ at[t] # "idle" /\ (at'[t] # "idle" => call'[t] = call[t])
      /\ \A u \in Threads \ {t} : /\ at'[u] = at[u] /\ call'[u] = call[u]
                                  /\ waits'[u] = waits[u] /\ result'[u] = result[u]
                                  /\ inside'[u] = inside[u]
      /\ reader["ctrl"] # None => reader'["ctrl"] # None
  BY <1>1, CallEffect DEF PluginInv
<1>3. PluginTypes'
  BY <1>1 DEF PluginInv, PluginTypes, limaVars, methodVars, loopVars
<1>4. UNCHANGED <<loop, method, target, prepares>>
  BY <1>1 DEF limaVars, methodVars, loopVars
<1>5. CtlCalls'
  BY <1>2, <1>4, PluginThreads DEF PluginInv, CtlCalls, Ask
<1>6. ASSUME NEW a \in Acqs, a # t PROVE LoopCalls(a)' /\ LoopBlock(a)'
  <2>1. ASSUME "ctrl" \notin crossed', Held(a, a)
        PROVE  Held(a, a)' /\ reader'["ctrl"] = reader["ctrl"]
    <3>1. Object(t) = "stop"
      BY <1>1, <1>6, <2>1, AloneInBlock, PluginThreads DEF PluginInv, Held
    <3>2. CtrlSame
      BY <1>1, <3>1, StopSame DEF PluginInv
    <3> QED BY <2>1, <3>2, SameHeld, PluginThreads DEF CtrlSame
  <2> QED BY <1>2, <1>4, <1>6, <2>1, LoopApart, PluginThreads DEF PluginInv
<1>7. ASSUME t \in Acqs PROVE LoopCalls(t)' /\ LoopBlock(t)'
  <2>0. LoopCalls(t) /\ LoopBlock(t) /\ t \in Tags /\ SharedInv /\ OwnInv
    BY <1>7, PluginThreads DEF PluginInv
  <2>1. LoopCalls(t)'
    <3>1. loop[t] = "started" /\ at'[t] # "connect" => reader'["ctrl"] # None
      <4>1. CASE at[t] = "connect" /\ loop[t] = "started"
        <5>1. Connect(t) /\ Object(t) = "ctrl"
          BY <1>1, <2>0, <4>1 DEF CallStep, Assign, Write, SocketGone, TakeFrame, TakeReply, UpdateClient, TakeFail, TakeMessage,
             TakeEof, CloseTest, CloseClear, LoopCalls, Ask, Object
        <5>2. at'[t] = "assign"
          BY <5>1 DEF Connect, Goes, PluginInv, SharedInv, ThreadsTypeOK
        <5>3. Object(t)' = "ctrl"
          BY <1>2, <5>1, <5>2 DEF Object
        <5> QED BY <1>2, <5>2, <5>3 DEF SharedInv, Placed
      <4> QED BY <1>2, <2>0, <4>1 DEF LoopCalls
    <3>2. loop[t] \in {"started", "fetching"} => at'[t] # "connect"
      BY <1>1, <1>2, <2>0, CallPlaces DEF LoopCalls, Ask
    <3>3. loop[t] = "fetching" => at[t] # "connect"
      BY <1>2, <2>0 DEF LoopCalls, Ask, SharedInv, Closing
    <3> QED BY <1>2, <1>4, <2>0, <3>1, <3>2, <3>3 DEF LoopCalls, Ask
  <2>2. LoopBlock(t)'
    <3>1. SUFFICES ASSUME "ctrl" \notin crossed' PROVE LoopBlock(t)'
      BY DEF LoopBlock
    <3>2. CASE loop[t] = "started"
      <4>1. call[t] = Ask("ctrl", "START", t) /\ at[t] \in {"connect", "assign", "write"}
        BY <1>2, <2>0, <3>1, <3>2 DEF LoopCalls, LoopBlock, Asking
      <4>2. \/ at'[t] \in {"assign", "write"}
            \/ at'[t] = "idle" /\ result'[t] = "reply" /\ Held(t, t)'
        <5>1. PICK tag \in Tags : tag = t
          BY <2>0
        <5> QED BY <1>1, <2>0, <3>1, <4>1, <5>1, StartCall DEF Held, Speaks
      <4> QED BY <1>4, <3>2, <4>2 DEF LoopBlock, Blocked, Asking
    <3>3. CASE loop[t] = "fetching"
      <4>1. /\ call[t] = Ask("ctrl", "FRAME", t) /\ Held(t, t)
            /\ at[t] = "reading" => waits[t] = reader["ctrl"]
            /\ at[t] \in {"test", "clear"} => result[t] = "ConnectionError"
        BY <1>2, <2>0, <3>1, <3>3 DEF LoopCalls, LoopBlock, Blocked
      <4>2. /\ Held(t, t)' /\ at'[t] # "reading"
            /\ at'[t] \in {"test", "clear"} => result'[t] = "ConnectionError"
        <5>1. PICK tag \in Tags : tag = t
          BY <2>0
        <5> QED BY <1>1, <2>0, <3>1, <4>1, <5>1, FrameCall DEF Held, Speaks
      <4> QED BY <1>2, <1>4, <2>0, <3>3, <4>2 DEF LoopBlock, Blocked, Asking
    <3>4. CASE loop[t] = "stopping"
      <4>1. Object(t) = "stop" /\ Held(t, t)
        BY <1>2, <2>0, <3>1, <3>4 DEF LoopCalls, LoopBlock, Blocked, Ask, Object
      <4>2. Held(t, t)'
        BY <1>1, <2>0, <4>1, StopSame, SameHeld
      <4> QED BY <1>4, <3>4, <4>2 DEF LoopBlock, Blocked, Asking
    <3>5. CASE loop[t] \notin {"started", "fetching", "stopping"}
      BY <1>2, <1>4, <2>0, <3>5 DEF LoopCalls, LoopBlock, Blocked, Asking
    <3> QED BY <3>2, <3>3, <3>4, <3>5
  <2> QED BY <2>1, <2>2
<1> QED BY <1>2, <1>3, <1>5, <1>6, <1>7, PluginThreads DEF PluginInv

\* The simulator and other programs leave the threads where they are.
LEMMA ServerPlugin ==
  ASSUME PluginInv, (\E s \in Sockets : Serving(s)) \/ Stopped
  PROVE  PluginInv'
<1>1. UNCHANGED limaVars /\ ((\E s \in Sockets : ServerStep(s)) \/ ForeignStop)
  BY DEF Serving, Stopped
<1>2. UNCHANGED clientVars /\ SharedInv' /\ OwnInv'
  BY <1>1, ServerTouches, ServerShared, ServerOwn DEF PluginInv
<1>3. UNCHANGED <<at, call, waits, result, reader, crossed, loop, method, target, prepares>>
  BY <1>1, <1>2 DEF clientVars, limaVars, methodVars, loopVars
<1>4. PluginTypes' /\ CtlCalls'
  BY <1>1, <1>3 DEF PluginInv, PluginTypes, CtlCalls, limaVars, methodVars, loopVars, Ask
<1>5. ASSUME NEW a \in Acqs PROVE LoopCalls(a)' /\ LoopBlock(a)'
  <2>1. Held(a, a) => Held(a, a)'
    BY <1>1, ServerHeld, PluginThreads DEF PluginInv
  <2> QED BY <1>3, <2>1, LoopApart DEF PluginInv
<1> QED BY <1>2, <1>4, <1>5 DEF PluginInv

-----------------------------------------------------------------------------
(* The steps of the threads *)

\* A step of one thread leaves the threads of the other acquisitions where they are.
LEMMA StepApart ==
  ASSUME PluginInv, NEW a \in Acqs, loop'[a] = loop[a], at'[a] = at[a], call'[a] = call[a],
         waits'[a] = waits[a], result'[a] = result[a], UNCHANGED <<reader, crossed>>, CtrlSame
  PROVE  LoopCalls(a)' /\ LoopBlock(a)'
  BY LoopApart, SameHeld, PluginThreads DEF PluginInv

\* Nothing of a thread changes in a step without a call.
LEMMA Quiet ==
  ASSUME PluginInv, UNCHANGED threadVars
  PROVE  /\ SharedInv' /\ OwnInv' /\ CtrlSame
         /\ UNCHANGED <<at, call, waits, result, reader, inside, crossed, request, replies, handler,
                        left>>
  BY ThreadsStay, QuietSame DEF PluginInv, threadVars, clientVars, serverVars

\* The methods of the plugin.
LEMMA CtlPlugin ==
  ASSUME PluginInv, CtlStep
  PROVE  PluginInv'
<1>0. /\ Ctl \in Threads /\ Ctl \in Tags /\ {"ctrl", "stop"} \subseteq Objects
      /\ {"COMMAND", "STOP"} \subseteq Commands
      /\ \A a \in Acqs : a \in Threads \ {Ctl}
  BY PluginThreads DEF Commands
<1>1. \/ UNCHANGED threadVars
      \/ Begin(Ctl, "ctrl", "COMMAND", Ctl)
      \/ Begin(Ctl, "stop", "STOP", Ctl)
  BY DEF CtlStep, CtlReturns, PrepareAcq, StartAcq, StopAcq, PrepareReads, PrepareEnds,
     StopMeasured, StopTested, StopJoins, MethodRaises
<1>2. /\ SharedInv' /\ OwnInv' /\ CtrlSame /\ UNCHANGED <<reader, crossed>>
      /\ \A a \in Acqs : /\ at'[a] = at[a] /\ call'[a] = call[a]
                         /\ waits'[a] = waits[a] /\ result'[a] = result[a]
  BY <1>0, <1>1, Quiet, BeginEffect DEF PluginInv
<1>3. PluginTypes' /\ CtlCalls'
  <2> USE DEF PluginInv, PluginTypes, CtlCalls, In, Idle, loopVars
  <2>1. CASE PrepareAcq
    <3>1. /\ Begin(Ctl, "ctrl", "COMMAND", Ctl) /\ method' = "nb_frames" /\ method = "none"
          /\ prepares' = prepares + 1 /\ prepares' \in 0..Prepares /\ prepares' \in Acqs
          /\ UNCHANGED <<target, stops, outcome, acq_thread, asked, loopVars, acq, info, stopped>>
      BY <2>1, PluginThreads DEF PrepareAcq, Acqs
    <3>2. call'[Ctl] = Ask("ctrl", "COMMAND", Ctl)
      BY <1>0, <3>1, BeginEffect
    <3>3. /\ loop'[prepares'] = "absent"
          /\ \A a \in Acqs : a > prepares' => loop'[a] = "absent"
      BY <3>1, PluginThreads DEF Acqs
    <3> QED BY <3>1, <3>2, <3>3
  <2>2. CASE PrepareReads
    <3>1. call'[Ctl] = Ask("ctrl", "COMMAND", Ctl)
      BY <1>0, <2>2, BeginEffect DEF PrepareReads
    <3> QED BY <2>2, <3>1 DEF PrepareReads
  <2>3. CASE PrepareEnds
    <3>1. /\ prepares \in Acqs /\ loop' = [loop EXCEPT ![prepares] = "unstarted"]
          /\ acq' = prepares /\ acq_thread' = prepares /\ acquired' = 0
          /\ method' = "none" /\ at[Ctl] = "idle"
          /\ UNCHANGED <<threadVars, target, prepares, stops, outcome, asked, status, wiped, info, stopped>>
      BY <2>3 DEF PrepareEnds
    <3>2. loop' \in [Acqs -> Loops] /\ at'[Ctl] = "idle"
      BY <3>1, Quiet DEF Loops
    <3>3. \A a \in Acqs : a > prepares => loop'[a] = "absent"
      BY <3>1, PluginThreads DEF Acqs
    <3> QED BY <3>1, <3>2, <3>3
  <2>4. CASE StartAcq
    <3>1. /\ acq_thread \in Acqs /\ loop[acq_thread] = "unstarted"
          /\ loop' = [loop EXCEPT ![acq_thread] = "new"] /\ method = "none" /\ at[Ctl] = "idle"
          /\ outcome' = "none"
          /\ UNCHANGED <<threadVars, method, target, prepares, stops, acq_thread, asked, status,
                         acquired, wiped, acq, info, stopped>>
      BY <2>4 DEF StartAcq
    <3>2. loop' \in [Acqs -> Loops] /\ at'[Ctl] = "idle"
      BY <3>1, Quiet DEF Loops
    <3>3. \A a \in Acqs : a > prepares => loop'[a] = "absent"
      BY <3>1
    <3> QED BY <3>1, <3>2, <3>3
  <2>5. CASE StopAcq
    <3>1. stops' \in 0..Stops
      BY <2>5, PluginThreads DEF StopAcq
    <3>2. at'[Ctl] # "idle" =>
            \/ method' = "length" /\ call'[Ctl] = Ask("ctrl", "COMMAND", Ctl)
            \/ method' = "stopping" /\ call'[Ctl] = Ask("stop", "STOP", Ctl)
      BY <1>0, <2>5, BeginEffect, Quiet DEF StopAcq
    <3> QED BY <2>5, <3>1, <3>2 DEF StopAcq
  <2>6. CASE StopMeasured
    <3>1. at'[Ctl] = "idle" /\ info' \in [Acqs -> BOOLEAN]
      BY <2>6, Quiet DEF StopMeasured
    <3> QED BY <2>6, <3>1 DEF StopMeasured
  <2>7. CASE StopTested
    <3>1. call'[Ctl] = Ask("stop", "STOP", Ctl) /\ stopped' \in [Acqs -> BOOLEAN]
      BY <1>0, <2>7, BeginEffect DEF StopTested
    <3> QED BY <2>7, <3>1 DEF StopTested
  <2>8. CASE StopJoins \/ MethodRaises
    <3>1. at'[Ctl] = "idle"
      BY <2>8, Quiet DEF StopJoins, MethodRaises, Preparing
    <3> QED BY <2>8, <3>1 DEF StopJoins, MethodRaises, Preparing
  <2> QED BY <2>1, <2>2, <2>3, <2>4, <2>5, <2>6, <2>7, <2>8 DEF CtlStep, CtlReturns
<1>4. ASSUME NEW a \in Acqs PROVE LoopCalls(a)' /\ LoopBlock(a)'
  <2>1. CASE loop'[a] = loop[a]
    BY <1>2, <2>1, StepApart
  <2>2. CASE loop'[a] # loop[a]
    <3>1. loop[a] \in {"absent", "unstarted"} /\ loop'[a] \in {"unstarted", "new"}
      BY <2>2 DEF PluginInv, PluginTypes, CtlCalls, CtlStep, CtlReturns, PrepareAcq, StartAcq, StopAcq,
         PrepareReads, PrepareEnds, StopMeasured, StopTested, StopJoins, MethodRaises, loopVars, In, Idle
    <3>2. at'[a] = "idle"
      BY <1>2, <3>1 DEF PluginInv, LoopCalls
    <3> QED BY <3>1, <3>2 DEF LoopCalls, LoopBlock, Blocked, Asking
  <2> QED BY <2>1, <2>2
<1> QED BY <1>2, <1>3, <1>4 DEF PluginInv

\* The thread of an acquisition begins a call, in its block where it has to be in one.
LEMMA LoopAsks ==
  ASSUME PluginInv, NEW a \in Acqs, NEW here, NEW there, NEW o \in Objects, NEW c \in Commands,
         From(a, here, there), Begin(a, o, c, a),
         c = "FRAME" => o = "ctrl" /\ here = "next",
         c = "CLOSE" => o = "ctrl" /\ here \in {"finished", "fetching", "stopping"}
  PROVE  /\ SharedInv' /\ OwnInv' /\ CtrlSame
         /\ loop[a] = here /\ loop' = [loop EXCEPT ![a] = there] /\ loop'[a] = there
         /\ at[a] = "idle" /\ call'[a] = Ask(o, c, a) /\ result'[a] = "none"
         /\ at'[a] = IF c = "FRAME" THEN "reading" ELSE IF c = "CLOSE" THEN "test" ELSE "connect"
         /\ c = "FRAME" => waits'[a] = reader[o] /\ reader[o] # None
         /\ \A u \in Threads \ {a} : /\ at'[u] = at[u] /\ call'[u] = call[u]
                                     /\ waits'[u] = waits[u] /\ result'[u] = result[u]
         /\ "ctrl" \notin crossed /\ Held(a, a) => Held(a, a)'
         /\ UNCHANGED <<sock, reader, inside, crossed, request, replies, handler, left>>
<1>1. /\ loop[a] = here /\ loop' = [loop EXCEPT ![a] = there] /\ at[a] = "idle"
      /\ loop \in [Acqs -> Loops] /\ LoopCalls(a) /\ LoopBlock(a) /\ SharedInv /\ OwnInv
  BY DEF From, Idle, PluginInv, PluginTypes
<1>2. PICK tag \in Tags : tag = a
  BY PluginThreads
<1>3. a \in Threads /\ Begin(a, o, c, tag)
  BY <1>2, PluginThreads
<1>4. c = "FRAME" => reader[o] \in Sides(o) /\ reader[o] # None
  BY <1>1, PluginThreads DEF LoopCalls, SharedInv, Placed
<1>5. "ctrl" \notin crossed /\ c \in {"FRAME", "CLOSE"} => o = "ctrl" /\ Held(a, tag)
  BY <1>1, <1>2 DEF LoopBlock, Blocked
<1>6. /\ SharedInv' /\ OwnInv' /\ CtrlSame
      /\ call'[a] = Ask(o, c, tag) /\ result'[a] = "none"
      /\ at'[a] = IF c = "FRAME" THEN "reading" ELSE IF c = "CLOSE" THEN "test" ELSE "connect"
      /\ c = "FRAME" => waits'[a] = reader[o]
      /\ \A u \in Threads \ {a} : /\ at'[u] = at[u] /\ call'[u] = call[u]
                                  /\ waits'[u] = waits[u] /\ result'[u] = result[u]
      /\ UNCHANGED <<sock, reader, inside, crossed, request, replies, handler, left>>
  BY <1>1, <1>3, <1>4, <1>5, BeginEffect DEF Held
<1>7. Held(a, tag) => Held(a, tag)'
  BY <1>3, <1>6, SameHeld
<1>8. "ctrl" \notin crossed /\ Held(a, a) => Held(a, a)'
  BY <1>2, <1>7 DEF Held, Speaks
<1> QED BY <1>1, <1>2, <1>4, <1>6, <1>8

\* A step of an acquisition's thread begins one of its calls, or none.
LEMMA LoopShape ==
  ASSUME NEW a \in Acqs, LoopStep(a)
  PROVE  \/ UNCHANGED threadVars
         \/ From(a, "iterating", "updating") /\ Begin(a, "ctrl", "COMMAND", a)
         \/ From(a, "starting", "started") /\ Begin(a, "ctrl", "START", a)
         \/ From(a, "next", "fetching") /\ Begin(a, "ctrl", "FRAME", a)
         \/ /\ From(a, "finished", "closing") \/ From(a, "fetching", "closing")
               \/ From(a, "fetching", "raising") \/ From(a, "stopping", "raising")
            /\ Begin(a, "ctrl", "CLOSE", a)
         \/ /\ From(a, "failed", "stopping") \/ From(a, "fetching", "stopping")
            /\ Begin(a, "stop", "STOP", a)
  BY DEF LoopStep, LoopBegins, LoopPrepares, LoopPrepared, LoopStarts, LoopStarted, LoopFetches,
     LoopFrame, LoopStored, LoopFinishes, LoopFails, LoopStops, LoopLeaves, LoopReady, LoopFinally

\* It comes from a place where its thread is idle, and keeps the types.
LEMMA LoopMoves ==
  ASSUME PluginInv, NEW a \in Acqs, LoopStep(a)
  PROVE  /\ \E there \in Loops \ {"absent", "unstarted", "new"} :
              loop' = [loop EXCEPT ![a] = there]
         /\ loop[a] \notin {"absent", "unstarted", "over"} /\ at[a] = "idle"
         /\ PluginTypes'
         /\ UNCHANGED <<method, target, prepares, stops, outcome, acq_thread, asked>>
<1> USE DEF PluginInv, PluginTypes, Loops, Statuses, From, Idle, methodVars, OnlyLoop
<1>1. CASE LoopBegins(a) \/ LoopPrepares(a) \/ LoopStarts(a) \/ LoopStarted(a)
           \/ LoopFetches(a) \/ LoopFrame(a)
  BY <1>1 DEF LoopBegins, LoopPrepares, LoopStarts, LoopStarted, LoopFetches, LoopFrame
<1>2. CASE LoopPrepared(a)
  BY <1>2 DEF LoopPrepared
<1>3. CASE LoopStored(a)
  BY <1>3 DEF LoopStored
<1>4. CASE LoopFinishes(a) \/ LoopFails(a) \/ LoopLeaves(a)
  BY <1>4 DEF LoopFinishes, LoopFails, LoopLeaves
<1>5. CASE LoopStops(a)
  BY <1>5 DEF LoopStops
<1>6. CASE LoopReady(a) \/ LoopFinally(a)
  BY ZenonT(60), <1>6 DEF LoopReady, LoopFinally
<1> QED BY <1>1, <1>2, <1>3, <1>4, <1>5, <1>6 DEF LoopStep

\* The thread of an acquisition.
LEMMA LoopPlugin ==
  ASSUME PluginInv, NEW a \in Acqs, LoopStep(a)
  PROVE  PluginInv'
<1>0. /\ a \in Threads /\ Ctl # a /\ Ctl \in Threads /\ {"ctrl", "stop"} \subseteq Objects
      /\ {"COMMAND", "START", "FRAME", "CLOSE", "STOP"} \subseteq Commands
      /\ LoopCalls(a) /\ LoopBlock(a)
  BY PluginThreads DEF Commands, PluginInv
<1>1. /\ \E there \in Loops \ {"absent", "unstarted", "new"} : loop' = [loop EXCEPT ![a] = there]
      /\ loop[a] \notin {"absent", "unstarted", "over"} /\ at[a] = "idle"
      /\ PluginTypes'
      /\ UNCHANGED <<method, target, prepares, stops, outcome, acq_thread, asked>>
  BY LoopMoves
<1>2. /\ SharedInv' /\ OwnInv' /\ CtrlSame /\ UNCHANGED <<reader, crossed>>
      /\ \A u \in Threads \ {a} : /\ at'[u] = at[u] /\ call'[u] = call[u]
                                  /\ waits'[u] = waits[u] /\ result'[u] = result[u]
  <2>1. CASE UNCHANGED threadVars
    BY <2>1, Quiet
  <2> QED BY <1>0, <2>1, LoopShape, LoopAsks
<1>3. CtlCalls'
  BY <1>0, <1>1, <1>2 DEF PluginInv, PluginTypes, CtlCalls
<1>4. ASSUME NEW b \in Acqs \ {a} PROVE LoopCalls(b)' /\ LoopBlock(b)'
  <2>1. loop'[b] = loop[b] /\ b \in Threads \ {a}
    BY <1>1, PluginThreads DEF PluginInv, PluginTypes
  <2> QED BY <1>2, <2>1, StepApart
<1>5. LoopCalls(a)' /\ LoopBlock(a)'
  <2>1. CASE UNCHANGED threadVars
    <3>1. /\ at'[a] = "idle" /\ result'[a] = result[a]
          /\ Held(a, a) => Held(a, a)'
      BY <1>0, <1>1, <2>1, Quiet, SameHeld
    <3>2. \/ loop[a] = "started" /\ loop'[a] = (IF result[a] = "reply" THEN "next" ELSE "failed")
          \/ loop[a] = "fetching" /\ loop'[a] \in {"frame", "last"}
          \/ loop[a] = "frame" /\ loop'[a] = "next"
          \/ loop[a] = "last" /\ loop'[a] = "finished"
          \/ loop'[a] \in {"iterating", "starting", "finally", "over"}
      <4>1. ASSUME NEW o, NEW c, Begin(a, o, c, a) PROVE FALSE
        BY <1>0, <1>1, <2>1, <4>1 DEF Begin, Goes, threadVars, clientVars, PluginInv, SharedInv,
           ThreadsTypeOK
      <4>2. CASE LoopStarted(a)
        BY <1>0, <4>2 DEF LoopStarted, From, PluginInv, PluginTypes
      <4>3. CASE LoopFrame(a) \/ LoopStored(a)
        BY <1>0, <4>3 DEF LoopFrame, LoopStored, From, PluginInv, PluginTypes
      <4>4. CASE LoopBegins(a) \/ LoopPrepares(a) \/ LoopPrepared(a) \/ LoopReady(a) \/ LoopFinally(a)
        BY <1>0, <4>1, <4>4 DEF LoopBegins, LoopPrepares, LoopPrepared, LoopReady, LoopFinally,
           From, PluginInv, PluginTypes
      <4> QED BY <4>1, <4>2, <4>3, <4>4 DEF LoopStep, LoopStarts, LoopFetches, LoopFinishes, LoopFails,
            LoopStops, LoopLeaves
    <3> QED BY <1>0, <1>1, <1>2, <3>1, <3>2 DEF LoopCalls, LoopBlock, Blocked, Asking
  <2>2. CASE From(a, "iterating", "updating") /\ Begin(a, "ctrl", "COMMAND", a)
    <3>1. /\ at'[a] = "connect" /\ call'[a] = Ask("ctrl", "COMMAND", a) /\ loop'[a] = "updating"
      BY <1>0, <2>2, LoopAsks
    <3> QED BY <3>1 DEF LoopCalls, LoopBlock, Blocked, Asking
  <2>3. CASE From(a, "starting", "started") /\ Begin(a, "ctrl", "START", a)
    <3>1. /\ at'[a] = "connect" /\ call'[a] = Ask("ctrl", "START", a) /\ loop'[a] = "started"
      BY <1>0, <2>3, LoopAsks
    <3> QED BY <3>1 DEF LoopCalls, LoopBlock, Blocked, Asking
  <2>4. CASE From(a, "next", "fetching") /\ Begin(a, "ctrl", "FRAME", a)
    <3>1. /\ at'[a] = "reading" /\ call'[a] = Ask("ctrl", "FRAME", a) /\ loop'[a] = "fetching"
          /\ waits'[a] = reader["ctrl"] /\ reader["ctrl"] # None /\ loop[a] = "next"
          /\ "ctrl" \notin crossed /\ Held(a, a) => Held(a, a)'
      BY <1>0, <2>4, LoopAsks
    <3> QED BY <1>0, <1>2, <3>1 DEF LoopCalls, LoopBlock, Blocked, Asking
  <2>5. CASE /\ From(a, "finished", "closing") \/ From(a, "fetching", "closing")
                \/ From(a, "fetching", "raising") \/ From(a, "stopping", "raising")
             /\ Begin(a, "ctrl", "CLOSE", a)
    <3>1. /\ at'[a] = "test" /\ call'[a] = Ask("ctrl", "CLOSE", a) /\ loop'[a] \in {"closing", "raising"}
      BY <1>0, <2>5, LoopAsks
    <3> QED BY <3>1 DEF LoopCalls, LoopBlock, Blocked, Asking
  <2>6. CASE /\ From(a, "failed", "stopping") \/ From(a, "fetching", "stopping")
             /\ Begin(a, "stop", "STOP", a)
    <3>1. /\ at'[a] = "connect" /\ call'[a] = Ask("stop", "STOP", a) /\ loop'[a] = "stopping"
          /\ loop[a] \in {"failed", "fetching"}
          /\ "ctrl" \notin crossed /\ Held(a, a) => Held(a, a)'
      BY <1>0, <2>6, LoopAsks
    <3> QED BY <1>0, <1>2, <3>1 DEF LoopCalls, LoopBlock, Blocked, Asking
  <2> QED BY <2>1, <2>2, <2>3, <2>4, <2>5, <2>6, LoopShape
<1> QED BY <1>1, <1>2, <1>3, <1>4, <1>5 DEF PluginInv

\* Every step keeps it.
LEMMA PluginNext == PluginInv /\ [LimaNext]_pluginVars => PluginInv'
<1> SUFFICES ASSUME PluginInv, [LimaNext]_pluginVars PROVE PluginInv'
  OBVIOUS
<1>1. CASE UNCHANGED pluginVars
  <2>1. UNCHANGED <<acq, acq_thread, target, status, acquired, method, prepares, stops, loop, info,
                    stopped, outcome, asked, wiped>> /\ UNCHANGED threadVars
    BY <1>1 DEF pluginVars, limaVars, methodVars, loopVars
  <2>2. \A a \in Acqs : LoopCalls(a)' /\ LoopBlock(a)'
    BY <2>1, Quiet, StepApart
  <2> QED BY <2>1, <2>2, Quiet DEF PluginInv, PluginTypes, CtlCalls
<1> QED BY <1>1, CtlPlugin, LoopPlugin, CallPlugin, ServerPlugin DEF LimaNext

-----------------------------------------------------------------------------
(* An undisturbed plugin: the calls, the simulator and other programs *)

\* The plugin starts settled.
LEMMA SettledInit == LimaInit => Settled
<1> SUFFICES ASSUME LimaInit PROVE Settled
  OBVIOUS
<1>1. \A x \in Sockets : ~Underway(x)
  BY DEF LimaInit, ThreadsInit, Underway
<1> QED BY <1>1 DEF LimaInit, Settled, OnlyNewest, StopsIt

\* A thread that frames may still come to is in its block.
LEMMA FlowingHeld ==
  ASSUME PluginInv, crossed = {}, NEW a \in Acqs, Flowing(a)
  PROVE  Held(a, a)
  BY DEF PluginInv, LoopBlock, Flowing, Blocked

\* The simulator produces only what was asked for, and other programs stop it.
LEMMA ServerSettled ==
  ASSUME PluginInv, Calm, Settled, (\E s \in Sockets : Serving(s)) \/ Stopped
  PROVE  Settled'
<1>1. UNCHANGED limaVars /\ ((\E s \in Sockets : ServerStep(s)) \/ ForeignStop)
  BY DEF Serving, Stopped
<1>2. UNCHANGED clientVars
  BY <1>1, ServerTouches DEF PluginInv
<1>3. UNCHANGED <<at, result, reader, crossed, loop, method, acq, acq_thread, status, acquired,
                  outcome, asked, stopped>>
  BY <1>1, <1>2 DEF clientVars, limaVars, methodVars, loopVars
<1>4. \A a \in Acqs : (Flowing(a)' <=> Flowing(a)) /\ Got(a)' = Got(a)
  BY <1>3 DEF Flowing, Got
<1>5. OnlyNewest'
  <2>1. \A x \in Sockets : Underway(x)' => Underway(x)
    BY <1>1, ServerRuns DEF PluginInv
  <2> QED BY <1>3, <1>4, <2>1 DEF Settled, OnlyNewest, PluginInv, PluginTypes
<1>6. StopsIt'
  BY <1>3 DEF Settled, StopsIt, Good
<1>7. ASSUME NEW a \in Acqs, Delivers(a) PROVE Delivers(a)'
  <2>1. ASSUME Flowing(a) PROVE FlowOf(reader["ctrl"], Got(a))'
    <3>1. PICK got \in Nat : got = Got(a)
      BY DEF Got, PluginInv, PluginTypes
    <3>2. FlowOf(reader["ctrl"], got)'
      BY <1>1, <1>7, <2>1, <3>1, FlowingHeld, ServerFlow DEF Delivers, Calm, PluginInv, Held
    <3> QED BY <1>4, <3>1, <3>2 DEF FlowOf
  <2> QED BY <1>3, <1>4, <1>7, <2>1 DEF Delivers, Asking
<1> QED BY <1>3, <1>5, <1>6, <1>7 DEF Settled, PluginInv, PluginTypes

\* The call of a method gets its answer, and leaves the acquisition alone.
LEMMA CtlCallSettled ==
  ASSUME PluginInv, Calm, Calm', Settled, Calling(Ctl)
  PROVE  Settled'
<1>1. /\ CallStep(Ctl) /\ Ctl \in Threads /\ SharedInv /\ OwnInv /\ at[Ctl] # "idle"
      /\ \A a \in Acqs : a \in Threads \ {Ctl}
  BY PluginThreads, CallKeeps DEF Calling, PluginInv
<1>2. UNCHANGED <<loop, method, acq, acq_thread, status, acquired, outcome, asked, stopped>>
  BY DEF Calling, limaVars, methodVars, loopVars
<1>3. \A a \in Acqs : at'[a] = at[a] /\ result'[a] = result[a]
  BY <1>1, CallEffect
<1>4. \A a \in Acqs : (Flowing(a)' <=> Flowing(a)) /\ Got(a)' = Got(a)
  BY <1>2, <1>3 DEF Flowing, Got
<1>5. ASSUME NEW a \in Acqs, Flowing(a) PROVE CtrlSame
  BY <1>1, <1>5, FlowingHeld, AloneInBlock, StopSame DEF Calm, Held
<1>6. OnlyNewest'
  <2>1. call[Ctl].command # "START"
    BY <1>1 DEF PluginInv, CtlCalls, Ask
  <2>2. \A x \in Sockets : Underway(x)' => Underway(x)
    BY <1>1, <2>1, CallRuns
  <2> QED BY <1>2, <1>4, <1>5, <2>2 DEF Settled, OnlyNewest, PluginInv, PluginTypes, CtrlSame
<1>7. StopsIt'
  <2>1. at'[Ctl] = "idle" => Good'
    <3>1. call[Ctl].command \in {"COMMAND", "STOP"}
      BY <1>1 DEF PluginInv, CtlCalls, Ask
    <3> QED BY <1>1, <3>1, AnswerGiven DEF Calm, Answered, AnswersTo, Ends, Good
  <2> QED BY <1>2, <2>1 DEF Settled, StopsIt
<1>8. ASSUME NEW a \in Acqs, Delivers(a) PROVE Delivers(a)'
  <2>1. ASSUME Flowing(a) PROVE FlowOf(reader["ctrl"], Got(a))'
    <3>1. PICK got : got = Got(a)
      OBVIOUS
    <3>2. FlowOf(reader["ctrl"], got)'
      BY <1>5, <1>8, <2>1, <3>1, FlowingHeld, SameFlow DEF Delivers, Calm, Held
    <3> QED BY <1>4, <3>1, <3>2 DEF FlowOf
  <2> QED BY <1>2, <1>3, <1>4, <1>8, <2>1 DEF Delivers, Asking
<1> QED BY <1>2, <1>6, <1>7, <1>8 DEF Settled, PluginInv, PluginTypes

\* A message that the newest acquisition takes is its next frame, and with the last
\* one, or an error, the simulator is done.
LEMMA FrameSettled ==
  ASSUME PluginInv, Calm, Calm', Settled, NEW a \in Acqs, a = acq_thread, Calling(a),
         loop[a] = "fetching"
  PROVE  /\ \A x \in Sockets : Underway(x)' => Flowing(a)' /\ x = reader'["ctrl"]
         /\ Delivers(a)'
<1>1. /\ CallStep(a) /\ a \in Threads /\ SharedInv /\ OwnInv /\ at[a] # "idle" /\ acq_thread # None
      /\ Delivers(a) /\ LoopCalls(a) /\ LoopBlock(a) /\ acquired \in Nat
  BY PluginThreads, CallKeeps DEF Calling, PluginInv, PluginTypes, Settled
<1>2. UNCHANGED <<loop, acquired, status, asked>>
  BY DEF Calling, limaVars, methodVars, loopVars
<1>3. PICK tag \in Tags : tag = a
  BY <1>1, PluginThreads
<1>4. /\ call[a] = Ask("ctrl", "FRAME", tag) /\ Held(a, tag)
      /\ at[a] = "reading" => waits[a] = reader["ctrl"]
      /\ at[a] \in {"test", "clear"} => result[a] = "ConnectionError"
  BY <1>1, <1>3 DEF LoopCalls, LoopBlock, Blocked, Calm
<1>5. PICK s \in Sockets : s = reader["ctrl"]
  BY <1>4, PluginThreads DEF Held
<1>6. \A x \in Sockets : Underway(x)' => Underway(x)
  BY <1>1, <1>4, CallRuns DEF Ask
<1>7. \A x \in Sockets : Underway(x) => Flowing(a) /\ x = s
  BY <1>5 DEF Settled, OnlyNewest
<1>8. CASE /\ at[a] = "reading" /\ at'[a] = "idle"
           /\ replies[s] # <<>> /\ replies'[s] = Tail(replies[s])
           /\ UNCHANGED <<request, handler, left>>
           /\ result'[a] = Head(replies[s]).what
           /\ reader'["ctrl"] = s
  <2>1. PICK got \in Nat : got = acquired
    BY <1>1
  <2>2. FlowOf(s, got)
    BY <1>1, <1>5, <1>8, <2>1 DEF Delivers, Flowing, Got
  <2>3. /\ FlowOf(s, got + 1)'
        /\ result'[a] = "frame" => got + 1 < Frames
        /\ result'[a] = "last" => got + 1 = Frames
        /\ result'[a] # "frame" => handler[s] \notin {"open", "spawned", "serving"}
    BY <1>1, <1>8, <2>2, FlowTaken
  <2>4. \A x \in Sockets : Underway(x)' => result'[a] = "frame" /\ x = s
    BY <1>6, <1>7, <1>8, <2>3 DEF Underway
  <2>5. Flowing(a)' <=> result'[a] = "frame"
    BY <1>2, <1>8 DEF Flowing
  <2>6. Got(a)' = got + 1
    BY <1>2, <1>8, <2>1 DEF Got
  <2>7. FlowOf(reader["ctrl"], Got(a))'
    BY <1>8, <2>3, <2>6 DEF FlowOf
  <2>8. Delivers(a)'
    BY <1>1, <1>2, <1>8, <2>1, <2>3, <2>7, PluginThreads DEF Delivers, Asking
  <2> QED BY <1>8, <2>4, <2>5, <2>8
<1>9. CASE /\ at'[a] \in {"test", "clear", "idle"} /\ result'[a] = "ConnectionError"
           /\ at[a] = "reading" => handler[s] = "closed"
           /\ UNCHANGED handler
  <2>1. \A x \in Sockets : ~Underway(x)'
    <3>1. Flowing(a) => at[a] = "reading"
      BY <1>1 DEF Flowing
    <3>2. Flowing(a) => ~Underway(s)
      BY <1>9, <3>1 DEF Underway
    <3> QED BY <1>6, <1>7, <3>2
  <2>2. ~Flowing(a)'
    BY <1>2, <1>9 DEF Flowing
  <2>3. Delivers(a)'
    BY <1>1, <1>2, <1>9, <2>2 DEF Delivers, Asking
  <2> QED BY <2>1, <2>3
<1> QED
  <2>1. "ctrl" \notin crossed'
    BY DEF Calm
  <2> QED BY <1>1, <1>4, <1>5, <1>8, <1>9, <2>1, FrameCall

\* A call of the newest acquisition, the only one that makes calls.
LEMMA LoopCallSettled ==
  ASSUME PluginInv, Calm, Calm', Settled, NEW a \in Acqs, Calling(a)
  PROVE  Settled'
<1>1. /\ CallStep(a) /\ a \in Threads /\ SharedInv /\ OwnInv /\ at[a] # "idle"
      /\ LoopCalls(a) /\ LoopBlock(a) /\ Ctl \in Threads \ {a}
  BY PluginThreads, CallKeeps DEF Calling, PluginInv
<1>2. UNCHANGED <<loop, method, acq, acq_thread, status, acquired, outcome, asked, stopped>>
  BY DEF Calling, limaVars, methodVars, loopVars
<1>3. a = acq_thread /\ Delivers(a)
  <2>1. a = acq_thread
    BY <1>1 DEF LoopCalls, Settled, OnlyNewest
  <2> QED BY <2>1, PluginThreads DEF Settled
<1>4. at'[Ctl] = at[Ctl] /\ result'[Ctl] = result[Ctl]
  BY <1>1, CallEffect
<1>5. StopsIt'
  BY <1>2, <1>4 DEF Settled, StopsIt, Good
<1>6. SUFFICES /\ \A x \in Sockets : Underway(x)' => Flowing(a)' /\ x = reader'["ctrl"]
               /\ Delivers(a)'
  <2>1. acq_thread' = a /\ acq_thread # None
    BY <1>2, <1>3, PluginThreads
  <2>2. OnlyNewest'
    BY <1>2, <1>3, <1>6, <2>1 DEF Settled, OnlyNewest
  <2> QED BY <1>5, <1>6, <2>1, <2>2 DEF Settled
<1>7. CASE loop[a] = "fetching"
  BY <1>3, <1>7, FrameSettled
<1>8. CASE loop[a] = "started"
  <2>1. call[a] = Ask("ctrl", "START", a) /\ at[a] \in {"connect", "assign", "write"}
    BY <1>1, <1>8 DEF LoopCalls, LoopBlock, Asking, Calm
  <2>2. \/ at[a] # "write" /\ at'[a] \in {"assign", "write"}
        \/ /\ at[a] = "write" /\ at'[a] = "idle" /\ sock["ctrl"] = reader["ctrl"]
           /\ reader'["ctrl"] = reader["ctrl"] /\ FlowOf(reader["ctrl"], 0)'
    <3>1. PICK tag \in Tags : tag = a
      BY <1>1, PluginThreads
    <3> QED BY <1>1, <2>1, <3>1, StartCall DEF Calm
  <2>3. \A x \in Sockets : ~Underway(x)
    BY <1>1, <1>3, <1>8 DEF Settled, OnlyNewest, Flowing
  <2>4. \A x \in Sockets : Underway(x)' => at[a] = "write" /\ x = sock["ctrl"]
    BY <1>1, <2>1, <2>3, CallRuns DEF Object, Ask
  <2>5. acquired = 0 /\ acquired' = 0
    BY <1>1, <1>2, <1>3, <1>8 DEF Delivers, Asking
  <2>6. Flowing(a)' <=> at'[a] = "idle"
    BY <1>2, <1>8 DEF Flowing
  <2>7. Got(a)' = 0
    BY <1>2, <1>8, <2>5 DEF Got
  <2>8. Flowing(a)' => FlowOf(reader["ctrl"], Got(a))'
    BY <2>2, <2>6, <2>7 DEF FlowOf
  <2>9. Delivers(a)'
    BY <1>2, <1>3, <1>8, <2>5, <2>8, PluginThreads DEF Delivers
  <2> QED BY <2>2, <2>4, <2>6, <2>9
<1>9. CASE loop[a] \in {"updating", "closing", "raising", "stopping"}
  <2>1. ~Flowing(a) /\ ~Flowing(a)'
    BY <1>2, <1>9 DEF Flowing
  <2>2. \A x \in Sockets : ~Underway(x)'
    BY <1>1, <1>3, <1>9, <2>1, CallRuns DEF LoopCalls, Ask, Settled, OnlyNewest
  <2>3. loop[a] = "updating" /\ at'[a] = "idle" => result'[a] = "reply"
    <3>1. loop[a] = "updating" => call[a].command = "COMMAND" /\ Object(a) \notin crossed'
      BY <1>1 DEF Calm, LoopCalls, Ask
    <3> QED BY <1>1, <3>1, AnswerGiven DEF Answered, AnswersTo, Ends
  <2>4. Delivers(a)'
    BY <1>2, <1>3, <1>9, <2>1, <2>3 DEF Delivers, Asking
  <2> QED BY <2>2, <2>4
<1> QED BY <1>1, <1>7, <1>8, <1>9 DEF LoopCalls

-----------------------------------------------------------------------------
(* An undisturbed plugin: the threads of the acquisitions *)

\* What a step of an acquisition's thread leaves alone.
LEMMA LoopLeavesBe ==
  ASSUME PluginInv, NEW a \in Acqs, LoopStep(a)
  PROVE  /\ CtrlSame
         /\ UNCHANGED <<reader, crossed, request, replies, handler, left>>
         /\ \A u \in Threads \ {a} : /\ at'[u] = at[u] /\ call'[u] = call[u]
                                     /\ waits'[u] = waits[u] /\ result'[u] = result[u]
         /\ UNCHANGED threadVars => at'[a] = at[a] /\ result'[a] = result[a]
<1>1. /\ a \in Threads /\ {"ctrl", "stop"} \subseteq Objects
      /\ {"COMMAND", "START", "FRAME", "CLOSE", "STOP"} \subseteq Commands
  BY PluginThreads DEF Commands
<1>2. CASE UNCHANGED threadVars
  BY <1>2, Quiet
<1> QED BY <1>1, <1>2, LoopShape, LoopAsks

\* The threads of older acquisitions only clear _acq.
LEMMA OlderClears ==
  ASSUME PluginInv, Settled, NEW a \in Acqs, a # acq_thread, LoopStep(a)
  PROVE  LoopFinally(a)
<1>1. loop[a] = "finally"
  BY LoopMoves DEF Settled, OnlyNewest
<1> QED BY <1>1 DEF LoopStep, LoopBegins, LoopPrepares, LoopPrepared, LoopStarts, LoopStarted, LoopFetches,
     LoopFrame, LoopStored, LoopFinishes, LoopFails, LoopStops, LoopLeaves, LoopReady, From

\* The thread goes from frame to frame and loses none.
LEMMA LoopFlows ==
  ASSUME PluginInv, Calm, NEW a \in Acqs, LoopStep(a)
  PROVE  /\ Flowing(a)' <=> Flowing(a)
         /\ Flowing(a) => Got(a)' = Got(a)
<1>8. /\ a \in Threads /\ "ctrl" \in Objects
      /\ {"COMMAND", "START", "FRAME", "CLOSE", "STOP"} \subseteq Commands
  BY PluginThreads DEF Commands
<1>9. ASSUME From(a, "next", "fetching"), Begin(a, "ctrl", "FRAME", a)
      PROVE  at'[a] = "reading" /\ loop'[a] = "fetching" /\ loop[a] = "next"
  BY <1>8, <1>9, LoopAsks
<1>10. ASSUME From(a, "starting", "started"), Begin(a, "ctrl", "START", a)
       PROVE  at'[a] = "connect" /\ loop'[a] = "started" /\ loop[a] = "starting"
  BY <1>8, <1>10, LoopAsks
<1> USE DEF PluginInv, PluginTypes, From, Idle, OnlyLoop, Flowing, Got
<1>0. /\ a \in Threads /\ at[a] = "idle" /\ loop \in [Acqs -> Loops] /\ LoopBlock(a)
      /\ UNCHANGED threadVars => at'[a] = at[a] /\ result'[a] = result[a]
      /\ "ctrl" \in Objects /\ {"COMMAND", "START", "FRAME", "CLOSE", "STOP"} \subseteq Commands
      /\ LoopCalls(a) /\ acquired \in Nat
  BY PluginThreads, LoopMoves, LoopLeavesBe DEF Commands
<1>1. CASE UNCHANGED threadVars
  <2>1. CASE LoopStarted(a)
    BY <1>0, <1>1, <2>1 DEF LoopStarted, LoopBlock, Calm
  <2>2. CASE LoopFrame(a)
    BY <1>0, <1>1, <2>2 DEF LoopFrame
  <2>3. CASE LoopStored(a)
    BY <1>0, <1>1, <2>3 DEF LoopStored
  <2>4. CASE LoopBegins(a) \/ LoopPrepared(a) \/ LoopReady(a) \/ LoopFinally(a)
             \/ From(a, "iterating", "starting")
    BY <1>0, <1>1, <2>4 DEF LoopBegins, LoopPrepared, LoopReady, LoopFinally
  <2>5. ASSUME NEW o, NEW c, Begin(a, o, c, a) PROVE FALSE
    BY <1>0, <1>1, <2>5 DEF Begin, Goes, threadVars, clientVars, SharedInv, ThreadsTypeOK
  <2> QED BY <2>1, <2>2, <2>3, <2>4, <2>5 DEF LoopStep, LoopStarts, LoopFetches, LoopFinishes,
        LoopFails, LoopStops, LoopLeaves, LoopPrepares
<1>2. CASE From(a, "next", "fetching") /\ Begin(a, "ctrl", "FRAME", a)
  <2>1. at'[a] = "reading" /\ loop'[a] = "fetching" /\ loop[a] = "next"
    BY <1>2, <1>9
  <2>2. acquired' = acquired
    BY <1>2, <2>1 DEF LoopStep, LoopBegins, LoopPrepares, LoopPrepared, LoopStarts, LoopStarted, LoopFetches,
     LoopFrame, LoopStored, LoopFinishes, LoopFails, LoopStops, LoopLeaves, LoopReady, LoopFinally
  <2> QED BY <1>0, <2>1, <2>2
<1>3. CASE From(a, "starting", "started") /\ Begin(a, "ctrl", "START", a)
  <2>1. at'[a] = "connect" /\ loop'[a] = "started" /\ loop[a] = "starting"
    BY <1>3, <1>10
  <2> QED BY <2>1
<1>4. CASE /\ From(a, "finished", "closing") \/ From(a, "failed", "stopping")
              \/ From(a, "stopping", "raising") \/ From(a, "iterating", "updating")
  BY <1>0, <1>4
<1>5. CASE LoopFinishes(a) \/ LoopFails(a) \/ LoopStops(a)
  BY <1>0, <1>5 DEF LoopFinishes, LoopFails, LoopStops
<1>6. CASE LoopBegins(a) \/ LoopPrepared(a) \/ LoopStarted(a) \/ LoopFrame(a) \/ LoopStored(a)
           \/ LoopReady(a) \/ LoopFinally(a)
  BY <1>1, <1>6 DEF LoopBegins, LoopPrepared, LoopStarted, LoopFrame, LoopStored, LoopReady, LoopFinally
<1>7. CASE LoopPrepares(a) \/ LoopStarts(a) \/ LoopFetches(a) \/ LoopLeaves(a)
  BY <1>1, <1>2, <1>3, <1>4, <1>7 DEF LoopPrepares, LoopStarts, LoopFetches, LoopLeaves
<1> QED BY <1>5, <1>6, <1>7 DEF LoopStep

\* The acquisition delivers what it got.
LEMMA LoopDelivers ==
  ASSUME PluginInv, Calm, Settled, NEW a \in Acqs, a = acq_thread, LoopStep(a)
  PROVE  Delivers(a)'
<1>1. /\ Delivers(a) /\ LoopBlock(a) /\ at[a] = "idle" /\ loop \in [Acqs -> Loops]
      /\ acquired \in Nat /\ status \in Statuses /\ StopsIt
      /\ asked' = asked /\ "ctrl" \notin crossed
  BY PluginThreads, LoopMoves DEF Settled, PluginInv, PluginTypes, Calm
<1>2. UNCHANGED threadVars => at'[a] = at[a] /\ result'[a] = result[a]
  BY LoopLeavesBe
<1>3. Flowing(a)' => FlowOf(reader["ctrl"], Got(a))'
  <2>1. SUFFICES ASSUME Flowing(a)' PROVE FlowOf(reader["ctrl"], Got(a))'
    OBVIOUS
  <2>2. Flowing(a) /\ Got(a)' = Got(a) /\ reader["ctrl"] \in Sides("ctrl") /\ CtrlSame
        /\ reader'["ctrl"] = reader["ctrl"]
    BY <2>1, LoopFlows, LoopLeavesBe, FlowingHeld DEF Held, Calm
  <2>3. PICK got : got = Got(a)
    OBVIOUS
  <2>4. FlowOf(reader["ctrl"], got)'
    BY <1>1, <2>2, <2>3, SameFlow DEF Delivers
  <2> QED BY <2>2, <2>3, <2>4 DEF FlowOf
<1>4. ASSUME UNCHANGED <<acquired, status>>,
             \/ loop'[a] \in {"iterating", "updating", "starting", "next"}
             \/ loop'[a] = "fetching" /\ at'[a] # "idle"
             \/ loop'[a] = "started" /\ acquired = 0
             \/ loop'[a] \in {"stopping", "raising"},
             loop'[a] \in {"iterating", "updating", "starting"} => acquired = 0,
             loop[a] \notin {"new", "unstarted", "finally", "over"},
             loop'[a] = "updating" => at'[a] # "idle"
      PROVE  Delivers(a)'
  BY <1>1, <1>3, <1>4 DEF Delivers, Asking
<1> USE DEF From, Idle, OnlyLoop
<1>5. CASE LoopBegins(a)
  BY <1>1, <1>2, <1>3, <1>5 DEF LoopBegins, Delivers, Asking
<1>6. CASE LoopPrepares(a)
  <2>1. loop'[a] = "updating" => at'[a] = "connect"
    BY <1>1, <1>6, PluginThreads DEF LoopPrepares, Begin, Goes, PluginInv, SharedInv, ThreadsTypeOK
  <2> QED BY <1>1, <1>4, <1>6, <2>1 DEF LoopPrepares, Delivers
<1>7. CASE LoopPrepared(a)
  BY <1>1, <1>4, <1>7 DEF LoopPrepared, Delivers
<1>8. CASE LoopStarts(a) \/ LoopStarted(a)
  BY <1>1, <1>4, <1>8 DEF LoopStarts, LoopStarted, Delivers, LoopBlock
<1>9. CASE LoopFetches(a)
  <2>1. loop'[a] = "fetching" /\ at'[a] = "reading"
    BY <1>1, <1>9, PluginThreads DEF LoopFetches, Begin, Goes, PluginInv, SharedInv, ThreadsTypeOK
  <2> QED BY <1>1, <1>4, <1>9, <2>1 DEF LoopFetches
<1>10. CASE LoopFrame(a)
  BY <1>1, <1>2, <1>3, <1>10 DEF LoopFrame, Delivers, Asking
<1>11. CASE LoopStored(a)
  BY <1>1, <1>2, <1>3, <1>11 DEF LoopStored, Delivers, Asking
<1>12. CASE LoopFinishes(a)
  <2>1. stopped[a] => a \in asked \/ loop[a] # "fetching"
    BY <1>1 DEF StopsIt
  <2> QED BY <1>1, <1>3, <1>12, <2>1 DEF LoopFinishes, Delivers, Asking
<1>13. CASE LoopFails(a) \/ LoopStops(a) \/ LoopLeaves(a)
  BY <1>1, <1>4, <1>13 DEF LoopFails, LoopStops, LoopLeaves, LoopBlock
<1>14. CASE LoopReady(a)
  BY <1>1, <1>2, <1>3, <1>14 DEF LoopReady, Delivers, Asking
<1>15. CASE LoopFinally(a)
  BY <1>1, <1>2, <1>3, <1>15 DEF LoopFinally, Delivers, Asking
<1> QED BY <1>5, <1>6, <1>7, <1>8, <1>9, <1>10, <1>11, <1>12, <1>13, <1>14, <1>15 DEF LoopStep

\* A step of an acquisition's thread.
LEMMA LoopSettled ==
  ASSUME PluginInv, Calm, Calm', Settled, NEW a \in Acqs, LoopStep(a)
  PROVE  Settled'
<1>1. /\ \E there \in Loops \ {"absent", "unstarted", "new"} : loop' = [loop EXCEPT ![a] = there]
      /\ loop[a] \notin {"absent", "unstarted", "over"} /\ at[a] = "idle"
      /\ UNCHANGED <<method, target, prepares, stops, outcome, acq_thread, asked>>
      /\ loop \in [Acqs -> Loops] /\ stopped \in [Acqs -> BOOLEAN]
  BY LoopMoves DEF PluginInv, PluginTypes
<1>2. /\ \A u \in Threads \ {a} : at'[u] = at[u] /\ call'[u] = call[u] /\ result'[u] = result[u]
      /\ UNCHANGED <<reader, request, handler>> /\ CtrlSame
  BY LoopLeavesBe
<1>3. at'[Ctl] = at[Ctl] /\ result'[Ctl] = result[Ctl]
  BY <1>2, PluginThreads
<1>4. OnlyNewest /\ StopsIt
  BY DEF Settled
<1>5. a # acq_thread => LoopFinally(a)
  BY OlderClears
<1>6. LoopFinally(a) => /\ loop'[a] = "over" /\ acq' = None
                        /\ acq \in {None, a} \/ method \notin {"length", "tested"}
                        /\ UNCHANGED <<threadVars, status, acquired, stopped>>
  BY <1>1 DEF LoopFinally, From, Calm
<1>7. acq' = acq \/ LoopFinally(a)
  BY DEF LoopStep, LoopBegins, LoopPrepares, LoopPrepared, LoopStarts, LoopStarted, LoopFetches, OnlyLoop,
     LoopFrame, LoopStored, LoopFinishes, LoopFails, LoopStops, LoopLeaves, LoopReady, LoopFinally
<1>8. loop[a] = "finally" => LoopFinally(a)
  BY DEF LoopStep, LoopBegins, LoopPrepares, LoopPrepared, LoopStarts, LoopStarted, LoopFetches,
     LoopFrame, LoopStored, LoopFinishes, LoopFails, LoopStops, LoopLeaves, LoopReady, From
<1>9. OnlyNewest'
  <2>1. \A x \in Sockets : Underway(x)' <=> Underway(x)
    BY <1>2 DEF Underway
  <2>2. acq_thread # None /\ Flowing(acq_thread) => Flowing(acq_thread)'
    <3>1. CASE a = acq_thread
      BY <3>1, <1>1, LoopFlows
    <3>2. CASE a # acq_thread
      <4>1. ASSUME NEW b \in Acqs, b # a, Flowing(b) PROVE Flowing(b)'
        BY <1>1, <1>2, <4>1, PluginThreads DEF Flowing
      <4> QED BY <1>1, <3>2, <4>1 DEF PluginInv, PluginTypes
    <3> QED BY <3>1, <3>2
  <2>3. acq' \in {None, acq_thread'}
    BY <1>1, <1>4, <1>6, <1>7 DEF OnlyNewest
  <2>4. acq_thread' # None => loop'[acq_thread'] # "absent"
    BY <1>1, <1>4 DEF OnlyNewest
  <2>5. \A b \in Acqs : b # acq_thread' => loop'[b] \in {"absent", "unstarted", "finally", "over"}
    BY <1>1, <1>4, <1>5, <1>6 DEF OnlyNewest
  <2>6. acq_thread' # None /\ method' \in {"nb_frames", "nb_cycles"}
          => loop'[acq_thread'] \in {"unstarted", "finally", "over"}
    BY <1>1, <1>4, <1>6, <1>8 DEF OnlyNewest
  <2>7. \A x \in Sockets : Underway(x)'
          => acq_thread' # None /\ Flowing(acq_thread)' /\ x = reader'["ctrl"]
    BY <1>1, <1>2, <1>4, <2>1, <2>2 DEF OnlyNewest
  <2>8. acq_thread' = None => acquired' = 0
    BY <1>1, <1>4, <1>5, <1>6, PluginThreads DEF OnlyNewest
  <2> QED BY <2>3, <2>4, <2>5, <2>6, <2>7, <2>8 DEF OnlyNewest
<1>10. StopsIt'
  <2>1. method' \notin {"none", "tested"} /\ at'[Ctl] = "idle" => Good'
    BY <1>1, <1>3, <1>4 DEF StopsIt, Good
  <2>2. method' \in {"length", "tested"}
          => acq_thread' # None /\ (acq' = acq_thread' \/ loop'[acq_thread'] = "over")
    BY <1>1, <1>4, <1>6, <1>7, PluginThreads DEF StopsIt
  <2>3. outcome' # "none" /\ acq_thread' # None => loop'[acq_thread'] \in {"unstarted", "over"}
    BY <1>1, <1>4 DEF StopsIt
  <2>4. ASSUME NEW b \in Acqs, stopped'[b]
        PROVE  b \in asked' \/ loop'[b] \in {"stopping", "raising", "finally", "over"}
    <3>1. CASE LoopStops(a)
      <4>1. b # a => stopped[b]
        BY <1>1, <2>4, <3>1 DEF LoopStops
      <4>2. loop'[a] = "stopping"
        BY <1>1, <3>1 DEF LoopStops, From
      <4> QED BY <1>1, <1>4, <4>1, <4>2 DEF StopsIt
    <3>2. CASE ~LoopStops(a)
      <4>1. stopped[b]
        BY <2>4, <3>2 DEF LoopStep, LoopBegins, LoopPrepares, LoopPrepared, LoopStarts, LoopStarted,
           LoopFetches, OnlyLoop, LoopFrame, LoopStored, LoopFinishes, LoopFails, LoopLeaves,
           LoopReady, LoopFinally
      <4>2. loop[a] \in {"stopping", "raising", "finally"} => loop'[a] \in {"raising", "finally", "over"}
        BY <1>1 DEF LoopStep, LoopBegins, LoopPrepares, LoopPrepared, LoopStarts, LoopStarted,
           LoopFetches, LoopFrame, LoopStored, LoopFinishes, LoopFails, LoopStops, LoopLeaves,
           LoopReady, LoopFinally, From
      <4> QED BY <1>1, <1>4, <4>1, <4>2 DEF StopsIt
    <3> QED BY <3>1, <3>2
  <2> QED BY <2>1, <2>2, <2>3, <2>4 DEF StopsIt
<1>11. acq_thread' # None => Delivers(acq_thread)'
  <2>1. CASE a = acq_thread
    BY <1>1, <2>1, LoopDelivers
  <2>2. CASE a # acq_thread /\ acq_thread # None
    <3>1. PICK b \in Acqs : b = acq_thread
      BY <2>2 DEF PluginInv, PluginTypes
    <3>2. /\ loop'[b] = loop[b] /\ at'[b] = at[b] /\ result'[b] = result[b]
          /\ UNCHANGED <<acquired, status, asked, reader, crossed>> /\ Delivers(b)
      BY <1>1, <1>2, <1>5, <1>6, <2>2, <3>1, PluginThreads, LoopLeavesBe DEF Settled
    <3>3. (Flowing(b)' <=> Flowing(b)) /\ Got(b)' = Got(b)
      BY <3>2 DEF Flowing, Got
    <3>4. ASSUME Flowing(b) PROVE FlowOf(reader["ctrl"], Got(b))'
      <4>1. PICK got : got = Got(b)
        OBVIOUS
      <4>2. FlowOf(reader["ctrl"], got)'
        BY <1>2, <3>2, <3>4, <4>1, FlowingHeld, SameFlow DEF Delivers, Calm, Held
      <4> QED BY <3>3, <4>1, <4>2 DEF FlowOf
    <3>5. Delivers(b)'
      BY <3>2, <3>3, <3>4 DEF Delivers, Asking
    <3> QED BY <1>1, <3>1, <3>5
  <2> QED BY <1>1, <2>1, <2>2
<1> QED BY <1>9, <1>10, <1>11 DEF Settled

-----------------------------------------------------------------------------
(* An undisturbed plugin: its methods *)

\* What a step of the methods leaves alone.
LEMMA CtlLeavesBe ==
  ASSUME PluginInv, CtlStep
  PROVE  /\ CtrlSame
         /\ UNCHANGED <<reader, crossed, request, replies, handler, left>>
         /\ \A a \in Acqs : at'[a] = at[a] /\ result'[a] = result[a]
         /\ at'[Ctl] = "idle" => UNCHANGED threadVars /\ result'[Ctl] = result[Ctl]
<1>0. /\ Ctl \in Threads /\ Ctl \in Tags /\ {"ctrl", "stop"} \subseteq Objects
      /\ {"COMMAND", "STOP"} \subseteq Commands
      /\ \A a \in Acqs : a \in Threads \ {Ctl}
  BY PluginThreads DEF Commands
<1>1. \/ UNCHANGED threadVars
      \/ Begin(Ctl, "ctrl", "COMMAND", Ctl)
      \/ Begin(Ctl, "stop", "STOP", Ctl)
  BY DEF CtlStep, CtlReturns, PrepareAcq, StartAcq, StopAcq, PrepareReads, PrepareEnds,
     StopMeasured, StopTested, StopJoins, MethodRaises
<1> QED BY <1>0, <1>1, Quiet, BeginEffect DEF PluginInv

\* An acquisition delivers its frames where nothing happens to it.
LEMMA SameDelivers ==
  ASSUME PluginInv, Calm, NEW a \in Acqs, Delivers(a), CtrlSame,
         loop'[a] = loop[a], at'[a] = at[a], result'[a] = result[a],
         UNCHANGED <<reader, acquired, status>>, asked \subseteq asked'
  PROVE  Delivers(a)' /\ (Flowing(a)' <=> Flowing(a))
<1>1. (Flowing(a)' <=> Flowing(a)) /\ Got(a)' = Got(a)
  BY DEF Flowing, Got
<1>2. ASSUME Flowing(a) PROVE FlowOf(reader["ctrl"], Got(a))'
  <2>1. PICK got : got = Got(a)
    OBVIOUS
  <2>2. FlowOf(reader["ctrl"], got)'
    BY <1>2, <2>1, FlowingHeld, SameFlow DEF Delivers, Calm, Held
  <2> QED BY <1>1, <2>1, <2>2 DEF FlowOf
<1> QED BY <1>1, <1>2 DEF Delivers, Asking

\* Lima prepares an acquisition when the one before is over, or never started.
LEMMA IdleIsOver ==
  ASSUME PluginInv, Settled, LimaIdle, acq_thread # None
  PROVE  loop[acq_thread] \in {"unstarted", "finally", "over"}
<1>1. loop[acq_thread] \in {"unstarted", "new", "finally", "over"}
  BY DEF LimaIdle, Settled, Delivers
<1>2. loop[acq_thread] = "new" => outcome = "none" /\ acquired = 0
  BY DEF Settled, StopsIt, Delivers
<1> QED BY <1>1, <1>2, PluginThreads DEF LimaIdle

\* The methods that leave the acquisition and its thread alone.
LEMMA MethodSettled ==
  ASSUME PluginInv, Calm, Settled, CtlStep,
         UNCHANGED <<loop, acq, acq_thread, status, acquired>>, asked \subseteq asked',
         acq_thread # None /\ method' \in {"nb_frames", "nb_cycles"}
           => loop[acq_thread] \in {"unstarted", "finally", "over"},
         method' \notin {"none", "tested"} /\ at'[Ctl] = "idle" => Good',
         method' \in {"length", "tested"}
           => acq_thread # None /\ (acq = acq_thread \/ loop[acq_thread] = "over"),
         outcome' # "none" /\ acq_thread # None => loop[acq_thread] \in {"unstarted", "over"},
         \A a \in Acqs : stopped'[a] => stopped[a] \/ a \in asked'
  PROVE  Settled'
<1>1. /\ CtrlSame /\ UNCHANGED <<reader, request, handler>>
      /\ \A a \in Acqs : at'[a] = at[a] /\ result'[a] = result[a]
  BY CtlLeavesBe
<1>2. acq_thread # None => acq_thread \in Acqs /\ Delivers(acq_thread)
  BY DEF Settled, PluginInv, PluginTypes
<1>3. \A a \in Acqs : Delivers(a) => Delivers(a)' /\ (Flowing(a)' <=> Flowing(a))
  BY <1>1, SameDelivers
<1>4. \A x \in Sockets : Underway(x)' <=> Underway(x)
  BY <1>1 DEF Underway
<1>5. OnlyNewest'
  BY <1>1, <1>2, <1>3, <1>4 DEF Settled, OnlyNewest
<1>6. StopsIt'
  BY DEF Settled, StopsIt
<1> QED BY <1>2, <1>3, <1>5, <1>6 DEF Settled

\* A step of the methods.
LEMMA CtlSettled ==
  ASSUME PluginInv, Calm, Settled, CtlStep
  PROVE  Settled'
<1>0. /\ CtrlSame /\ UNCHANGED <<reader, request, handler>>
      /\ \A a \in Acqs : at'[a] = at[a] /\ result'[a] = result[a]
      /\ at'[Ctl] = "idle" => UNCHANGED threadVars /\ result'[Ctl] = result[Ctl]
      /\ loop \in [Acqs -> Loops] /\ stopped \in [Acqs -> BOOLEAN] /\ acq_thread \in Acqs \cup {None}
      /\ None \notin Acqs /\ at \in [Threads -> Places] /\ Ctl \in Threads
  BY CtlLeavesBe, PluginThreads DEF PluginInv, PluginTypes, SharedInv, ThreadsTypeOK
<1>1. OnlyNewest /\ StopsIt
  BY DEF Settled
<1>2. \A x \in Sockets : Underway(x)' <=> Underway(x)
  BY <1>0 DEF Underway
<1>b. ASSUME NEW o, NEW c, Begin(Ctl, o, c, Ctl), c # "CLOSE" PROVE at'[Ctl] # "idle"
  BY <1>0, <1>b DEF Begin, Goes
<1>3. CASE PrepareAcq
  BY <1>0, <1>1, <1>3, <1>b, IdleIsOver, MethodSettled DEF PrepareAcq, StopsIt, loopVars
<1>4. CASE PrepareReads
  BY <1>0, <1>1, <1>4, <1>b, MethodSettled DEF PrepareReads, In, StopsIt, OnlyNewest, loopVars
<1>5. CASE StopAcq
  <2>1. CASE acq = None
    BY <1>0, <1>1, <1>5, <1>b, <2>1, MethodSettled DEF StopAcq, In, StopsIt, OnlyNewest, loopVars
  <2>2. CASE acq # None
    <3>1. acq = acq_thread /\ acq_thread # None
      BY <1>1, <2>2 DEF OnlyNewest
    <3>2. method' \in {"tested", "length"} /\ (method' = "length" => at'[Ctl] # "idle")
      BY <1>5, <1>b, <2>2 DEF StopAcq
    <3> QED BY <1>1, <1>5, <3>1, <3>2, MethodSettled DEF StopAcq, StopsIt, loopVars
  <2> QED BY <2>1, <2>2
<1>6. CASE StopMeasured
  BY <1>1, <1>6, MethodSettled DEF StopMeasured, In, StopsIt, loopVars
<1>7. CASE StopTested
  BY <1>0, <1>1, <1>7, <1>b, MethodSettled DEF StopTested, StopsIt, loopVars
<1>8. CASE StopJoins
  BY <1>1, <1>8, MethodSettled DEF StopJoins, StopsIt, loopVars
<1>9. CASE MethodRaises
  <2>1. ~Preparing /\ (acq_thread # None => loop[acq_thread] \in {"unstarted", "over"})
    BY <1>1, <1>9 DEF MethodRaises, Preparing, In, Idle, StopsIt
  <2> QED BY <1>1, <1>9, <2>1, MethodSettled DEF MethodRaises, StopsIt, loopVars
<1>10. CASE PrepareEnds
  <2>1. /\ prepares \in Acqs /\ loop[prepares] = "absent" /\ method = "nb_cycles" /\ method' = "none"
        /\ loop' = [loop EXCEPT ![prepares] = "unstarted"] /\ acq' = prepares
        /\ acq_thread' = prepares /\ acquired' = 0 /\ UNCHANGED <<outcome, asked, status, stopped>>
    BY <1>10 DEF PrepareEnds, In, PluginInv, CtlCalls
  <2>2. acq_thread # None => loop[acq_thread] \in {"unstarted", "finally", "over"}
    BY <1>1, <2>1 DEF OnlyNewest
  <2>3. \A x \in Sockets : ~Underway(x)'
    BY <1>1, <1>2, <2>2 DEF OnlyNewest, Flowing
  <2>4. OnlyNewest'
    BY <1>0, <1>1, <2>1, <2>2, <2>3 DEF OnlyNewest
  <2>5. StopsIt'
    BY <1>0, <1>1, <2>1 DEF StopsIt
  <2>6. PICK a \in Acqs : a = prepares
    BY <2>1
  <2>7. Delivers(a)'
    BY <1>0, <2>1, <2>6, PluginThreads DEF Delivers, Asking, Flowing
  <2> QED BY <2>1, <2>4, <2>5, <2>6, <2>7 DEF Settled
<1>11. CASE StartAcq
  <2>1. PICK a \in Acqs : a = acq_thread /\ loop[a] = "unstarted"
    BY <1>0, <1>11 DEF StartAcq
  <2>2. /\ loop' = [loop EXCEPT ![a] = "new"] /\ outcome' = "none" /\ method = "none" /\ Delivers(a)
        /\ UNCHANGED <<method, acq_thread, acq, asked, status, acquired, stopped>>
        /\ \A x \in Sockets : ~Underway(x)'
    BY <1>0, <1>1, <1>2, <1>11, <2>1 DEF StartAcq, In, OnlyNewest, Flowing, Settled
  <2>3. OnlyNewest'
    BY <1>0, <1>1, <2>1, <2>2 DEF OnlyNewest
  <2>4. StopsIt'
    BY <1>0, <1>1, <2>1, <2>2 DEF StopsIt
  <2>5. Delivers(a)'
    BY <1>0, <2>1, <2>2, PluginThreads DEF Delivers, Asking, Flowing
  <2> QED BY <2>1, <2>2, <2>3, <2>4, <2>5 DEF Settled
<1> QED BY <1>3, <1>4, <1>5, <1>6, <1>7, <1>8, <1>9, <1>10, <1>11
     DEF CtlStep, CtlReturns

-----------------------------------------------------------------------------
(* The theorems *)

\* What was disturbed stays so.
LEMMA CalmBack ==
  ASSUME PluginInv, [LimaNext]_pluginVars, Calm'
  PROVE  Calm
<1>1. crossed \subseteq crossed'
  <2>1. ASSUME NEW t \in Threads, Calling(t) PROVE crossed \subseteq crossed'
    BY <2>1, CallEffect DEF Calling, PluginInv
  <2>2. ASSUME (\E s \in Sockets : Serving(s)) \/ Stopped PROVE crossed \subseteq crossed'
    <3>1. UNCHANGED clientVars
      BY <2>2, ServerTouches DEF Serving, Stopped, PluginInv
    <3> QED BY <3>1 DEF clientVars
  <2>3. CASE UNCHANGED pluginVars
    BY <2>3 DEF pluginVars, threadVars, clientVars
  <2> QED BY <2>1, <2>2, <2>3, CtlLeavesBe, LoopLeavesBe DEF LimaNext
<1>2. wiped => wiped'
  BY DEF LimaNext, CtlStep, CtlReturns, PrepareAcq, StartAcq, StopAcq, PrepareReads,
     PrepareEnds, StopMeasured, StopTested, StopJoins, MethodRaises, LoopStep, LoopBegins, LoopPrepares,
     LoopPrepared, LoopStarts, LoopStarted, LoopFetches, LoopFrame, LoopStored, LoopFinishes, LoopFails,
     LoopStops, LoopLeaves, LoopReady, LoopFinally, Calling, Serving, Stopped, OnlyLoop, limaVars,
     loopVars, pluginVars
<1> QED BY <1>1, <1>2 DEF Calm

\* The invariant of the plugin: Init, Next, and what it says.
LEMMA LimaInvariant == LimaSpec => []LimaInv
<1>1. LimaInit => LimaInv
  BY PluginInit, SettledInit DEF LimaInv
<1>2. ASSUME LimaInv, [LimaNext]_pluginVars PROVE LimaInv'
  <2>1. PluginInv /\ PluginInv'
    BY <1>2, PluginNext DEF LimaInv
  <2>2. ASSUME Calm' PROVE Settled'
    <3>1. Calm /\ Settled
      BY <1>2, <2>1, <2>2, CalmBack DEF LimaInv
    <3>2. ASSUME NEW t \in Threads, Calling(t) PROVE Settled'
      BY <2>1, <2>2, <3>1, <3>2, CtlCallSettled, LoopCallSettled, PluginThreads
    <3>3. CASE UNCHANGED pluginVars
      <4>1. UNCHANGED <<acq, acq_thread, status, acquired, method, loop, stopped, outcome, asked, at,
                        result, reader, request, replies, handler, left>>
        BY <3>3 DEF pluginVars, limaVars, methodVars, loopVars, threadVars, clientVars, serverVars
      <4>2. Settled' <=> Settled
        BY <4>1 DEF Settled, OnlyNewest, StopsIt, Delivers, Good, Asking, Flowing, Got, FlowOf, Underway
      <4> QED BY <3>1, <4>2
    <3> QED BY <1>2, <2>1, <2>2, <3>1, <3>2, <3>3, CtlSettled, LoopSettled, ServerSettled DEF LimaNext
  <2> QED BY <2>1, <2>2 DEF LimaInv
<1> QED BY <1>1, <1>2, PTL DEF LimaSpec

\* Every variable of the plugin keeps its type, and an acquisition that was not
\* disturbed never counts more than its frames.
THEOREM LimaTypeOKCorrect == LimaSpec => []LimaTypeOK
<1>1. LimaInv => LimaTypeOK
  <2>1. SUFFICES ASSUME LimaInv PROVE LimaTypeOK
    OBVIOUS
  <2>2. Calm => acquired <= Frames
    BY <2>1, PluginThreads DEF LimaInv, Settled, OnlyNewest, Delivers
  <2> QED BY <2>1, <2>2 DEF LimaInv, PluginInv, PluginTypes, SharedInv, LimaTypeOK, Calm
<1> QED BY <1>1, LimaInvariant, PTL

\* Once the thread of the acquisition runs, a plugin that is Ready has all the frames
\* of the acquisition, or Lima stopped it; whatever older threads still do.
THEOREM ReadyIsCompleteCorrect == LimaSpec => []ReadyIsComplete
<1>1. LimaInv => ReadyIsComplete
  <2>1. SUFFICES ASSUME LimaInv, status = "Ready", Started, Calm
                 PROVE  /\ loop[acq_thread] \in {"finally", "over"}
                        /\ acquired = Frames \/ acq_thread \in asked
    BY DEF ReadyIsComplete, Calm
  <2> QED BY <2>1 DEF LimaInv, Settled, Delivers, Started
<1> QED BY <1>1, LimaInvariant, PTL

\* Whenever stopAcq came back, the simulator produces no frame any more and the
\* thread of the acquisition is over, or it was never started.
THEOREM StopMeansReleasedCorrect == LimaSpec => []StopMeansReleased
<1>1. LimaInv => StopMeansReleased
  <2>1. SUFFICES ASSUME LimaInv, outcome # "none", Calm
                 PROVE  /\ \A s \in Sockets : handler[s] \notin {"spawned", "serving"}
                        /\ Started => loop[acq_thread] \in {"finally", "over"}
    BY DEF StopMeansReleased, Calm
  <2>2. acq_thread # None => loop[acq_thread] \in {"unstarted", "over"}
    BY <2>1 DEF LimaInv, Settled, StopsIt
  <2>3. \A s \in Sockets : ~Underway(s)
    BY <2>1, <2>2 DEF LimaInv, Settled, OnlyNewest, Flowing
  <2> QED BY <2>2, <2>3 DEF Underway, Started
<1> QED BY <1>1, LimaInvariant, PTL
=============================================================================
