---------------------------- MODULE LimaInterface ----------------------------
(***************************************************************************)
(* Interface, the Lima plugin of sls/lima/camera.py: the thread in which   *)
(* Lima calls prepareAcq, startAcq and stopAcq, and the thread of each     *)
(* acquisition, over the shared Detector of ClientThreads.  The threads    *)
(* share _status, _acq and the control Connection.                         *)
(***************************************************************************)
EXTENDS ClientThreads

CONSTANTS
  Ctl,          \* the thread that calls the plugin
  Prepares,     \* bound: calls of prepareAcq
  Stops         \* bound: calls of stopAcq

\* A client.Acquisition, and its thread, is named by its number.
Acqs == 1..Prepares

ASSUME LimaAssumption == /\ Prepares \in Nat /\ Stops \in Nat
                         /\ Ctl \notin Acqs /\ Threads = {Ctl} \cup Acqs

VARIABLES
  acq,          \* Interface._acq
  acq_thread,   \* Interface._acq_thread
  status,       \* Interface._status
  acquired,     \* Interface._nb_acquired_frames
  method,       \* where the control thread is in a method
  target,       \* the Acquisition whose length stopAcq asks for
  prepares,     \* calls of prepareAcq
  stops,        \* calls of stopAcq
  loop,         \* where the thread of each acquisition is
  info,         \* is client.Acquisition._info set?
  stopped,      \* client.Acquisition._stopped
  outcome,      \* how the last stopAcq ended, until the next startAcq
  asked,        \* history: acquisitions that stopAcq stopped
  wiped         \* history: did a thread clear the _acq that stopAcq was about to use?

methodVars == <<method, target, prepares, stops, outcome, acq_thread, asked>>
loopVars == <<status, acquired, loop, wiped>>
limaVars == <<methodVars, loopVars, acq, info, stopped>>
pluginVars == <<threadVars, limaVars>>

Statuses == {"Ready", "Exposure", "Readout"}
Loops == {"absent", "unstarted", "new", "iterating", "updating", "starting", "started", "next",
          "fetching", "frame", "last", "finished", "failed", "stopping", "closing", "raising",
          "finally", "over"}

LimaInit ==
  /\ ThreadsInit
  /\ acq = None /\ acq_thread = None
  /\ status = "Ready" /\ acquired = 0
  /\ method = "none" /\ target = None
  /\ prepares = 0 /\ stops = 0
  /\ loop = [a \in Acqs |-> "absent"]
  /\ info = [a \in Acqs |-> FALSE]
  /\ stopped = [a \in Acqs |-> FALSE]
  /\ outcome = "none" /\ asked = {} /\ wiped = FALSE

-----------------------------------------------------------------------------
(* The methods *)

In(place) == method = place /\ Idle(Ctl)
Good == result[Ctl] = "reply"

\* What Lima waits for before it prepares: a plugin that is Ready, and all the
\* frames of an acquisition that it started and did not stop.
LimaIdle ==
  /\ status = "Ready"
  /\ acq_thread # None /\ outcome = "none"
       => acquired = Frames \/ loop[acq_thread] = "unstarted"

\* prepareAcq: getNbHwFrames reads the frames and then the cycles.
PrepareAcq ==
  /\ In("none") /\ LimaIdle /\ prepares < Prepares
  /\ Begin(Ctl, "ctrl", "COMMAND", Ctl)
  /\ method' = "nb_frames"
  /\ prepares' = prepares + 1
  /\ UNCHANGED <<target, stops, outcome, acq_thread, asked, loopVars, acq, info, stopped>>

PrepareReads ==
  /\ In("nb_frames") /\ Good
  /\ Begin(Ctl, "ctrl", "COMMAND", Ctl)
  /\ method' = "nb_cycles"
  /\ UNCHANGED <<target, prepares, stops, outcome, acq_thread, asked, loopVars, acq, info, stopped>>

\* A new Acquisition and a new thread.
PrepareEnds ==
  /\ In("nb_cycles") /\ Good
  /\ acq' = prepares /\ acq_thread' = prepares
  /\ loop' = [loop EXCEPT ![prepares] = "unstarted"]
  /\ acquired' = 0
  /\ method' = "none"
  /\ UNCHANGED <<threadVars, target, prepares, stops, outcome, asked, status, wiped, info, stopped>>

StartAcq ==
  /\ In("none") /\ acq_thread # None /\ loop[acq_thread] = "unstarted"
  /\ loop' = [loop EXCEPT ![acq_thread] = "new"]
  /\ outcome' = "none"
  /\ UNCHANGED <<threadVars, method, target, prepares, stops, acq_thread, asked, status, acquired, wiped,
                 acq, info, stopped>>

\* stopAcq:  if self._acq  asks for the length of the Acquisition, which updates
\* the client if it has no info yet; without an _acq it stops the detector.
StopAcq ==
  /\ In("none") /\ stops < Stops
  /\ stops' = stops + 1
  /\ \/ /\ acq = None
        /\ Begin(Ctl, "stop", "STOP", Ctl)
        /\ method' = "stopping" /\ UNCHANGED target
     \/ /\ acq # None /\ info[acq]
        /\ method' = "tested"
        /\ UNCHANGED <<threadVars, target>>
     \/ /\ acq # None /\ ~info[acq]
        /\ Begin(Ctl, "ctrl", "COMMAND", Ctl)
        /\ method' = "length" /\ target' = acq
  /\ UNCHANGED <<prepares, outcome, acq_thread, asked, loopVars, acq, info, stopped>>

StopMeasured ==
  /\ In("length") /\ Good
  /\ info' = [info EXCEPT ![target] = TRUE]
  /\ method' = "tested" /\ target' = None
  /\ UNCHANGED <<threadVars, prepares, stops, outcome, acq_thread, asked, loopVars, acq, stopped>>

\* self._acq.stop(), of the _acq of this moment.
StopTested ==
  /\ In("tested") /\ acq # None
  /\ stopped' = [stopped EXCEPT ![acq] = TRUE]
  /\ asked' = asked \cup {acq}
  /\ Begin(Ctl, "stop", "STOP", Ctl)
  /\ method' = "stopping"
  /\ UNCHANGED <<target, prepares, stops, outcome, acq_thread, loopVars, acq, info>>

\* Mutant of StopJoins: the thread is not waited for.
StopWithoutJoin ==
  /\ In("stopping") /\ Good
  /\ method' = "none" /\ outcome' = "returned"
  /\ UNCHANGED <<threadVars, target, prepares, stops, acq_thread, asked, loopVars, acq, info, stopped>>

\* self._acq_thread.join()
StopJoins ==
  /\ In("stopping") /\ Good
  /\ acq_thread # None => loop[acq_thread] = "over"
  /\ method' = "none" /\ outcome' = "returned"
  /\ UNCHANGED <<threadVars, target, prepares, stops, acq_thread, asked, loopVars, acq, info, stopped>>

Preparing == method \in {"nb_frames", "nb_cycles"}

\* A method raises: the thread to join was never started (RuntimeError), the
\* acquisition's thread cleared _acq after the test (AttributeError), or one of
\* the commands failed, those of prepareAcq before it changed anything.
MethodRaises ==
  /\ \/ In("stopping") /\ Good /\ acq_thread # None /\ loop[acq_thread] = "unstarted"
     \/ In("tested") /\ acq = None
     \/ method \in {"nb_frames", "nb_cycles", "length", "stopping"} /\ Idle(Ctl) /\ ~Good
  /\ method' = "none"
  /\ outcome' = IF Preparing THEN outcome ELSE "raised"
  /\ UNCHANGED <<threadVars, target, prepares, stops, acq_thread, asked, loopVars, acq, info, stopped>>

CtlReturns == PrepareReads \/ PrepareEnds \/ StopMeasured \/ StopTested \/ StopJoins \/ MethodRaises
CtlStep    == PrepareAcq \/ StartAcq \/ StopAcq \/ CtlReturns

-----------------------------------------------------------------------------
(* The thread of an acquisition *)

From(a, here, there) == loop[a] = here /\ Idle(a) /\ loop' = [loop EXCEPT ![a] = there]
OnlyLoop == UNCHANGED <<methodVars, status, acquired, wiped, acq, info, stopped>>

LoopBegins(a) ==
  /\ From(a, "new", "iterating")
  /\ status' = "Exposure"
  /\ UNCHANGED <<threadVars, methodVars, acquired, wiped, acq, info, stopped>>

\* iter(acq): _prepare updates the client, unless the length was asked for.
LoopPrepares(a) ==
  \/ info[a] /\ From(a, "iterating", "starting") /\ UNCHANGED threadVars /\ OnlyLoop
  \/ /\ ~info[a] /\ From(a, "iterating", "updating")
     /\ Begin(a, "ctrl", "COMMAND", a)
     /\ OnlyLoop

\* An update that fails is before the generator: nobody is stopped.
LoopPrepared(a) ==
  /\ From(a, "updating", IF result[a] = "reply" THEN "starting" ELSE "finally")
  /\ info' = [info EXCEPT ![a] = @ \/ result[a] = "reply"]
  /\ UNCHANGED <<threadVars, methodVars, status, acquired, wiped, acq, stopped>>

\* The generator of client.Acquisition: START.
LoopStarts(a) ==
  /\ From(a, "starting", "started")
  /\ Begin(a, "ctrl", "START", a)
  /\ OnlyLoop

LoopStarted(a) ==
  /\ From(a, "started", IF result[a] = "reply" THEN "next" ELSE "failed")
  /\ UNCHANGED threadVars /\ OnlyLoop

LoopFetches(a) ==
  /\ From(a, "next", "fetching")
  /\ Begin(a, "ctrl", "FRAME", a)
  /\ OnlyLoop

\* A frame is copied to Lima's buffer.
LoopFrame(a) ==
  /\ result[a] \in {"frame", "last"}
  /\ From(a, "fetching", result[a])
  /\ status' = "Readout"
  /\ UNCHANGED <<threadVars, methodVars, acquired, wiped, acq, info, stopped>>

LoopStored(a) ==
  /\ From(a, "frame", "next") \/ From(a, "last", "finished")
  /\ acquired' = acquired + 1
  /\ status' = "Exposure"
  /\ UNCHANGED <<threadVars, methodVars, wiped, acq, info, stopped>>

\* FINISHED, and the SLSError of a stopped Acquisition, end the generator.
LoopFinishes(a) ==
  /\ \/ From(a, "finished", "closing")
     \/ stopped[a] /\ result[a] = "FAIL" /\ From(a, "fetching", "closing")
  /\ Begin(a, "ctrl", "CLOSE", a)
  /\ OnlyLoop

\* Another SLSError leaves the block.
LoopFails(a) ==
  /\ ~stopped[a] /\ result[a] = "FAIL"
  /\ From(a, "fetching", "raising")
  /\ Begin(a, "ctrl", "CLOSE", a)
  /\ OnlyLoop

\* Any other error stops the detector first.
LoopStops(a) ==
  /\ \/ From(a, "failed", "stopping")
     \/ /\ result[a] \notin {"frame", "last", "FAIL"}
        /\ From(a, "fetching", "stopping")
  /\ stopped' = [stopped EXCEPT ![a] = TRUE]
  /\ Begin(a, "stop", "STOP", a)
  /\ UNCHANGED <<methodVars, status, acquired, wiped, acq, info>>

LoopLeaves(a) ==
  /\ From(a, "stopping", "raising")
  /\ Begin(a, "ctrl", "CLOSE", a)
  /\ OnlyLoop

\* Mutant of LoopReady: an error does not keep the status.
LoopReadyAlways(a) ==
  /\ From(a, "closing", "finally") \/ From(a, "raising", "finally")
  /\ status' = "Ready"
  /\ UNCHANGED <<threadVars, methodVars, acquired, wiped, acq, info, stopped>>

\* The end of _acquisition_loop: an error skips the change of the status.
LoopReady(a) ==
  /\ From(a, "closing", "finally") \/ From(a, "raising", "finally")
  /\ status' = IF loop[a] = "closing" /\ result[a] # "error" THEN "Ready" ELSE status
  /\ UNCHANGED <<threadVars, methodVars, acquired, wiped, acq, info, stopped>>

\* self._acq = None, whatever acquisition it is: also that of a newer one, and
\* between the test of stopAcq and its use.
LoopFinally(a) ==
  /\ From(a, "finally", "over")
  /\ acq' = None
  /\ wiped' = (wiped \/ (acq \notin {None, a} /\ method \in {"length", "tested"}))
  /\ UNCHANGED <<threadVars, methodVars, status, acquired, info, stopped>>

LoopStep(a) ==
  \/ LoopBegins(a) \/ LoopPrepares(a) \/ LoopPrepared(a) \/ LoopStarts(a) \/ LoopStarted(a)
  \/ LoopFetches(a) \/ LoopFrame(a) \/ LoopStored(a) \/ LoopFinishes(a) \/ LoopFails(a)
  \/ LoopStops(a) \/ LoopLeaves(a) \/ LoopReady(a) \/ LoopFinally(a)

-----------------------------------------------------------------------------
Calling(t) == CallStep(t) /\ UNCHANGED limaVars
Serving(s) == ServerStep(s) /\ UNCHANGED limaVars
Stopped    == ForeignStop /\ UNCHANGED limaVars

LimaNext ==
  \/ CtlStep \/ Stopped
  \/ \E a \in Acqs : LoopStep(a)
  \/ \E t \in Threads : Calling(t)
  \/ \E s \in Sockets : Serving(s)

LimaSpec == LimaInit /\ [][LimaNext]_pluginVars

\* Threads are scheduled and the simulator runs; Lima need not call a method.
LimaFairness ==
  /\ WF_pluginVars(CtlReturns)
  /\ \A a \in Acqs : WF_pluginVars(LoopStep(a))
  /\ \A t \in Threads : WF_pluginVars(Calling(t))
  /\ \A s \in Sockets : WF_pluginVars(Serving(s))

LimaFairSpec == LimaSpec /\ LimaFairness

-----------------------------------------------------------------------------
(* Properties *)

LimaTypeOK ==
  /\ ThreadsTypeOK
  /\ {acq, acq_thread, target} \subseteq Acqs \cup {None}
  /\ status \in Statuses /\ acquired \in Nat
  /\ method \in {"none", "nb_frames", "nb_cycles", "length", "tested", "stopping"}
  /\ prepares \in 0..Prepares /\ stops \in 0..Stops
  /\ loop \in [Acqs -> Loops]
  /\ {info, stopped} \subseteq [Acqs -> BOOLEAN]
  /\ outcome \in {"none", "returned", "raised"} /\ asked \subseteq Acqs /\ wiped \in BOOLEAN
  /\ crossed = {} /\ ~wiped => acquired <= Frames

Started == acq_thread # None /\ loop[acq_thread] \notin {"unstarted", "new"}

\* Once the thread of the acquisition runs, Ready means that it is over and that
\* it delivered all its frames or Lima stopped it: neither a cut acquisition nor the
\* late thread of the one before makes Lima believe it is done.  A stopAcq that lost
\* its _acq to an older thread raises, and leaves a thread that may do so.
ReadyIsComplete ==
  status = "Ready" /\ Started /\ crossed = {} /\ ~wiped
     => /\ loop[acq_thread] \in {"finally", "over"}
        /\ acquired = Frames \/ acq_thread \in asked

\* When stopAcq comes back, also by raising, the detector produces no frame any
\* more and the thread is over: also if STOP overtook START, and if an older thread
\* cleared _acq, unless that was between the test and the use of _acq.
StopMeansReleased ==
  outcome # "none" /\ crossed = {} /\ ~wiped
     => /\ \A s \in Sockets : handler[s] \notin {"spawned", "serving"}
        /\ Started => loop[acq_thread] \in {"finally", "over"}

\* stopAcq comes back, unless two threads used a Connection at once or the
\* acquisition was killed before it ran.
StopComesBack ==
  (method \in {"length", "tested", "stopping"}) ~>
     (method = "none" \/ crossed # {} \/ \E s \in Sockets : handler[s] = "hung")
=============================================================================
