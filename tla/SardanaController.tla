-------------------------- MODULE SardanaController --------------------------
(***************************************************************************)
(* MythenSLSController (sls/sardana/ctrl/slsctrl.py) over AcquisitionThread *)
(* (sls/acquisition.py): the Sardana pool, which calls one method of the   *)
(* controller at a time, and the thread of each acquisition, over the      *)
(* shared Detector of ClientThreads.  An acquisition is started in the     *)
(* pool's thread and read in its own; an abort does not wait for it.       *)
(***************************************************************************)
EXTENDS ClientThreads

CONSTANTS
  Pool,         \* the pool's thread
  Loads,        \* bound: acquisitions the pool loads
  Aborts,       \* bound: acquisitions it aborts
  Pars          \* bound: controller parameters it reads or writes

\* An AcquisitionThread, and its thread, is named by its number.
Acqs == 1..Loads

ASSUME SardanaAssumption == /\ Loads \in Nat /\ Aborts \in Nat /\ Pars \in Nat
                            /\ Pool \notin Acqs /\ Threads = {Pool} \cup Acqs

VARIABLES
  acq,          \* MythenSLSController.acq
  method,       \* the controller's method that the pool is in
  todo,         \* commands that LoadOne or GetCtrlPar still has to send
  phase,        \* what the pool has done with its acquisition
  reported,     \* the last State that StateAll reported
  loop,         \* where the thread of each AcquisitionThread is
  stopping,     \* AcquisitionThread._stopping
  queued,       \* frames in AcquisitionThread.queue
  failed,       \* is there an error behind them?
  read,         \* frames of it that ReadOne returned
  told,         \* did ReadOne raise its error?
  spent,        \* loads, aborts and parameters so far
  raised        \* history: methods of the controller that raised an error

poolVars == <<acq, method, todo, phase, reported, read, told, spent, raised>>
loopVars == <<loop, stopping, queued, failed>>
sardanaVars == <<poolVars, loopVars>>
systemVars == <<threadVars, sardanaVars>>

Methods == {"none", "LoadOne", "StartOne", "StateAll", "AbortOne", "CtrlPar"}

\* "absent" has no object, "bare" an object whose prepare did not get to its
\* thread, "ready" a thread that was not started.
Loops == {"absent", "bare", "ready", "next", "fetching", "finished", "failed", "hidden",
          "raising", "hiding", "closing", "SLSError", "Exception", "over"}
Alive(a) == loop[a] \notin {"absent", "bare", "ready", "over"}

SardanaInit ==
  /\ ThreadsInit
  /\ acq = None /\ method = "none" /\ todo = 0
  /\ phase = "free" /\ reported = "On"
  /\ loop = [a \in Acqs |-> "absent"]
  /\ stopping = [a \in Acqs |-> FALSE]
  /\ queued = [a \in Acqs |-> 0]
  /\ failed = [a \in Acqs |-> FALSE]
  /\ read = [a \in Acqs |-> 0]
  /\ told = [a \in Acqs |-> FALSE]
  /\ spent = [what \in {"loads", "aborts", "pars"} |-> 0]
  /\ raised = {}

-----------------------------------------------------------------------------
(* The pool *)

Free == method = "none" /\ Idle(Pool)
Spend(what, bound) == spent[what] < bound /\ spent' = [spent EXCEPT ![what] = @ + 1]

\* The answer to the call of a method, or an exception.
Good == result[Pool] \in {"reply", "IDLE", "RUNNING"}
In(name) == method = name /\ Idle(Pool)
Raises(name) == method' = "none" /\ raised' = raised \cup {name}

\* LoadOne creates the AcquisitionThread; prepare sets three properties and
\* updates the client.
LoadOne ==
  /\ Free /\ phase = "free" /\ reported = "On"
  /\ Spend("loads", Loads)
  /\ acq' = spent'["loads"]
  /\ loop' = [loop EXCEPT ![acq'] = "bare"]
  /\ method' = "LoadOne"
  /\ todo' = 4
  /\ UNCHANGED <<threadVars, phase, reported, read, told, raised, stopping, queued, failed>>

LoadSends ==
  /\ In("LoadOne") /\ todo > 0
  /\ Good \/ todo = 4
  /\ Begin(Pool, "ctrl", "COMMAND", Pool)
  /\ todo' = todo - 1
  /\ UNCHANGED <<acq, method, phase, reported, read, told, spent, raised, loopVars>>

\* prepare makes the thread, or fails and leaves an acq without one.
LoadEnds ==
  /\ In("LoadOne") /\ todo < 4
  /\ IF Good
     THEN /\ todo = 0
          /\ loop' = [loop EXCEPT ![acq] = "ready"]
          /\ method' = "none" /\ phase' = "loaded"
          /\ UNCHANGED raised
     ELSE Raises("LoadOne") /\ phase' = "broken" /\ UNCHANGED loop
  /\ todo' = 0
  /\ UNCHANGED <<threadVars, acq, reported, read, told, spent, stopping, queued, failed>>

\* StartOne runs the generator up to its first yield: the block of conn_ctrl is
\* entered and START written, in the pool's thread.
StartOne ==
  /\ Free /\ phase = "loaded"
  /\ Begin(Pool, "ctrl", "START", acq)
  /\ method' = "StartOne"
  /\ UNCHANGED <<acq, todo, phase, reported, read, told, spent, raised, loopVars>>

\* The acquisition's thread takes the generator, and the block, over.
StartEnds ==
  /\ In("StartOne")
  /\ IF Good
     THEN /\ loop' = [loop EXCEPT ![acq] = "next"]
          /\ inside' = [inside EXCEPT ![Pool] = @ \ {"ctrl"}, ![acq] = @ \cup {"ctrl"}]
          /\ method' = "none" /\ phase' = "started" /\ reported' = "Running"
          /\ UNCHANGED raised
     ELSE Raises("StartOne") /\ phase' = "broken" /\ UNCHANGED <<loop, inside, reported>>
  /\ UNCHANGED <<sock, reader, local, waits, call, at, closes, result, crossed, mixed, serverVars>>
  /\ UNCHANGED <<acq, todo, read, told, spent, stopping, queued, failed>>

\* StateAll while the thread of the acquisition is alive; an acq whose prepare
\* failed has no thread to ask.
StateAlive ==
  /\ Free /\ acq # None
  /\ \/ Alive(acq) /\ reported' = "Running" /\ UNCHANGED raised
     \/ loop[acq] = "bare" /\ reported' = "Fault" /\ raised' = raised \cup {"StateAll"}
  /\ UNCHANGED <<threadVars, acq, method, todo, phase, read, told, spent, loopVars>>

\* Mutant of StateAsks: the thread of the acquisition is not looked at.
StateAsksAlways ==
  /\ Free
  /\ Begin(Pool, "stop", "RUN_STATUS", Pool)
  /\ method' = "StateAll"
  /\ UNCHANGED <<acq, todo, phase, reported, read, told, spent, raised, loopVars>>

\* StateAll without a thread that is alive asks the detector.
StateAsks ==
  /\ Free
  /\ acq # None => ~Alive(acq) /\ loop[acq] # "bare"
  /\ Begin(Pool, "stop", "RUN_STATUS", Pool)
  /\ method' = "StateAll"
  /\ UNCHANGED <<acq, todo, phase, reported, read, told, spent, raised, loopVars>>

\* StateMap.  On is the end of what the pool waits for after a start or an abort.
StateEnds ==
  /\ In("StateAll")
  /\ IF Good
     THEN /\ reported' = IF result[Pool] = "IDLE" THEN "On" ELSE "Running"
          /\ phase' = IF reported' = "On" /\ phase = "aborted" THEN "free" ELSE phase
          /\ method' = "none" /\ UNCHANGED raised
     ELSE Raises("StateAll") /\ reported' = "Fault" /\ UNCHANGED phase
  /\ UNCHANGED <<threadVars, acq, todo, read, told, spent, loopVars>>

\* ReadOne.  Without an acquisition, which an abort takes away, it raises.  With
\* software synchronization it drains the queue, and an error behind the frames
\* makes it drop them; otherwise it takes one entry.
ReadOne ==
  /\ Free /\ phase \in {"started", "aborted"}
  /\ \/ /\ acq = None
        /\ raised' = raised \cup {"ReadOne"}
        /\ UNCHANGED <<read, queued, failed, told>>
     \/ /\ acq # None /\ queued[acq] > 0 /\ ~failed[acq]
        /\ read' = [read EXCEPT ![acq] = @ + queued[acq]]
        /\ queued' = [queued EXCEPT ![acq] = 0]
        /\ UNCHANGED <<failed, told, raised>>
     \/ /\ acq # None /\ queued[acq] > 0
        /\ read' = [read EXCEPT ![acq] = @ + 1]
        /\ queued' = [queued EXCEPT ![acq] = @ - 1]
        /\ UNCHANGED <<failed, told, raised>>
     \/ /\ acq # None /\ failed[acq]
        /\ queued' = [queued EXCEPT ![acq] = 0]
        /\ failed' = [failed EXCEPT ![acq] = FALSE]
        /\ told' = [told EXCEPT ![acq] = TRUE]
        /\ raised' = raised \cup {"ReadOne"}
        /\ UNCHANGED read
  /\ UNCHANGED <<threadVars, acq, method, todo, phase, reported, spent, loop, stopping>>

\* The pool has seen the acquisition end and has read it.
Collected ==
  /\ Free /\ phase = "started" /\ acq # None /\ reported = "On"
  /\ queued[acq] = 0 /\ ~failed[acq]
  /\ phase' = "free"
  /\ UNCHANGED <<threadVars, acq, method, todo, reported, read, told, spent, raised, loopVars>>

\* AbortOne: AcquisitionThread.stop, or without an acq the detector's.
AbortOne ==
  /\ Free /\ Spend("aborts", Aborts)
  /\ stopping' = IF acq = None THEN stopping ELSE [stopping EXCEPT ![acq] = TRUE]
  /\ Begin(Pool, "stop", "STOP", Pool)
  /\ method' = "AbortOne"
  /\ UNCHANGED <<acq, todo, phase, reported, read, told, raised, loop, queued, failed>>

\* The controller forgets the acquisition; its thread is not waited for.
AbortEnds ==
  /\ In("AbortOne")
  /\ IF Good
     THEN method' = "none" /\ acq' = None /\ UNCHANGED raised
     ELSE Raises("AbortOne") /\ UNCHANGED acq
  /\ phase' = "aborted" /\ reported' = "Running"
  /\ UNCHANGED <<threadVars, todo, read, told, spent, loopVars>>

\* GetCtrlPar, SetCtrlPar at any time: of energy_threshold, or of config, which
\* is the repr of the detector and asks for its status among many properties (one
\* stands for those before it and one for those after it).
CtrlPar ==
  /\ Free /\ Spend("pars", Pars)
  /\ Begin(Pool, "ctrl", "COMMAND", Pool)
  /\ method' = "CtrlPar"
  /\ todo' \in {0, 2}
  /\ UNCHANGED <<acq, phase, reported, read, told, raised, loopVars>>

ParSends ==
  /\ In("CtrlPar") /\ Good
  /\ \/ todo = 2 /\ Begin(Pool, "stop", "RUN_STATUS", Pool)
     \/ todo = 1 /\ Begin(Pool, "ctrl", "COMMAND", Pool)
  /\ todo' = todo - 1
  /\ UNCHANGED <<acq, method, phase, reported, read, told, spent, raised, loopVars>>

ParEnds ==
  /\ In("CtrlPar")
  /\ IF Good THEN todo = 0 /\ method' = "none" /\ UNCHANGED raised ELSE Raises("CtrlPar")
  /\ todo' = 0
  /\ UNCHANGED <<threadVars, acq, phase, reported, read, told, spent, loopVars>>

StateAll == StateAlive \/ StateAsks
PoolReturns == LoadSends \/ LoadEnds \/ StartEnds \/ StateEnds \/ AbortEnds \/ ParSends \/ ParEnds
PoolStep == \/ LoadOne \/ StartOne \/ StateAll \/ ReadOne \/ Collected \/ AbortOne \/ CtrlPar
            \/ PoolReturns

-----------------------------------------------------------------------------
(* The thread of an acquisition *)

At(a, here) == loop[a] = here /\ Idle(a)
OnlyLoop == UNCHANGED <<poolVars, stopping, queued, failed>>

\* next(generator): fetch_frame.
LoopFetches(a) ==
  /\ At(a, "next")
  /\ Begin(a, "ctrl", "FRAME", a)
  /\ loop' = [loop EXCEPT ![a] = "fetching"]
  /\ OnlyLoop

\* A frame is put in the queue, FINISHED (which comes with the last frame) ends
\* the generator.  An SLSError may be hidden, every other error is not.
LoopFetched(a) ==
  /\ At(a, "fetching")
  /\ LET got == result[a]
     IN /\ loop' = [loop EXCEPT ![a] = IF got = "frame" THEN "next" ELSE IF got = "last" THEN "finished"
                                       ELSE IF got = "FAIL" THEN "hidden" ELSE "failed"]
        /\ queued' = IF got \in {"frame", "last"} THEN [queued EXCEPT ![a] = @ + 1] ELSE queued
  /\ UNCHANGED <<threadVars, poolVars, stopping, failed>>

\* FINISHED: the generator leaves its block.
LoopFinishes(a) ==
  /\ At(a, "finished")
  /\ Begin(a, "ctrl", "CLOSE", a)
  /\ loop' = [loop EXCEPT ![a] = "closing"]
  /\ OnlyLoop

\* The generator's except clause stops the detector, whatever it now does.
LoopStops(a) ==
  /\ loop[a] \in {"failed", "hidden"} /\ Idle(a)
  /\ Begin(a, "stop", "STOP", a)
  /\ loop' = [loop EXCEPT ![a] = IF loop[a] = "failed" THEN "raising" ELSE "hiding"]
  /\ OnlyLoop

\* The generator leaves its block; an error of the stop in the except clause
\* replaces the first one.
LoopLeaves(a) ==
  /\ loop[a] \in {"raising", "hiding"} /\ Idle(a)
  /\ Begin(a, "ctrl", "CLOSE", a)
  /\ loop' = [loop EXCEPT ![a] = IF result[a] = "FAIL" \/ (result[a] = "reply" /\ loop[a] = "hiding")
                                 THEN "SLSError" ELSE "Exception"]
  /\ OnlyLoop

\* Mutant of ErrorQueued: only an SLSError is put in the queue.
OnlySLSErrorQueued(a) == loop[a] = "SLSError" /\ ~stopping[a]

\* Does the loop put an error in the queue?  The SLSError of a stopped
\* acquisition is dropped, any other is not; the close may have failed too.
ErrorQueued(a) == \/ loop[a] = "Exception" \/ result[a] = "error"
                  \/ loop[a] = "SLSError" /\ ~stopping[a]

\* The end of _acq_loop and of the thread.
LoopEnds(a) ==
  /\ loop[a] \in {"closing", "SLSError", "Exception"} /\ Idle(a)
  /\ failed' = [failed EXCEPT ![a] = ErrorQueued(a)]
  /\ loop' = [loop EXCEPT ![a] = "over"]
  /\ UNCHANGED <<threadVars, poolVars, stopping, queued>>

LoopStep(a) == \/ LoopFetches(a) \/ LoopFetched(a) \/ LoopFinishes(a) \/ LoopStops(a)
               \/ LoopLeaves(a) \/ LoopEnds(a)

-----------------------------------------------------------------------------
Calling(t) == CallStep(t) /\ UNCHANGED sardanaVars
Serving(s) == ServerStep(s) /\ UNCHANGED sardanaVars
Stopped    == ForeignStop /\ UNCHANGED sardanaVars

SardanaNext ==
  \/ PoolStep \/ Stopped
  \/ \E a \in Acqs : LoopStep(a)
  \/ \E t \in Threads : Calling(t)
  \/ \E s \in Sockets : Serving(s)

SardanaSpec == SardanaInit /\ [][SardanaNext]_systemVars

\* Threads are scheduled and the simulator runs.  The pool finishes the method
\* it is in and starts what it loaded, asks for the state until it is On, and
\* reads; it need not load, abort or use parameters.
SardanaFairness ==
  /\ WF_systemVars(PoolReturns)
  /\ WF_systemVars(reported # "On" /\ StateAll)
  /\ WF_systemVars(StartOne) /\ WF_systemVars(ReadOne) /\ WF_systemVars(Collected)
  /\ \A a \in Acqs : WF_systemVars(LoopStep(a))
  /\ \A t \in Threads : WF_systemVars(Calling(t))
  /\ \A s \in Sockets : WF_systemVars(Serving(s))

SardanaFairSpec == SardanaSpec /\ SardanaFairness

-----------------------------------------------------------------------------
(* Properties *)

SardanaTypeOK ==
  /\ ThreadsTypeOK
  /\ acq \in Acqs \cup {None}
  /\ method \in Methods /\ todo \in 0..4
  /\ phase \in {"free", "loaded", "started", "aborted", "broken"}
  /\ reported \in {"On", "Running", "Fault"}
  /\ loop \in [Acqs -> Loops]
  /\ {stopping, failed, told} \subseteq [Acqs -> BOOLEAN]
  /\ {queued, read} \subseteq [Acqs -> Nat]
  /\ "ctrl" \notin crossed => \A a \in Acqs : read[a] + queued[a] <= Frames
  /\ raised \subseteq Methods \cup {"ReadOne"}

\* The state On after a start means that the acquisition is over and that every
\* frame of it was read or is in the queue, unless ReadOne raised or will raise
\* an error: Sardana never takes a cut acquisition for a complete one.  A late
\* thread that uses the control Connection can take frames of the next one.
NeverSilentlyShort ==
  reported = "On" /\ phase = "started" /\ acq # None /\ "ctrl" \notin crossed
     => read[acq] + queued[acq] = Frames \/ failed[acq] \/ told[acq] \/ stopping[acq]

\* A pool that does not abort, and touches no parameter while it measures, has
\* every method succeed as long as no other program stops its acquisitions.
Undisturbed ==
  spent["aborts"] = 0 /\ spent["pars"] = 0 /\ foreign = 0 => raised = {} /\ crossed = {}

\* Only ReadOne raises, and only where there is no acquisition after an abort, or
\* the error of one that was cut: an acquisition of which all frames arrived ends
\* without an error, whoever stops the detector then, and one of which a frame is
\* missing never delivers it after the error.  Two threads that use a Connection at
\* once change that: an aborted thread that is late, or a parameter that is read
\* while frames arrive.
RaisesOnlyCut ==
  crossed = {} =>
    /\ raised \subseteq {"ReadOne"}
    /\ \A a \in Acqs : failed[a] \/ told[a] => read[a] + queued[a] < Frames
    /\ raised # {} => spent["aborts"] > 0 \/ \E a \in Acqs : told[a]

\* The pool sees the end of every acquisition it starts or aborts.
EndIsReported ==
  (phase \in {"started", "aborted"}) ~>
     (reported = "On" \/ crossed # {} \/ \E s \in Sockets : handler[s] = "hung")
=============================================================================
