------------------------------ MODULE SimServer ------------------------------
(***************************************************************************)
(* The acquisition engine of the detector simulator (sls/simulator.py):    *)
(* Detector.start_and_read_all and Detector.stop_acquisition, running as   *)
(* gevent greenlets, one per accepted connection, over the single slot     *)
(* Detector.acquisition, and the greenlet of each simulator.Acquisition    *)
(* that produces the frames.                                               *)
(*                                                                         *)
(* Greenlets are cooperative: one action is the code a greenlet runs       *)
(* between two points where it may switch (a queue get, a socket write, a  *)
(* sleep, a blocking kill).  The connection number also names the          *)
(* Acquisition object that its handler creates.                            *)
(***************************************************************************)
EXTENDS Integers, Sequences

CONSTANTS
  Conns,          \* control connections that send START_AND_READ_ALL
  Stops,          \* stop-port connections that send STOP_ACQUISITION
  None,           \* Python's None
  NbFrames,       \* values the NB_FRAMES timer is given
  NbCycles,       \* values the NB_CYCLES timer is given
  FramePeriods,   \* values of "frame_period is not zero"
  SocketRoom,     \* messages the socket buffers hold before a write blocks
  Overlap         \* may a START arrive while another one is being served?

ASSUME ConnsAssumption == None \notin Conns /\ Conns \cap Stops = {}
ASSUME TimersAssumption == /\ NbFrames \subseteq Nat /\ NbFrames # {}
                           /\ NbCycles \subseteq Nat /\ NbCycles # {}
                           /\ FramePeriods \subseteq BOOLEAN /\ FramePeriods # {}
ASSUME RoomAssumption == SocketRoom \in Nat \ {0}
ASSUME OverlapAssumption == Overlap \in BOOLEAN

VARIABLES
  config,          \* the timers of Detector.config that an acquisition reads
  run_status,      \* Detector._run_status
  acquisition,     \* Detector.acquisition: the owner's connection, or None
  pc,              \* where each control handler is
  victim,          \* the acquisition a handler blocked in kill() is killing
  spc,             \* where each stop handler is
  task,            \* the greenlet of each Acquisition
  params,          \* Acquisition.params
  nb_frames_left,  \* Acquisition.nb_frames_left
  nb_cycles_left,  \* Acquisition.nb_cycles_left
  frames,          \* Acquisition.frames, the unbounded queue
  wire,            \* what was written to the connection and not read yet
  peer,            \* has the client closed its end of the connection?
  sent,            \* history: frames written while the client was there
  cut              \* history: acquisitions ended by a kill or a lost client

detectorVars == <<config, run_status, acquisition>>
taskVars     == <<task, params, nb_frames_left, nb_cycles_left>>
netVars      == <<wire, peer>>
history      == <<sent, cut>>
vars == <<detectorVars, pc, victim, spc, taskVars, frames, netVars, history>>

-----------------------------------------------------------------------------
(* Values *)

\* An entry of the frames queue: the events of one frame, the same followed by
\* FINISHED and its message, or the None that ends the queue.
Items == {"frame", "last", "none"}

\* What the client can find on the wire: one entry's bytes, or a FAIL reply.
Messages == {"frame", "last", "FAIL"}

PcStates   == {"new", "serving", "killing", "failing", "closing", "done"}
TaskStates == {"none", "spawned", "exposing", "resting", "dead", "cancelled"}

Alive(c)   == task[c] \in {"exposing", "resting"}
Active(c)  == pc[c] \notin {"new", "done"}

Configs == [nb_frames : NbFrames, nb_cycles : NbCycles, frame_period : FramePeriods]
Params  == [nb_frames : Nat \ {0}, nb_cycles : Nat \ {0}, dead_time : BOOLEAN]

\* Mutant of AtLeastOne: the timer is taken as it is.
NotClamped(n) == n

\* max(n, 1)
AtLeastOne(n) == IF n > 1 THEN n ELSE 1

Init ==
  /\ config \in Configs
  /\ run_status = "IDLE"
  /\ acquisition = None
  /\ pc = [c \in Conns |-> "new"]
  /\ victim = [h \in Conns \cup Stops |-> None]
  /\ spc = [s \in Stops |-> "new"]
  /\ task = [c \in Conns |-> "none"]
  /\ params = [c \in Conns |-> [nb_frames |-> 1, nb_cycles |-> 1, dead_time |-> FALSE]]
  /\ nb_frames_left = [c \in Conns |-> 0]
  /\ nb_cycles_left = [c \in Conns |-> 0]
  /\ frames = [c \in Conns |-> <<>>]
  /\ wire = [c \in Conns |-> <<>>]
  /\ peer = [c \in Conns |-> "open"]
  /\ sent = [c \in Conns |-> 0]
  /\ cut = {}

-----------------------------------------------------------------------------
(* Control port: the commands that matter to an acquisition *)

\* TIMER with a value: config is changed at any time, also under a running
\* acquisition (every other configuration command only touches other fields).
SetTimer ==
  /\ config' \in {[config EXCEPT !.nb_frames = n] : n \in NbFrames}
            \cup {[config EXCEPT !.nb_cycles = n] : n \in NbCycles}
            \cup {[config EXCEPT !.frame_period = b] : b \in FramePeriods}
  /\ UNCHANGED <<run_status, acquisition, pc, victim, spc, taskVars, frames, netVars, history>>

\* Acquisition.prepare: what the acquisition will use is copied from config.
Prepared == [nb_frames |-> AtLeastOne(config.nb_frames),
             nb_cycles |-> AtLeastOne(config.nb_cycles),
             dead_time |-> config.frame_period]

\* START_AND_READ_ALL up to the first wait on the queue.  The greenlet of the
\* acquisition is only scheduled: nothing of Acquisition.run has executed yet.
StartAndReadAll(c) ==
  /\ pc[c] = "new"
  /\ Overlap \/ \A d \in Conns : ~Active(d)
  /\ run_status' = "RUNNING"
  /\ acquisition' = c
  /\ params' = [params EXCEPT ![c] = Prepared]
  /\ nb_frames_left' = [nb_frames_left EXCEPT ![c] = Prepared.nb_frames * Prepared.nb_cycles]
  /\ nb_cycles_left' = [nb_cycles_left EXCEPT ![c] = Prepared.nb_cycles]
  /\ task' = [task EXCEPT ![c] = "spawned"]
  /\ pc' = [pc EXCEPT ![c] = "serving"]
  /\ UNCHANGED <<config, victim, spc, frames, netVars, history>>

-----------------------------------------------------------------------------
(* The greenlet of an acquisition: Acquisition.run over gen_frames *)

\* Mutant of TaskStart: the counter of the cycle is not reset.
TaskStartKeepsTotal(c) ==
  /\ task[c] = "spawned"
  /\ task' = [task EXCEPT ![c] = "exposing"]
  /\ UNCHANGED <<detectorVars, pc, victim, spc, params, nb_frames_left, nb_cycles_left, frames, netVars, history>>

\* The greenlet runs for the first time, up to the exposure of the first frame.
TaskStart(c) ==
  /\ task[c] = "spawned"
  /\ task' = [task EXCEPT ![c] = "exposing"]
  /\ nb_frames_left' = [nb_frames_left EXCEPT ![c] = params[c].nb_frames]
  /\ UNCHANGED <<detectorVars, pc, victim, spc, params, nb_cycles_left, frames, netVars, history>>

\* From the end of a frame, with left frames to go in the cycle, to the next
\* exposure: of this cycle, of the next one, or the end of run.
NextExposure(c, left, queue) ==
  \/ /\ left > 0
     /\ task' = [task EXCEPT ![c] = "exposing"]
     /\ nb_frames_left' = [nb_frames_left EXCEPT ![c] = left]
     /\ frames' = [frames EXCEPT ![c] = queue]
     /\ UNCHANGED nb_cycles_left
  \/ /\ left = 0
     /\ nb_cycles_left[c] > 1
     /\ task' = [task EXCEPT ![c] = "exposing"]
     /\ nb_frames_left' = [nb_frames_left EXCEPT ![c] = params[c].nb_frames]
     /\ nb_cycles_left' = [nb_cycles_left EXCEPT ![c] = @ - 1]
     /\ frames' = [frames EXCEPT ![c] = queue]
  \/ /\ left = 0
     /\ nb_cycles_left[c] = 1
     /\ task' = [task EXCEPT ![c] = "dead"]
     /\ nb_frames_left' = [nb_frames_left EXCEPT ![c] = 0]
     /\ nb_cycles_left' = [nb_cycles_left EXCEPT ![c] = 0]
     /\ frames' = [frames EXCEPT ![c] = Append(queue, "none")]

\* Mutant of FrameEvents: is_last tested after the counter went down.
LastTestedLate(c) == IF nb_frames_left[c] = 0 THEN "last" ELSE "frame"

\* The events of the frame being exposed; is_last is about the current cycle.
FrameEvents(c) == IF nb_frames_left[c] = 1 THEN "last" ELSE "frame"

\* The exposure ends: the frame is queued and, with a dead time, the greenlet
\* sleeps before it goes on.
Expose(c) ==
  /\ task[c] = "exposing"
  /\ LET queue == Append(frames[c], FrameEvents(c))
         left  == nb_frames_left[c] - 1
     IN \/ /\ params[c].dead_time
           /\ task' = [task EXCEPT ![c] = "resting"]
           /\ nb_frames_left' = [nb_frames_left EXCEPT ![c] = left]
           /\ frames' = [frames EXCEPT ![c] = queue]
           /\ UNCHANGED nb_cycles_left
        \/ /\ ~params[c].dead_time
           /\ NextExposure(c, left, queue)
  /\ UNCHANGED <<detectorVars, pc, victim, spc, params, netVars, history>>

\* The dead time is over.
Rested(c) ==
  /\ task[c] = "resting"
  /\ NextExposure(c, nb_frames_left[c], frames[c])
  /\ UNCHANGED <<detectorVars, pc, victim, spc, params, netVars, history>>

-----------------------------------------------------------------------------
(* Killing a greenlet: Acquisition.stop *)

\* kill() of a greenlet that is not running returns at once.  One that was
\* never switched to is prevented from ever starting: run and its finally
\* clause are not executed, so nothing ends its queue.
KillReturns(a) ==
  /\ ~Alive(a)
  /\ task' = [task EXCEPT ![a] = IF @ = "spawned" THEN "cancelled" ELSE @]
  /\ cut' = IF task[a] = "spawned" THEN cut \cup {a} ELSE cut

\* kill() of a running greenlet blocks handler h until the hub delivers it.
KillBlocks(h, a) ==
  /\ Alive(a)
  /\ victim' = [victim EXCEPT ![h] = a]

\* Mutant of KillLands: the greenlet dies without ending its queue.
KillLandsSilently(h) ==
  /\ task' = IF Alive(victim[h]) THEN [task EXCEPT ![victim[h]] = "dead"] ELSE task
  /\ cut' = IF Alive(victim[h]) THEN cut \cup {victim[h]} ELSE cut
  /\ victim' = [victim EXCEPT ![h] = None]
  /\ UNCHANGED frames

\* The hub delivers the kill h waits for: unless it ended by itself the
\* greenlet dies in its sleep and run's finally clause ends the queue.
KillLands(h) ==
  LET v == victim[h]
  IN /\ IF Alive(v)
        THEN /\ task' = [task EXCEPT ![v] = "dead"]
             /\ frames' = [frames EXCEPT ![v] = Append(@, "none")]
             /\ cut' = cut \cup {v}
        ELSE UNCHANGED <<task, frames, cut>>
     /\ victim' = [victim EXCEPT ![h] = None]

-----------------------------------------------------------------------------
(* Control port: the handler of START_AND_READ_ALL after its first wait *)

\* Mutant of Release: the status is not put back.
ReleaseStillRunning(c) ==
  /\ acquisition' = None
  /\ pc' = [pc EXCEPT ![c] = "closing"]
  /\ UNCHANGED run_status

\* Mutant of Release: the slot is not cleared.
ReleaseKeepsSlot(c) ==
  /\ run_status' = "IDLE"
  /\ pc' = [pc EXCEPT ![c] = "closing"]
  /\ UNCHANGED acquisition

\* The end of the finally clause; the connection is flushed and closed next.
Release(c) ==
  /\ acquisition' = None
  /\ run_status' = "IDLE"
  /\ pc' = [pc EXCEPT ![c] = "closing"]

\* Mutant of Finally: the acquisition is not stopped.
FinallyWithoutStop(c) ==
  /\ Release(c)
  /\ UNCHANGED <<victim, task, cut>>

\* The finally clause of start_and_read_all.  It acts on whatever acquisition
\* the detector has now; with none left, None.stop() raises AttributeError.
Finally(c) ==
  \/ /\ acquisition = None
     /\ pc' = [pc EXCEPT ![c] = "failing"]
     /\ UNCHANGED <<acquisition, run_status, victim, task, cut>>
  \/ /\ acquisition # None
     /\ KillReturns(acquisition)
     /\ Release(c)
     /\ UNCHANGED victim
  \/ /\ acquisition # None
     /\ KillBlocks(c, acquisition)
     /\ pc' = [pc EXCEPT ![c] = "killing"]
     /\ UNCHANGED <<acquisition, run_status, task, cut>>

HasRoom(c) == peer[c] = "closed" \/ Len(wire[c]) < SocketRoom

\* The next entry of the queue is a frame.  It stays at the head of the queue
\* while its write is blocked: only this handler reads its queue.
FrameReady(c) ==
  /\ pc[c] = "serving"
  /\ frames[c] # <<>>
  /\ Head(frames[c]) # "none"

\* After a write the loop goes back to the queue, and if it finds the None
\* there it runs the finally clause without having switched in between.
NextFrames(c, rest) ==
  \/ /\ rest = <<"none">>
     /\ frames' = [frames EXCEPT ![c] = <<>>]
     /\ Finally(c)
  \/ /\ rest # <<"none">>
     /\ frames' = [frames EXCEPT ![c] = rest]
     /\ UNCHANGED <<acquisition, run_status, pc, victim, task, cut>>

\* The bytes of the frame reach the socket.
WriteFrames(c) ==
  /\ FrameReady(c)
  /\ peer[c] = "open"
  /\ HasRoom(c)
  /\ wire' = [wire EXCEPT ![c] = Append(@, Head(frames[c]))]
  /\ sent' = [sent EXCEPT ![c] = @ + 1]
  /\ NextFrames(c, Tail(frames[c]))
  /\ UNCHANGED <<config, spc, params, nb_frames_left, nb_cycles_left, peer>>

\* The client is gone and the frame is lost: the kernel took the bytes, or
\* the write raised BrokenPipeError, which is ignored.
LoseFrames(c) ==
  /\ FrameReady(c)
  /\ peer[c] = "closed"
  /\ NextFrames(c, Tail(frames[c]))
  /\ UNCHANGED <<config, spc, params, nb_frames_left, nb_cycles_left, netVars, sent>>

\* The client is gone and the write raised ConnectionResetError instead.
WriteFails(c) ==
  /\ FrameReady(c)
  /\ peer[c] = "closed"
  /\ Finally(c)
  /\ UNCHANGED <<config, spc, params, nb_frames_left, nb_cycles_left, frames, netVars, sent>>

\* Mutant of EndOfFrames: the None overtakes the frames still queued.
EndOvertakesFrames(c) ==
  /\ pc[c] = "serving"
  /\ frames[c] # <<>>
  /\ frames[c][Len(frames[c])] = "none"
  /\ frames' = [frames EXCEPT ![c] = <<>>]
  /\ Finally(c)
  /\ UNCHANGED <<config, spc, params, nb_frames_left, nb_cycles_left, netVars, sent>>

\* The wait on the empty queue ends with the None.
EndOfFrames(c) ==
  /\ pc[c] = "serving"
  /\ frames[c] = <<"none">>
  /\ frames' = [frames EXCEPT ![c] = <<>>]
  /\ Finally(c)
  /\ UNCHANGED <<config, spc, params, nb_frames_left, nb_cycles_left, netVars, sent>>

\* The kill made by the finally clause is delivered and the clause goes on.
FinallyKilled(c) ==
  /\ pc[c] = "killing"
  /\ KillLands(c)
  /\ Release(c)
  /\ UNCHANGED <<config, spc, params, nb_frames_left, nb_cycles_left, netVars, sent>>

\* conn.flush(), which may block or fail, conn.close() and sock.close().
CloseConn(c) ==
  /\ pc[c] = "closing"
  /\ HasRoom(c)
  /\ pc' = [pc EXCEPT ![c] = "done"]
  /\ UNCHANGED <<detectorVars, victim, spc, taskVars, frames, netVars, history>>

\* _handle_ctrl caught the exception: FAIL and its message, then sock.close().
SendFail(c) ==
  /\ pc[c] = "failing"
  /\ HasRoom(c)
  /\ wire' = IF peer[c] = "open" THEN [wire EXCEPT ![c] = Append(@, "FAIL")] ELSE wire
  /\ pc' = [pc EXCEPT ![c] = "done"]
  /\ UNCHANGED <<detectorVars, victim, spc, taskVars, frames, peer, history>>

-----------------------------------------------------------------------------
(* Stop port: the handler of STOP_ACQUISITION *)

\* stop_acquisition up to the answer or to a blocking kill.
StopAcquisition(s) ==
  /\ spc[s] = "new"
  /\ \/ /\ acquisition = None
        /\ spc' = [spc EXCEPT ![s] = "done"]
        /\ UNCHANGED <<victim, task, cut>>
     \/ /\ acquisition # None
        /\ KillReturns(acquisition)
        /\ spc' = [spc EXCEPT ![s] = "done"]
        /\ UNCHANGED victim
     \/ /\ acquisition # None
        /\ KillBlocks(s, acquisition)
        /\ spc' = [spc EXCEPT ![s] = "killing"]
        /\ UNCHANGED <<task, cut>>
  /\ UNCHANGED <<detectorVars, pc, params, nb_frames_left, nb_cycles_left, frames, netVars, sent>>

\* Mutant of StopKilled: the stop handler clears the slot itself.
StopKilledClears(s) ==
  /\ spc[s] = "killing"
  /\ KillLands(s)
  /\ spc' = [spc EXCEPT ![s] = "done"]
  /\ acquisition' = None
  /\ run_status' = "IDLE"
  /\ UNCHANGED <<config, pc, params, nb_frames_left, nb_cycles_left, netVars, sent>>

\* The kill is delivered and OK is answered.
StopKilled(s) ==
  /\ spc[s] = "killing"
  /\ KillLands(s)
  /\ spc' = [spc EXCEPT ![s] = "done"]
  /\ UNCHANGED <<detectorVars, pc, params, nb_frames_left, nb_cycles_left, netVars, sent>>

-----------------------------------------------------------------------------
(* The clients, at their most general: they read what there is or go away *)

ClientReads(c) ==
  /\ peer[c] = "open"
  /\ wire[c] # <<>>
  /\ wire' = [wire EXCEPT ![c] = Tail(@)]
  /\ UNCHANGED <<detectorVars, pc, victim, spc, taskVars, frames, peer, history>>

ClientCloses(c) ==
  /\ pc[c] # "new"
  /\ peer[c] = "open"
  /\ peer' = [peer EXCEPT ![c] = "closed"]
  /\ wire' = [wire EXCEPT ![c] = <<>>]
  /\ cut' = cut \cup {c}
  /\ UNCHANGED <<detectorVars, pc, victim, spc, taskVars, frames, sent>>

-----------------------------------------------------------------------------
TaskStep(c)    == TaskStart(c) \/ Expose(c) \/ Rested(c)
HandlerStep(c) == \/ WriteFrames(c) \/ LoseFrames(c) \/ WriteFails(c) \/ EndOfFrames(c)
                  \/ FinallyKilled(c) \/ CloseConn(c) \/ SendFail(c)
ClientStep(c)  == ClientReads(c) \/ ClientCloses(c)

Next ==
  \/ SetTimer
  \/ \E c \in Conns : StartAndReadAll(c) \/ TaskStep(c) \/ HandlerStep(c) \/ ClientStep(c)
  \/ \E s \in Stops : StopAcquisition(s) \/ StopKilled(s)

Spec == Init /\ [][Next]_vars

\* gevent runs every greenlet that is ready and every timer fires; a client
\* that stays connected keeps reading.  Nobody has to start or stop anything.
Fairness ==
  /\ \A c \in Conns : WF_vars(TaskStep(c)) /\ WF_vars(HandlerStep(c)) /\ WF_vars(ClientReads(c))
  /\ \A s \in Stops : WF_vars(StopKilled(s))

FairSpec == Spec /\ Fairness

-----------------------------------------------------------------------------
(* Properties *)

TypeOK ==
  /\ config \in Configs
  /\ run_status \in {"IDLE", "RUNNING"}
  /\ acquisition \in Conns \cup {None}
  /\ pc \in [Conns -> PcStates]
  /\ victim \in [Conns \cup Stops -> Conns \cup {None}]
  /\ spc \in [Stops -> {"new", "killing", "done"}]
  /\ task \in [Conns -> TaskStates]
  /\ params \in [Conns -> Params]
  /\ nb_frames_left \in [Conns -> Nat]
  /\ nb_cycles_left \in [Conns -> Nat]
  /\ frames \in [Conns -> Seq(Items)]
  /\ wire \in [Conns -> Seq(Messages)]
  /\ peer \in [Conns -> {"open", "closed"}]
  /\ sent \in [Conns -> Nat]
  /\ cut \subseteq Conns

\* The status the stop port reports is RUNNING exactly while the detector has
\* an acquisition, so time_left never looks at an acquisition that is None,
\* however control connections, stops and lost clients interleave.
StatusTracksAcquisition == (run_status = "RUNNING") <=> (acquisition # None)

\* Whatever a stop kills still has its handler inside start_and_read_all: the
\* slot never keeps an acquisition whose handler has left.
OwnerIsServing == acquisition # None => pc[acquisition] \in {"serving", "killing"}

\* No lost wake-up: a handler that waits on an empty queue is the handler of a
\* greenlet that will still put something in it, or of one that was killed
\* before it ever ran.
NoLostWakeup ==
  \A c \in Conns : pc[c] = "serving" /\ frames[c] = <<>>
                     => Alive(c) \/ task[c] \in {"spawned", "cancelled"}

Total(c) == params[c].nb_frames * params[c].nb_cycles

\* Frames that the greenlet still has to produce.
ToProduce(c) ==
  IF task[c] = "spawned" THEN nb_frames_left[c]
  ELSE IF Alive(c) THEN nb_frames_left[c] + (nb_cycles_left[c] - 1) * params[c].nb_frames
  ELSE 0

\* Frames in the queue (None can only be its last entry).
Queued(c) ==
  IF frames[c] # <<>> /\ frames[c][Len(frames[c])] = "none"
  THEN Len(frames[c]) - 1 ELSE Len(frames[c])

\* Conservation: of the frames asked for when the acquisition was prepared,
\* each one is sent, queued or still to come, exactly once, whatever the TIMER
\* commands, the dead times and the back pressure in the meantime.
FrameAccounting ==
  \A c \in Conns : task[c] # "none" /\ c \notin cut
                     => sent[c] + Queued(c) + ToProduce(c) = Total(c)

\* An acquisition that nobody cut short delivered all the frames of all the
\* cycles before its connection is closed.
CompleteUnlessCut ==
  \A c \in Conns : pc[c] \in {"failing", "closing", "done"} /\ c \notin cut
                     => sent[c] = Total(c)

\* FINISHED is sent with the last frame of each cycle and with no other.
FinishedClosesCycle ==
  [][\A c \in Conns : sent'[c] # sent[c] =>
       (wire'[c][Len(wire'[c])] = "last" <=> sent'[c] % params[c].nb_frames = 0)]_vars

\* An idle detector is ready to start an acquisition: no greenlet of a previous
\* one is producing frames or about to.
IdleMeansQuiescent ==
  run_status = "IDLE" => \A c \in Conns : ~Alive(c) /\ task[c] # "spawned"

\* The handler of an acquisition never ends with a FAIL reply.
NoFailReply == \A c \in Conns : pc[c] # "failing"

\* Only another acquisition can make one fail: the handler of a connection whose
\* START was the only one so far finds its own acquisition in the slot when it
\* ends, whatever the stops and the loss of its client did.  (Two that overlap
\* take the slot from each other, and one of them answers FAIL.)
FailNeedsOther ==
  \A c \in Conns : pc[c] = "failing" => \E d \in Conns \ {c} : pc[d] # "new"

\* Every acquisition ends and its connection is closed, unless its greenlet was
\* killed before it ever ran.
EndsUnlessCancelled ==
  \A c \in Conns : pc[c] = "serving" ~> (pc[c] = "done" \/ task[c] = "cancelled")

\* Every acquisition ends and its connection is closed: stopping the detector
\* keeps it from hanging.
AcquisitionEnds == \A c \in Conns : pc[c] = "serving" ~> pc[c] = "done"

-----------------------------------------------------------------------------
(* What the clients of an exclusive detector can rely on *)

\* The frames each acquisition asked for, 0 before its START.
Asked == [c \in Conns |-> IF task[c] = "none" THEN 0 ELSE Total(c)]

\* The numbers of frames that one can ask for.
Requests == {AtLeastOne(n) * AtLeastOne(m) : n \in NbFrames, m \in NbCycles}

Service == INSTANCE DetectorService WITH
  owner       <- acquisition,
  asked       <- Asked,
  delivered   <- sent,
  interrupted <- cut

\* start_and_read_all, the greenlets and the stops implement the promise of
\* DetectorService: a detector is never taken from an acquisition that was not
\* interrupted and still has frames to send, and frames only go to its owner.
Implements == Service!Spec
=============================================================================
