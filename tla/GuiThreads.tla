----------------------------- MODULE GuiThreads -----------------------------
(***************************************************************************)
(* MythenGUI of sls/gui.py: the Qt thread (start and stop buttons), the    *)
(* thread of an acquisition and the threads that poll the exposure time    *)
(* left, over the shared Detector of ClientThreads.  Only the acquisition  *)
(* uses the control Connection; the stop Connection belongs to everybody.  *)
(***************************************************************************)
EXTENDS ClientThreads

CONSTANTS
  Qt, Acq,      \* the Qt thread and the acquisition thread
  Monitors,     \* monitor threads that can exist at a time
  Runs,         \* bound: acquisitions the user starts
  Presses       \* bound: times the stop button is pressed

ASSUME GuiAssumption == /\ Threads = {Qt, Acq} \cup Monitors
                        /\ Qt # Acq /\ {Qt, Acq} \cap Monitors = {}
                        /\ Runs \in Nat /\ Presses \in Nat /\ 1..Runs \subseteq Tags

VARIABLES
  stop,         \* MythenGUI._stop
  acq_thread,   \* is MythenGUI.acq_thread not None?
  enabled,      \* is the acquisition button enabled?
  place,        \* where the acquisition thread is
  monitor,      \* where each monitor thread is
  runs,         \* acquisitions started
  presses,      \* times stop was pressed
  shown,        \* frames of the acquisition that were shown
  dialog,       \* did the acquisition show an error?
  pressed       \* history: was stop pressed since the acquisition was started?

guiVars == <<stop, acq_thread, enabled, place, monitor, runs, presses, shown, dialog, pressed>>
programVars == <<threadVars, guiVars>>

AcqPlaces == {"over", "new", "timing", "updating", "ready", "streaming", "fetching", "finished",
              "failed", "stopping", "leaving", "raised", "finally", "forgotten"}

GuiInit ==
  /\ ThreadsInit
  /\ stop = FALSE /\ acq_thread = FALSE /\ enabled = TRUE
  /\ place = "over"
  /\ monitor = [m \in Monitors |-> "over"]
  /\ runs = 0 /\ presses = 0 /\ shown = 0
  /\ dialog = FALSE /\ pressed = FALSE

-----------------------------------------------------------------------------
(* The Qt thread *)

\* Mutant of StartPressed: the flag of the previous stop stays.
StartKeepsStop ==
  /\ Idle(Qt) /\ enabled /\ runs < Runs
  /\ enabled' = FALSE
  /\ acq_thread' = TRUE
  /\ place' = "new"
  /\ \/ UNCHANGED monitor
     \/ \E m \in Monitors : monitor[m] = "over" /\ monitor' = [monitor EXCEPT ![m] = "polling"]
  /\ runs' = runs + 1
  /\ shown' = 0 /\ dialog' = FALSE /\ pressed' = FALSE
  /\ UNCHANGED <<threadVars, stop, presses>>

\* start_acquisition; exposures of more than a second get a monitor.
StartPressed ==
  /\ Idle(Qt) /\ enabled /\ runs < Runs
  /\ stop' = FALSE
  /\ enabled' = FALSE
  /\ acq_thread' = TRUE
  /\ place' = "new"
  /\ \/ UNCHANGED monitor
     \/ \E m \in Monitors : monitor[m] = "over" /\ monitor' = [monitor EXCEPT ![m] = "polling"]
  /\ runs' = runs + 1
  /\ shown' = 0 /\ dialog' = FALSE /\ pressed' = FALSE
  /\ UNCHANGED <<threadVars, presses>>

\* Mutant of StopPressed: the detector is stopped and no flag is set.
StopWithoutFlag ==
  /\ presses < Presses
  /\ Begin(Qt, "stop", "STOP", Qt)
  /\ presses' = presses + 1
  /\ pressed' = TRUE
  /\ UNCHANGED <<stop, acq_thread, enabled, place, monitor, runs, shown, dialog>>

\* stop_acquisition up to the call of the detector.
StopPressed ==
  /\ presses < Presses
  /\ Begin(Qt, "stop", "STOP", Qt)
  /\ stop' = TRUE
  /\ presses' = presses + 1
  /\ pressed' = TRUE
  /\ UNCHANGED <<acq_thread, enabled, place, monitor, runs, shown, dialog>>

-----------------------------------------------------------------------------
(* The acquisition thread *)

\* The thread, idle in its calls, goes from one place to the next.
From(here, there) == place = here /\ Idle(Acq) /\ place' = there

OnlyPlace == UNCHANGED <<stop, acq_thread, enabled, monitor, runs, presses, shown, dialog, pressed>>

\* The frames and the exposure time are set and detector.acquire() updates the
\* client: nobody else uses the control Connection, so that all are answered.
AcqPrepares ==
  /\ From("new", "timing") \/ From("timing", "updating") \/ From("updating", "ready")
  /\ Begin(Acq, "ctrl", "COMMAND", Acq)
  /\ OnlyPlace

\* The generator connects and sends START.
AcqStarts ==
  /\ From("ready", "streaming")
  /\ Begin(Acq, "ctrl", "START", runs)
  /\ OnlyPlace

AcqFetches ==
  /\ From("streaming", "fetching")
  /\ Begin(Acq, "ctrl", "FRAME", runs)
  /\ OnlyPlace

\* fetch_frame returns: a frame is shown, FINISHED (which comes with the last
\* frame) ends the iteration, an error stops the detector unless it is FAIL.
AcqFetched ==
  /\ place = "fetching" /\ Idle(Acq)
  /\ place' = IF result[Acq] = "frame" THEN "streaming"
              ELSE IF result[Acq] = "last" THEN "finished"
              ELSE IF result[Acq] = "FAIL" THEN "stopping" ELSE "failed"
  /\ shown' = IF result[Acq] \in {"frame", "last"} THEN shown + 1 ELSE shown
  /\ UNCHANGED <<threadVars, stop, acq_thread, enabled, monitor, runs, presses, dialog, pressed>>

\* The generator ends and with it its block.
AcqFinishes ==
  /\ From("finished", "finally")
  /\ Begin(Acq, "ctrl", "CLOSE", Acq)
  /\ OnlyPlace

\* The generator's except clause stops the detector and leaves its block, and
\* the with statement of acquire stops the detector once more.
AcqStops ==
  /\ From("failed", "stopping")
  /\ Begin(Acq, "stop", "STOP", Acq)
  /\ OnlyPlace

AcqLeaves ==
  /\ From("stopping", "leaving")
  /\ Begin(Acq, "ctrl", "CLOSE", Acq)
  /\ OnlyPlace

AcqStopsAgain ==
  /\ From("leaving", "raised")
  /\ Begin(Acq, "stop", "STOP", Acq)
  /\ OnlyPlace

\* An error that is not due to a stop is shown.
AcqRaised ==
  /\ From("raised", "finally")
  /\ dialog' = ~stop
  /\ UNCHANGED <<threadVars, stop, acq_thread, enabled, monitor, runs, presses, shown, pressed>>

\* Mutant of AcqFinally: the button is enabled first.
FinallyEnablesFirst ==
  /\ From("finally", "forgotten")
  /\ stop' = FALSE
  /\ enabled' = TRUE
  /\ UNCHANGED <<threadVars, acq_thread, monitor, runs, presses, shown, dialog, pressed>>

\* self._stop = False; self.acq_thread = None
AcqFinally ==
  /\ From("finally", "forgotten")
  /\ stop' = FALSE
  /\ acq_thread' = FALSE
  /\ UNCHANGED <<threadVars, enabled, monitor, runs, presses, shown, dialog, pressed>>

\* self.acq_button.setEnabled(True), and the thread ends.
AcqEnables ==
  /\ From("forgotten", "over")
  /\ enabled' = TRUE
  /\ UNCHANGED <<threadVars, stop, acq_thread, monitor, runs, presses, shown, dialog, pressed>>

AcqStep == \/ AcqPrepares \/ AcqStarts \/ AcqFetches \/ AcqFetched \/ AcqFinishes \/ AcqStops \/ AcqLeaves
           \/ AcqStopsAgain \/ AcqRaised \/ AcqFinally \/ AcqEnables

-----------------------------------------------------------------------------
(* A monitor thread *)

\* The test of the loop, and the request of the exposure time left.
MonitorPolls(m) ==
  /\ monitor[m] = "polling" /\ acq_thread /\ ~stop
  /\ Begin(m, "stop", "TIME_LEFT", m)
  /\ monitor' = [monitor EXCEPT ![m] = "asking"]
  /\ UNCHANGED <<stop, acq_thread, enabled, place, runs, presses, shown, dialog, pressed>>

\* The answer is shown and the thread sleeps; an error is the end of the thread.
MonitorAnswered(m) ==
  /\ monitor[m] = "asking" /\ Idle(m)
  /\ monitor' = [monitor EXCEPT ![m] = IF result[m] = "reply" THEN "polling" ELSE "over"]
  /\ UNCHANGED <<threadVars, stop, acq_thread, enabled, place, runs, presses, shown, dialog, pressed>>

MonitorEnds(m) ==
  /\ monitor[m] = "polling" /\ (~acq_thread \/ stop)
  /\ monitor' = [monitor EXCEPT ![m] = "over"]
  /\ UNCHANGED <<threadVars, stop, acq_thread, enabled, place, runs, presses, shown, dialog, pressed>>

MonitorStep(m) == MonitorPolls(m) \/ MonitorAnswered(m) \/ MonitorEnds(m)

-----------------------------------------------------------------------------
Calling(t) == CallStep(t) /\ UNCHANGED guiVars
Serving(s) == ServerStep(s) /\ UNCHANGED guiVars

Stopped    == ForeignStop /\ UNCHANGED guiVars

GuiNext ==
  \/ StartPressed \/ StopPressed \/ AcqStep \/ Stopped
  \/ \E m \in Monitors : MonitorStep(m)
  \/ \E t \in Threads : Calling(t)
  \/ \E s \in Sockets : Serving(s)

GuiSpec == GuiInit /\ [][GuiNext]_programVars

\* Threads are scheduled and the simulator runs; the user need not press.
GuiFairness ==
  /\ WF_programVars(AcqStep)
  /\ \A m \in Monitors : WF_programVars(MonitorStep(m))
  /\ \A t \in Threads : WF_programVars(Calling(t))
  /\ \A s \in Sockets : WF_programVars(Serving(s))

GuiFairSpec == GuiSpec /\ GuiFairness

-----------------------------------------------------------------------------
(* Properties *)

GuiTypeOK ==
  /\ ThreadsTypeOK
  /\ {stop, acq_thread, enabled, dialog, pressed} \subseteq BOOLEAN
  /\ place \in AcqPlaces
  /\ monitor \in [Monitors -> {"over", "polling", "asking"}]
  /\ runs \in 0..Runs /\ presses \in 0..Presses /\ shown \in 0..Frames

\* The button offers a new acquisition only when the thread of the last one has
\* let go of the window: two acquisitions never run, and a thread's finally
\* clause never forgets the thread of a newer acquisition.
OneAcquisition == /\ enabled => place = "over" /\ ~acq_thread
                  /\ place \notin {"over", "forgotten"} => acq_thread

\* After the user stopped an acquisition no error of it is shown: the flag that
\* stop set is still there when the thread's exception handler reads it.
StopIsQuiet == [][dialog' /\ ~dialog => ~pressed]_programVars

\* An acquisition that ended without a dialog, and that nobody stopped, showed
\* all its frames.
SilentMeansComplete == place = "forgotten" /\ ~dialog /\ ~pressed => shown = Frames

\* The acquisition button comes back, unless two threads used the stop
\* Connection at once or the acquisition was killed before it ran.
ButtonComesBack ==
  (~enabled) ~> (enabled \/ crossed # {} \/ \E s \in Sockets : handler[s] = "hung")
=============================================================================
