--------------------------- MODULE ProgressSession ---------------------------
(***************************************************************************)
(* The default acquisition of sls/client.py, Acquisition with a            *)
(* progress_interval, against the simulator of SimServer: a select on the  *)
(* control socket tells whether to fetch a frame or to report progress,    *)
(* and a report asks the stop port for three counters one after the other. *)
(* The frames are read through a buffered reader, of which select knows    *)
(* nothing.                                                                *)
(***************************************************************************)
EXTENDS SimServer

CONSTANTS
  Me,          \* the control connection of the program
  MyStop,      \* the stop connection of its consumer's acq.stop()
  MyAbort      \* the stop connection of the generator's own stop

ASSUME ProgressAssumption ==
  Conns = {Me} /\ Stops = {MyStop, MyAbort} /\ MyStop # MyAbort

VARIABLES
  gen,         \* where the generator _progress_run_gen is
  calling,     \* the stop it waits for: its consumer's, or the generator's own
  buffer,      \* messages that the reader took from the socket ahead of time
  finished,    \* FINISHED after the last frame: in the buffer or the socket
  counters,    \* what the report being made has read
  report,      \* nb_cycles_finished and total_frames_finished of the last report
  received,    \* Acquisition.nb_frames
  stopped      \* Acquisition._stopped

genVars == <<gen, calling, buffer, finished, counters, report, received, stopped>>
progressVars == <<vars, genVars>>

Gens == {"idle", "asking", "selecting", "reporting", "breaking", "returned", "error"}
Over == gen \in {"returned", "error"}

ProgressInit ==
  /\ Init
  /\ gen = "idle" /\ calling = "none"
  /\ buffer = <<>> /\ finished = "no"
  /\ counters = <<>> /\ report = None
  /\ received = 0 /\ stopped = FALSE

\* Mutant of OrOne: a timer that was never set counts for nothing.
AsItIs(n) == n

\* n or 1
OrOne(n) == IF n = 0 THEN 1 ELSE n

\* info, as update_client returned it when the acquisition was prepared.
Frames == OrOne(config.nb_frames)
Cycles == OrOne(config.nb_cycles)

-----------------------------------------------------------------------------
(* The connection *)

StartWritten ==
  /\ gen = "idle"
  /\ gen' = "asking"
  /\ UNCHANGED <<vars, calling, buffer, finished, counters, report, received, stopped>>

StartArrives ==
  /\ gen = "asking"
  /\ StartAndReadAll(Me)
  /\ gen' = "selecting"
  /\ UNCHANGED <<calling, buffer, finished, counters, report, received, stopped>>

In(place) == gen = place /\ calling = "none"

\* select sees what is in the socket, and its end.
Readable == finished = "socket" \/ wire[Me] # <<>> \/ pc[Me] = "done"

\* fetch_frame understood message m: a frame for the consumer, or the FAIL that
\* becomes an SLSError.
Understood(m) ==
  IF m = "FAIL"
  THEN /\ gen' = IF stopped THEN "returned" ELSE "error"
       /\ UNCHANGED <<received, finished>>
  ELSE /\ received' = received + 1
       /\ finished' \in IF m = "last" THEN {"buffer", "socket"} ELSE {"no"}
       /\ UNCHANGED gen

\* The reader has the message already.
FetchBuffered ==
  /\ In("selecting") /\ Readable /\ finished = "no" /\ buffer # <<>>
  /\ Understood(Head(buffer))
  /\ buffer' = Tail(buffer)
  /\ UNCHANGED <<vars, calling, counters, report, stopped>>

\* The reader takes the message from the socket, and n more with it.
FetchWire ==
  /\ In("selecting") /\ finished = "no" /\ buffer = <<>> /\ wire[Me] # <<>>
  /\ Understood(Head(wire[Me]))
  /\ \E n \in 0..(Len(wire[Me]) - 1) :
       /\ buffer' = SubSeq(wire[Me], 2, n + 1)
       /\ wire' = [wire EXCEPT ![Me] = SubSeq(@, n + 2, Len(@))]
  /\ UNCHANGED <<detectorVars, pc, victim, spc, taskVars, frames, peer, history>>
  /\ UNCHANGED <<calling, counters, report, stopped>>

\* FINISHED ends the loop; one more report follows.
FetchFinished ==
  /\ In("selecting") /\ Readable /\ finished # "no"
  /\ gen' = "breaking"
  /\ UNCHANGED <<vars, calling, buffer, finished, counters, report, received, stopped>>

\* The end of the stream: the detector is stopped and ConnectionError raised.
FetchEof ==
  /\ In("selecting") /\ finished = "no" /\ buffer = <<>> /\ wire[Me] = <<>> /\ pc[Me] = "done"
  /\ calling' = "abort"
  /\ stopped' = TRUE
  /\ UNCHANGED <<vars, gen, buffer, finished, counters, report, received>>

-----------------------------------------------------------------------------
(* A progress report *)

\* TIME_LEFT on the stop port, in the order of progress_report.  An idle
\* detector answers with its configuration; an acquisition whose greenlet has
\* not run has no exposure time left to tell.
TimeLeft(n) ==
  IF run_status = "IDLE"
  THEN IF n = 1 THEN config.nb_cycles ELSE config.nb_frames
  ELSE IF n = 1 THEN nb_cycles_left[acquisition]
  ELSE IF n = 2 THEN nb_frames_left[acquisition] ELSE 0

ExposureFails == run_status = "RUNNING" /\ task[acquisition] \in {"spawned", "cancelled"}

\* Mutant of Ahead: what is left is what the detector says.
NotAhead == 0

\* What the report adds to what is left.
Ahead == 2

\* The report that the counters make.
Report(cycles_left, frames_left) ==
  LET cycles == Cycles - (cycles_left + Ahead)
  IN [cycles |-> cycles, total |-> cycles * Frames + Frames - (frames_left + Ahead)]

\* Nothing arrived in time, or FINISHED did: the first counter is read.
ReportBegins ==
  /\ \/ In("selecting") /\ ~Readable /\ gen' = "reporting"
     \/ In("breaking") /\ UNCHANGED gen
  /\ counters = <<>>
  /\ counters' = <<TimeLeft(1)>>
  /\ UNCHANGED <<vars, calling, buffer, finished, report, received, stopped>>

ReportReads ==
  /\ In("reporting") \/ In("breaking")
  /\ Len(counters) = 1
  /\ counters' = Append(counters, TimeLeft(2))
  /\ UNCHANGED <<vars, gen, calling, buffer, finished, report, received, stopped>>

\* The exposure time left: the report is yielded, and after FINISHED the
\* generator returns.
ReportEnds ==
  /\ In("reporting") \/ In("breaking")
  /\ Len(counters) = 2 /\ ~ExposureFails
  /\ counters' = <<>>
  /\ report' = Report(counters[1], counters[2])
  /\ gen' = IF gen = "breaking" THEN "returned" ELSE "selecting"
  /\ UNCHANGED <<vars, calling, buffer, finished, received, stopped>>

\* The FAIL is an SLSError, which leaves the block without a stop.
ReportFails ==
  /\ In("reporting") \/ In("breaking")
  /\ Len(counters) = 2 /\ ExposureFails
  /\ counters' = <<>>
  /\ gen' = IF stopped THEN "returned" ELSE "error"
  /\ UNCHANGED <<vars, calling, buffer, finished, report, received, stopped>>

\* Mutant of ReportLost: the ConnectionError is raised before the stop is answered.
ReportLostUnstopped ==
  /\ In("reporting") \/ In("breaking")
  /\ Len(counters) = 2 /\ ExposureFails
  /\ counters' = <<>>
  /\ gen' = "error" /\ stopped' = TRUE
  /\ UNCHANGED <<vars, calling, buffer, finished, report, received>>

\* Or the reader of the stop connection has the message of the FAIL already, and
\* recv finds the end of the stream: a ConnectionError, after a stop.
ReportLost ==
  /\ In("reporting") \/ In("breaking")
  /\ Len(counters) = 2 /\ ExposureFails
  /\ counters' = <<>>
  /\ calling' = "abort" /\ stopped' = TRUE
  /\ UNCHANGED <<vars, gen, buffer, finished, report, received>>

-----------------------------------------------------------------------------
(* Stops *)

\* The consumer calls acq.stop() when a frame or a report is yielded.
ConsumerStops ==
  /\ In("selecting") /\ (received > 0 \/ report # None) /\ ~stopped
  /\ calling' = "stop"
  /\ stopped' = TRUE
  /\ UNCHANGED <<vars, gen, buffer, finished, counters, report, received>>

StopCall == IF calling = "stop" THEN MyStop ELSE MyAbort

StopArrives ==
  /\ calling # "none"
  /\ StopAcquisition(StopCall)
  /\ UNCHANGED genVars

StopReturns ==
  /\ calling # "none" /\ spc[StopCall] = "done"
  /\ gen' = IF calling = "stop" THEN gen ELSE "error"
  /\ calling' = "none"
  /\ UNCHANGED <<vars, buffer, finished, counters, report, received, stopped>>

-----------------------------------------------------------------------------
Fetch     == FetchBuffered \/ FetchWire \/ FetchFinished \/ FetchEof
MakeReport == ReportBegins \/ ReportReads \/ ReportEnds \/ ReportFails \/ ReportLost
Server    == /\ TaskStep(Me) \/ HandlerStep(Me) \/ \E s \in Stops : StopKilled(s)
             /\ UNCHANGED genVars
Generator == StartWritten \/ Fetch \/ MakeReport \/ StopReturns

\* The program goes on to something else.
ProgramEnds == Over /\ UNCHANGED progressVars

ProgressNext == \/ Generator \/ StartArrives \/ StopArrives \/ ConsumerStops
                \/ Server \/ ProgramEnds

ProgressSpec == ProgressInit /\ [][ProgressNext]_progressVars

\* Requests are delivered, gevent runs what is ready and the program iterates;
\* it need not stop.
ProgressFairness ==
  /\ WF_progressVars(Generator) /\ WF_progressVars(StartArrives) /\ WF_progressVars(StopArrives)
  /\ WF_progressVars(Server)

ProgressFairSpec == ProgressSpec /\ ProgressFairness

-----------------------------------------------------------------------------
(* Properties *)

\* A report never claims frames that the detector has not produced, although
\* its two counters are read at different moments, across the end of a cycle or
\* of the acquisition.
ReportNeverAhead == report # None => report.total <= sent[Me] + Queued(Me)

\* A generator that returned, and whose consumer did not stop it, gave every
\* frame of the cycle, also when select could not see that FINISHED had come.
ReturnedWholeCycle == gen = "returned" /\ ~stopped => received = Frames

\* "make sure acq is stopped before closing the control socket otherwise detector
\* hangs": when a ConnectionError leaves the generator, wherever it came from and
\* whatever the consumer's own stop was doing, the greenlet of its acquisition
\* produces nothing any more.  (An SLSError leaves it without a stop.)
RaisedStopped == gen = "error" /\ stopped => ~Alive(Me) /\ task[Me] # "spawned"

\* The iteration ends, unless the acquisition was killed before it ran.
ProgressEnds == gen = "asking" ~> (Over \/ task[Me] = "cancelled")
=============================================================================
