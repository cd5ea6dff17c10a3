---------------------------- MODULE MythenSession ----------------------------
(***************************************************************************)
(* One client program (sls/client.py) that runs acquisitions one after the *)
(* other against the simulator of SimServer:                               *)
(*                                                                         *)
(*   for k in 1..N:                                                        *)
(*     with detector.acquisition(progress_interval=None, **opts) as acq:   *)
(*       for event, frame in acq: ...   # may leave, may call acq.stop()   *)
(*                                                                         *)
(* Acquisition k uses control connection k.  This module is the client     *)
(* half; the server half is the actions of SimServer, of which only the    *)
(* arrival of a request depends on the client.  Other programs may stop    *)
(* the detector through the stop port (UserStops).                         *)
(***************************************************************************)
EXTENDS SimServer

CONSTANTS
  N,           \* acquisitions the program runs
  Consumer     \* what the body of the for loop may do: "stop", "leave"

\* Stop connection of the consumer's acq.stop() in acquisition k, and of the
\* stop that the generator makes itself when an exception ends it.
StopOf(k)  == N + k
AbortOf(k) == 2 * N + k
OwnStops   == (N + 1)..(3 * N)
UserStops  == Stops \ OwnStops

ASSUME SessionAssumption ==
  /\ N \in Nat \ {0} /\ Conns = 1..N /\ OwnStops \subseteq Stops
  /\ Consumer \subseteq {"stop", "leave"}
  /\ Overlap

VARIABLES
  client,     \* where the generator _raw_run_gen of each acquisition is
  call,       \* the stop_acquisition call it waits for
  stopped,    \* Acquisition._stopped
  received    \* Acquisition.nb_frames: frames handed to the consumer

clientVars == <<client, call, stopped, received>>
sessionVars == <<vars, clientVars>>

\* "last" has FINISHED in its buffer but the consumer still holds the last frame.
\* "left" re-raised the consumer's own exception, "error" raised one of its own.
ClientStates == {"idle", "iterating", "last", "returned", "left", "error"}
Over(k) == client[k] \in {"returned", "left", "error"}
Running(k) == client[k] \in {"iterating", "last"} /\ call[k] = "none"

SessionInit ==
  /\ Init
  /\ client = [k \in Conns |-> "idle"]
  /\ call = [k \in Conns |-> "none"]
  /\ stopped = [k \in Conns |-> FALSE]
  /\ received = [k \in Conns |-> 0]

-----------------------------------------------------------------------------
(* The generator *)

\* _prepare, connect and START_AND_READ_ALL.  Connection.close only closed the
\* socket object: the reader made by connect keeps the TCP connection of the
\* previous acquisition open until the first connect made here replaces it.
Prepare(k) ==
  /\ client[k] = "idle"
  /\ k > 1 => Over(k - 1)
  /\ client' = [client EXCEPT ![k] = "iterating"]
  /\ config' \in Configs
  /\ IF k > 1
     THEN /\ peer' = [peer EXCEPT ![k - 1] = "closed"]
          /\ wire' = [wire EXCEPT ![k - 1] = <<>>]
          /\ cut' = cut \cup {k - 1}
     ELSE UNCHANGED <<peer, wire, cut>>
  /\ UNCHANGED <<run_status, acquisition, pc, victim, spc, taskVars, frames, sent,
                 call, stopped, received>>

\* Mutant of Receive: any result that follows a frame ends the iteration.
ReceiveOne(k) ==
  /\ client[k] = "iterating" /\ call[k] = "none"
  /\ ClientReads(k)
  /\ Head(wire[k]) # "FAIL"
  /\ received' = [received EXCEPT ![k] = @ + 1]
  /\ client' = [client EXCEPT ![k] = "last"]
  /\ UNCHANGED <<call, stopped>>

\* fetch_frame reads OK and a frame, which is yielded.  With the last frame of
\* a cycle FINISHED is there too, for the next call of next().
Receive(k) ==
  /\ client[k] = "iterating" /\ call[k] = "none"
  /\ ClientReads(k)
  /\ Head(wire[k]) # "FAIL"
  /\ received' = [received EXCEPT ![k] = @ + 1]
  /\ client' = IF Head(wire[k]) = "last" THEN [client EXCEPT ![k] = "last"] ELSE client
  /\ UNCHANGED <<call, stopped>>

\* fetch_frame reads FINISHED: the iteration is over.
FetchFinished(k) ==
  /\ client[k] = "last" /\ call[k] = "none"
  /\ client' = [client EXCEPT ![k] = "returned"]
  /\ UNCHANGED <<vars, call, stopped, received>>

\* fetch_frame reads FAIL: SLSError, hidden if the acquisition was stopped.
FetchFail(k) ==
  /\ client[k] = "iterating" /\ call[k] = "none"
  /\ ClientReads(k)
  /\ Head(wire[k]) = "FAIL"
  /\ client' = [client EXCEPT ![k] = IF stopped[k] THEN "returned" ELSE "error"]
  /\ UNCHANGED <<call, stopped, received>>

\* Mutant of FetchEof: the end of the stream ends the iteration.
FetchEofReturns(k) ==
  /\ client[k] = "iterating" /\ call[k] = "none"
  /\ wire[k] = <<>> /\ pc[k] = "done"
  /\ client' = [client EXCEPT ![k] = "returned"]
  /\ UNCHANGED <<vars, call, stopped, received>>

\* The server closed the connection: ConnectionError, which is not an SLSError,
\* so the detector is stopped before it is raised again.
FetchEof(k) ==
  /\ client[k] = "iterating" /\ call[k] = "none"
  /\ wire[k] = <<>> /\ pc[k] = "done"
  /\ call' = [call EXCEPT ![k] = "error"]
  /\ stopped' = [stopped EXCEPT ![k] = TRUE]
  /\ UNCHANGED <<vars, client, received>>

\* The consumer leaves the loop at a frame (break, an exception, Ctrl-C): the
\* generator is closed, and stops the detector first.
ConsumerLeaves(k) ==
  /\ "leave" \in Consumer
  /\ Running(k) /\ received[k] > 0
  /\ call' = [call EXCEPT ![k] = "left"]
  /\ stopped' = [stopped EXCEPT ![k] = TRUE]
  /\ UNCHANGED <<vars, client, received>>

\* The consumer calls acq.stop() at a frame and goes on iterating.
ConsumerStops(k) ==
  /\ "stop" \in Consumer
  /\ Running(k) /\ received[k] > 0 /\ ~stopped[k]
  /\ call' = [call EXCEPT ![k] = "stop"]
  /\ stopped' = [stopped EXCEPT ![k] = TRUE]
  /\ UNCHANGED <<vars, client, received>>

\* The stop connection on which the generator waits for an answer.
StopCall(k) == IF call[k] = "stop" THEN StopOf(k) ELSE AbortOf(k)

\* Mutant of StopReply: a stop ends the iteration.
StopReplyEnds(k) ==
  /\ call[k] # "none" /\ spc[StopCall(k)] = "done"
  /\ call' = [call EXCEPT ![k] = "none"]
  /\ client' = [client EXCEPT ![k] = IF call[k] = "stop" THEN "returned" ELSE call[k]]
  /\ UNCHANGED <<vars, stopped, received>>

\* stop_acquisition returns: to the consumer, or to the raise that follows it.
StopReply(k) ==
  /\ call[k] # "none" /\ spc[StopCall(k)] = "done"
  /\ call' = [call EXCEPT ![k] = "none"]
  /\ client' = IF call[k] = "stop" THEN client ELSE [client EXCEPT ![k] = call[k]]
  /\ UNCHANGED <<vars, stopped, received>>

-----------------------------------------------------------------------------
(* Requests reach the server *)

StartArrives(k) ==
  /\ client[k] = "iterating"
  /\ StartAndReadAll(k)
  /\ UNCHANGED clientVars

StopArrives(k) ==
  /\ call[k] # "none"
  /\ StopAcquisition(StopCall(k))
  /\ UNCHANGED clientVars

UserStop(s) == StopAcquisition(s) /\ UNCHANGED clientVars

ServerRuns(k) ==
  /\ \/ TaskStep(k) \/ HandlerStep(k)
     \/ \E s \in {StopOf(k), AbortOf(k)} : StopKilled(s)
  /\ UNCHANGED clientVars

UserStopEnds(s) == StopKilled(s) /\ UNCHANGED clientVars

Generator(k) == \/ Receive(k) \/ FetchFinished(k) \/ FetchFail(k)
                \/ FetchEof(k) \/ StopReply(k)

\* The program is through with its acquisitions.
ProgramEnds == (\A k \in Conns : Over(k)) /\ UNCHANGED sessionVars

SessionNext ==
  \/ ProgramEnds
  \/ \E k \in Conns : \/ Prepare(k) \/ Generator(k) \/ StartArrives(k) \/ StopArrives(k)
                      \/ ConsumerLeaves(k) \/ ConsumerStops(k) \/ ServerRuns(k)
  \/ \E s \in UserStops : UserStop(s) \/ UserStopEnds(s)

SessionSpec == SessionInit /\ [][SessionNext]_sessionVars

\* Requests are delivered, gevent runs what is ready and the program goes on
\* iterating; it need not start, stop or leave anything.
SessionFairness ==
  /\ \A k \in Conns : /\ WF_sessionVars(Generator(k))
                      /\ WF_sessionVars(StartArrives(k)) /\ WF_sessionVars(StopArrives(k))
                      /\ WF_sessionVars(TaskStep(k) /\ UNCHANGED clientVars)
                      /\ WF_sessionVars(HandlerStep(k) /\ UNCHANGED clientVars)
  /\ \A s \in Stops : WF_sessionVars(StopKilled(s) /\ UNCHANGED clientVars)

SessionFairSpec == SessionSpec /\ SessionFairness

-----------------------------------------------------------------------------
(* Properties *)

\* The program left the loop of an earlier acquisition.
LeftBefore(k) == \E j \in Conns : j < k /\ client[j] = "left"

\* An iteration that ends normally and was not stopped gave the consumer every
\* frame of every cycle it asked for.
ReturnedComplete ==
  \A k \in Conns : client[k] = "returned" /\ ~stopped[k] => received[k] = Total(k)

\* When an acquisition is over for the program (finished, stopped or failed) it
\* is over for the detector: the detector is free for the next one.
OverMeansReleased == \A k \in Conns : Over(k) => acquisition # k

\* No START ever takes the detector from an acquisition that still has it.
FreshDetector ==
  [][acquisition' # acquisition /\ acquisition' # None => acquisition = None]_sessionVars

\* The program gets an error only in an acquisition that somebody stopped, as
\* long as it leaves none early.
NoUnprovokedError ==
  \A k \in Conns : client[k] = "error" => spc[StopOf(k)] = "done" \/ LeftBefore(k)

\* Every iteration that begins comes to an end, unless an earlier one was left:
\* its handler, which is told late, may then stop the new acquisition.
IterationEnds == \A k \in Conns : client[k] = "iterating" /\ ~LeftBefore(k) ~> Over(k)
=============================================================================
