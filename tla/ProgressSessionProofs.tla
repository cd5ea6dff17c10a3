------------------------ MODULE ProgressSessionProofs ------------------------
(***************************************************************************)
(* Proofs about ProgressSession, for every value of the timers, every      *)
(* socket size and every interleaving of stops and reports.  What          *)
(* SimServer keeps holds of its simulator too; to it come how far the      *)
(* greenlet has got by its own counters (Advanced), what the client has    *)
(* read and its reader holds (Buffered), what the counters of a report     *)
(* were when they were read (Counted), and that a stop which was answered  *)
(* left no greenlet (Silenced).                                            *)
(***************************************************************************)
EXTENDS ProgressSession, SimServerProofs

\* What SimServer keeps whatever its clients do.
ServerInv == IInv /\ Accounts /\ CyclesInOrder /\ XInv

\* Frames that the detector has produced.
Produced(c) == sent[c] + Queued(c)

\* Frames of the cycles before the one that the counters are in.
Before(c) == (params[c].nb_cycles - nb_cycles_left[c]) * params[c].nb_frames

\* The counters are never behind the frames: a running greenlet has produced what
\* they say, and a dead one all cycles that they have counted down.
Advanced(c) ==
  /\ task[c] \in {"none", "spawned", "cancelled"} => Produced(c) = 0
  /\ task[c] \in {"spawned", "cancelled"} => nb_cycles_left[c] = params[c].nb_cycles
  /\ Alive(c) => /\ nb_frames_left[c] <= params[c].nb_frames
                 /\ Produced(c) + nb_frames_left[c] = Before(c) + params[c].nb_frames
  /\ task[c] = "dead" => Produced(c) >= Before(c)

GenTypes ==
  /\ gen \in Gens
  /\ calling \in {"none", "stop", "abort"}
  /\ finished \in {"no", "buffer", "socket"}
  /\ stopped \in BOOLEAN
  /\ received \in Nat
  /\ buffer \in Seq(Messages)

\* The client stays connected and the acquisition is the only one, with the
\* timers that the client has read; it is stopped while the client iterates.
Alone ==
  /\ peer[Me] = "open"
  /\ pc[Me] = "new" <=> gen \in {"idle", "asking"}
  /\ calling # "none" => gen \in {"selecting", "reporting", "breaking"}
  /\ pc[Me] # "failing"
  /\ pc[Me] \in {"serving", "killing"} => acquisition = Me
  /\ pc[Me] # "new" => params[Me].nb_frames = Frames /\ params[Me].nb_cycles = Cycles

\* What is buffered and what is on the wire follows what was received, in the
\* order of its cycle.
InTurn(q, n) ==
  \A i \in 1..Len(q) : /\ q[i] # "FAIL"
                       /\ q[i] = "last" <=> (n + i) % Frames = 0

Buffered ==
  /\ received + Len(buffer) + Len(wire[Me]) = sent[Me]
  /\ InTurn(buffer, received)
  /\ InTurn(wire[Me], received + Len(buffer))

\* The loop goes on until the last frame of the cycle.
Iterating ==
  /\ received <= Frames
  /\ finished = "no" /\ ~Over => received < Frames
  /\ finished # "no" => received = Frames
  /\ gen = "breaking" => finished # "no"
  /\ gen = "returned" => stopped \/ received = Frames

\* A counter of cycles was not behind the frames when it was read, and is not now,
\* but for the cycle that an idle detector whose timer is 0 does not count.
Counted ==
  /\ counters \in Seq(Nat)
  /\ counters # <<>> => Produced(Me) + Frames >= (Cycles - counters[1]) * Frames
  /\ report # None => report.total \in Int /\ report.total <= Produced(Me)

\* The greenlet of the acquisition is not there any more.
Quiet == ~Alive(Me) /\ task[Me] # "spawned"

\* A stop is only called when there is an acquisition, and ends its greenlet.
Silenced ==
  /\ \A s \in Stops : spc[s] # "new" => pc[Me] # "new"
  /\ \A s \in Stops : spc[s] = "killing" => task[Me] # "spawned"
  /\ \A s \in Stops : spc[s] = "done" => Quiet
  /\ gen = "error" /\ stopped => Quiet

ProgressInv ==
  /\ ServerInv /\ Advanced(Me) /\ GenTypes /\ Alone
  /\ Buffered /\ Iterating /\ Counted /\ Silenced

-----------------------------------------------------------------------------
(* How far a greenlet has got *)

\* The numbers of a connection are numbers.
LEMMA Numbers ==
  ASSUME IInv, NEW c \in Conns
  PROVE  /\ params[c].nb_frames \in Nat \ {0} /\ params[c].nb_cycles \in Nat \ {0}
         /\ nb_frames_left[c] \in Nat /\ nb_cycles_left[c] \in Nat /\ sent[c] \in Nat
         /\ frames[c] \in Seq(Items) /\ Len(frames[c]) \in Nat
         /\ Queued(c) \in Int /\ Produced(c) \in Int /\ Before(c) \in Int
<1>1. /\ params[c].nb_frames \in Nat \ {0} /\ params[c].nb_cycles \in Nat \ {0}
      /\ nb_frames_left[c] \in Nat /\ nb_cycles_left[c] \in Nat /\ sent[c] \in Nat
      /\ frames[c] \in Seq(Items) /\ Len(frames[c]) \in Nat
  BY LenProperties DEF IInv, TypeOK, Params
<1>2. Queued(c) \in Int
  BY <1>1 DEF Queued
<1>3. Before(c) \in Int
  <2>1. params[c].nb_cycles - nb_cycles_left[c] \in Int
    BY <1>1
  <2> QED BY <1>1, <2>1 DEF Before
<1> QED BY <1>1, <1>2, <1>3 DEF Produced

\* One cycle more.
LEMMA CycleCounted ==
  ASSUME NEW n \in Int, NEW k \in Int, NEW f \in Int
  PROVE  (n - (k - 1)) * f = (n - k) * f + f
OBVIOUS

\* The greenlet of a new acquisition has produced nothing.
LEMMA StartAdvanced ==
  ASSUME IInv, NEW c \in Conns, Advanced(c), StartAndReadAll(c)
  PROVE  Advanced(c)' /\ Produced(c)' = Produced(c)
<1>1. /\ pc[c] = "new" /\ task'[c] = "spawned" /\ task[c] = "none"
      /\ frames'[c] = frames[c] /\ sent'[c] = sent[c]
      /\ nb_cycles_left'[c] = params'[c].nb_cycles
  BY DEF StartAndReadAll, IInv, TypeOK, TaskStarted, history
<1>2. Produced(c)' = Produced(c) /\ Produced(c) = 0
  BY <1>1 DEF Produced, Queued, Advanced
<1> QED BY <1>1, <1>2 DEF Advanced, Alive

\* Then it is at the first frame of the first cycle.
LEMMA TaskStartAdvanced ==
  ASSUME IInv, NEW c \in Conns, Advanced(c), TaskStart(c)
  PROVE  Advanced(c)' /\ Produced(c)' = Produced(c)
<1>1. /\ task[c] = "spawned" /\ task'[c] = "exposing" /\ nb_frames_left'[c] = params[c].nb_frames
      /\ UNCHANGED <<params, nb_cycles_left, frames, sent>>
      /\ nb_cycles_left[c] = params[c].nb_cycles /\ Produced(c) = 0
  BY DEF TaskStart, IInv, TypeOK, history, Advanced
<1>2. Produced(c)' = Produced(c)
  BY <1>1 DEF Produced, Queued
<1>3. Before(c)' = 0
  <2>1. Before(c)' = (params[c].nb_cycles - params[c].nb_cycles) * params[c].nb_frames
    BY <1>1 DEF Before
  <2>2. (params[c].nb_cycles - params[c].nb_cycles) = 0 /\ 0 * params[c].nb_frames = 0
    BY Numbers
  <2> QED BY <2>1, <2>2
<1>4. params[c].nb_frames \in Nat
  BY Numbers
<1> QED BY <1>1, <1>2, <1>3, <1>4 DEF Advanced, Alive

\* What follows a frame begins the next cycle when this one is produced.
LEMMA NextExposureAdvanced ==
  ASSUME IInv, NEW c \in Conns, NEW left \in Nat, NEW queue \in Seq(Items),
         NextExposure(c, left, queue), UNCHANGED <<params, sent>>,
         left <= params[c].nb_frames, \A i \in 1..Len(queue) : queue[i] # "none",
         sent[c] + Len(queue) + left = Before(c) + params[c].nb_frames
  PROVE  Advanced(c)' /\ Produced(c)' = sent[c] + Len(queue)
<1>1. /\ params[c].nb_frames \in Nat /\ params[c].nb_cycles \in Nat /\ nb_cycles_left[c] \in Nat
      /\ sent[c] \in Nat /\ Before(c) \in Int /\ Len(queue) \in Nat
  BY Numbers, LenProperties
<1>2. FramesIn(queue) = Len(queue) /\ FramesIn(Append(queue, "none")) = Len(queue)
  BY PutEntry DEF Items
<1>3. /\ frames'[c] = queue => Produced(c)' = sent[c] + Len(queue)
      /\ frames'[c] = Append(queue, "none") => Produced(c)' = sent[c] + Len(queue)
  BY <1>2 DEF Produced, Queued, FramesIn
<1>4. CASE /\ task'[c] = "exposing" /\ nb_frames_left'[c] = left /\ frames'[c] = queue
           /\ nb_cycles_left'[c] = nb_cycles_left[c]
  <2>1. Before(c)' = Before(c)
    BY <1>4 DEF Before
  <2> QED BY <1>3, <1>4, <2>1 DEF Advanced, Alive
<1>5. ASSUME nb_cycles_left'[c] = nb_cycles_left[c] - 1
      PROVE  Before(c)' = Before(c) + params[c].nb_frames
  <2>1. params[c].nb_cycles \in Int /\ nb_cycles_left[c] \in Int /\ params[c].nb_frames \in Int
    BY <1>1
  <2>2. (params[c].nb_cycles - (nb_cycles_left[c] - 1)) * params[c].nb_frames
          = (params[c].nb_cycles - nb_cycles_left[c]) * params[c].nb_frames + params[c].nb_frames
    BY <2>1, CycleCounted, Zenon
  <2> QED BY <1>5, <2>2 DEF Before
<1>6. CASE /\ task'[c] = "exposing" /\ nb_frames_left'[c] = params[c].nb_frames /\ frames'[c] = queue
           /\ nb_cycles_left'[c] = nb_cycles_left[c] - 1 /\ left = 0
  <2>1. Produced(c)' = Before(c)'
    BY <1>1, <1>3, <1>5, <1>6
  <2> QED BY <1>1, <1>3, <1>6, <2>1 DEF Advanced, Alive
<1>7. CASE /\ task'[c] = "dead" /\ frames'[c] = Append(queue, "none")
           /\ nb_cycles_left[c] = 1 /\ nb_cycles_left'[c] = 0 /\ left = 0
  <2>1. Produced(c)' = Before(c)' /\ Produced(c)' \in Int
    BY <1>1, <1>3, <1>5, <1>7
  <2> QED BY <1>3, <1>7, <2>1 DEF Advanced, Alive
<1> QED BY <1>4, <1>6, <1>7 DEF NextExposure, IInv, TypeOK

\* A frame that was exposed is one more, and one less to go.
LEMMA ExposeAdvanced ==
  ASSUME IInv, NEW c \in Conns, Account(c), Advanced(c), Expose(c)
  PROVE  Advanced(c)' /\ Produced(c)' = Produced(c) + 1
<1> DEFINE queue == Append(frames[c], FrameEvents(c))
           left  == nb_frames_left[c] - 1
<1>1. /\ task[c] = "exposing" /\ UNCHANGED <<params, sent>>
      /\ nb_frames_left[c] >= 1 /\ nb_frames_left[c] \in Nat /\ sent[c] \in Nat
      /\ frames[c] \in Seq(Items) /\ Len(frames[c]) \in Nat
      /\ params[c].nb_frames \in Nat /\ Before(c) \in Int
  BY Numbers DEF Expose, IInv, CountersPositive, history
<1>2. FrameEvents(c) \in Items /\ FrameEvents(c) # "none"
  BY DEF FrameEvents, Items
<1>3. \A n \in 1..Len(frames[c]) : frames[c][n] # "none"
  BY <1>1 DEF Account, NoneEnds
<1>4. /\ queue \in Seq(Items) /\ Len(queue) = Len(frames[c]) + 1
      /\ FramesIn(frames[c]) = Len(frames[c]) /\ FramesIn(queue) = Len(frames[c]) + 1
      /\ \A n \in 1..Len(queue) : queue[n] # "none"
  BY <1>1, <1>2, <1>3, PutEntry, AppendProperties
<1>5. Produced(c) = sent[c] + Len(frames[c])
  BY <1>4 DEF Produced, Queued, FramesIn
<1>6. /\ nb_frames_left[c] <= params[c].nb_frames
      /\ Produced(c) + nb_frames_left[c] = Before(c) + params[c].nb_frames
  BY <1>1 DEF Advanced, Alive
<1>7. /\ left \in Nat /\ left <= params[c].nb_frames
      /\ sent[c] + Len(queue) + left = Before(c) + params[c].nb_frames
      /\ sent[c] + Len(queue) = Produced(c) + 1
  <2>1. left \in Nat /\ left <= params[c].nb_frames
    BY <1>1, <1>6
  <2>2. sent[c] + Len(queue) = sent[c] + Len(frames[c]) + 1
    BY <1>1, <1>4
  <2>3. sent[c] + Len(frames[c]) + nb_frames_left[c] = Before(c) + params[c].nb_frames
    BY <1>5, <1>6
  <2>4. sent[c] + Len(queue) + left = sent[c] + Len(frames[c]) + nb_frames_left[c]
    BY <1>1, <1>4
  <2> QED BY <1>5, <2>1, <2>2, <2>3, <2>4
<1> HIDE DEF queue, left
<1>8. CASE /\ task' = [task EXCEPT ![c] = "resting"]
           /\ nb_frames_left' = [nb_frames_left EXCEPT ![c] = left]
           /\ frames' = [frames EXCEPT ![c] = queue] /\ UNCHANGED nb_cycles_left
  <2>1. task'[c] = "resting" /\ nb_frames_left'[c] = left /\ frames'[c] = queue
    BY <1>8 DEF IInv, TypeOK
  <2>2. Produced(c)' = sent[c] + Len(queue) /\ Before(c)' = Before(c)
    BY <1>1, <1>4, <1>8, <2>1 DEF Produced, Queued, FramesIn, Before
  <2> QED BY <1>1, <1>7, <2>1, <2>2 DEF Advanced, Alive
<1>9. CASE NextExposure(c, left, queue)
  BY <1>1, <1>4, <1>7, <1>9, NextExposureAdvanced
<1> QED BY <1>8, <1>9 DEF Expose, queue, left

\* The end of a dead time produces nothing.
LEMMA RestedAdvanced ==
  ASSUME IInv, NEW c \in Conns, Account(c), Advanced(c), Rested(c)
  PROVE  Advanced(c)' /\ Produced(c)' = Produced(c)
<1>1. /\ Alive(c) /\ UNCHANGED <<params, sent>>
      /\ nb_frames_left[c] \in Nat /\ frames[c] \in Seq(Items)
      /\ NextExposure(c, nb_frames_left[c], frames[c])
  BY DEF Rested, IInv, TypeOK, Alive, history
<1>2. \A n \in 1..Len(frames[c]) : frames[c][n] # "none"
  BY <1>1 DEF Account, NoneEnds, Alive
<1>3. Produced(c) = sent[c] + Len(frames[c])
  BY <1>1, <1>2, PutEntry DEF Produced, Queued, FramesIn, Items
<1> QED BY <1>1, <1>2, <1>3, NextExposureAdvanced DEF Advanced

\* A frame that is written was produced before.
LEMMA WriteAdvanced ==
  ASSUME IInv, NEW c \in Conns, Account(c), Advanced(c), WriteFrames(c)
  PROVE  Advanced(c)' /\ Produced(c)' = Produced(c)
<1>1. /\ FrameReady(c) /\ NextFrames(c, Tail(frames[c]))
      /\ UNCHANGED <<params, nb_frames_left, nb_cycles_left>>
      /\ sent[c] \in Nat /\ sent'[c] = sent[c] + 1
  BY DEF WriteFrames, IInv, TypeOK
<1>2. task'[c] = task[c] /\ Queued(c) \in Int /\ Queued(c)' = Queued(c) - 1
  BY <1>1, FrameTaken
<1>3. Produced(c)' = Produced(c)
  BY <1>1, <1>2 DEF Produced
<1> QED BY <1>1, <1>2, <1>3 DEF Advanced, Alive, Before

\* The None is no frame.
LEMMA EndAdvanced ==
  ASSUME IInv, NEW c \in Conns, Account(c), Advanced(c), EndOfFrames(c)
  PROVE  Advanced(c)' /\ Produced(c)' = Produced(c)
<1>1. /\ frames[c] = <<"none">> /\ frames'[c] = <<>> /\ Finally(c)
      /\ UNCHANGED <<params, nb_frames_left, nb_cycles_left, sent>>
  BY DEF EndOfFrames, IInv, TypeOK
<1>2. task[c] = "dead" /\ task'[c] = "dead"
  BY <1>1, FinallyCutsLemma DEF FinallyCuts, Account, NoneEnds, IInv
<1>3. Produced(c)' = Produced(c)
  BY <1>1 DEF Produced, Queued
<1> QED BY <1>1, <1>2, <1>3 DEF Advanced, Alive, Before

\* Nor does a kill produce or lose a frame.
LEMMA KeptAdvanced ==
  ASSUME IInv, NEW c \in Conns, Account(c), Advanced(c), Kept(c)
  PROVE  Advanced(c)' /\ Produced(c)' = Produced(c)
<1>1. Before(c)' = Before(c) /\ nb_frames_left'[c] = nb_frames_left[c] /\ params'[c] = params[c]
  BY DEF Kept, Before
<1>2. CASE frames'[c] = frames[c]
  <2>1. Produced(c)' = Produced(c)
    BY <1>2 DEF Kept, Produced, Queued
  <2>2. CASE task'[c] = task[c]
    BY <1>1, <2>1, <2>2 DEF Kept, Advanced, Alive
  <2>3. CASE task[c] = "spawned" /\ task'[c] = "cancelled"
    BY <1>1, <2>1, <2>3 DEF Kept, Advanced, Alive
  <2>4. CASE frames'[c] = Append(frames[c], "none")
    BY <1>2, <2>4, Numbers, AppendProperties DEF Items
  <2> QED BY <2>1, <2>2, <2>3, <2>4 DEF Kept
<1>3. CASE Alive(c) /\ task'[c] = "dead" /\ frames'[c] = Append(frames[c], "none")
  <2>1. \A n \in 1..Len(frames[c]) : frames[c][n] # "none"
    BY <1>3 DEF Account, NoneEnds, Alive
  <2>2. frames[c] \in Seq(Items) /\ "none" \in Items
    BY Numbers DEF Items
  <2>3. FramesIn(frames[c]) = FramesIn(Append(frames[c], "none"))
    BY <2>1, <2>2, PutEntry
  <2>4. Produced(c)' = Produced(c)
    BY <1>3, <2>3 DEF Kept, Produced, Queued, FramesIn
  <2>5. Produced(c) >= Before(c)
    BY <1>3, Numbers DEF Advanced
  <2> QED BY <1>1, <1>3, <2>4, <2>5 DEF Advanced, Alive
<1> QED BY <1>2, <1>3 DEF Kept

\* Whatever happens while the client is there, the counters stay behind the
\* frames, and no frame that was produced is lost.
LEMMA AdvancedNext ==
  ASSUME IInv, [Next]_vars, NEW c \in Conns, Account(c), Advanced(c), peer'[c] = "open"
  PROVE  Advanced(c)' /\ Produced(c)' >= Produced(c)
<1>0. Produced(c) \in Int
  BY Numbers
<1>1. CASE StartAndReadAll(c)
  BY <1>0, <1>1, StartAdvanced
<1>2. CASE TaskStep(c)
  BY <1>0, <1>2, TaskStartAdvanced, ExposeAdvanced, RestedAdvanced DEF TaskStep
<1>3. CASE WriteFrames(c)
  BY <1>0, <1>3, WriteAdvanced
<1>4. CASE LoseFrames(c) \/ WriteFails(c)
  BY <1>4 DEF LoseFrames, WriteFails, netVars
<1>5. CASE EndOfFrames(c)
  BY <1>0, <1>5, EndAdvanced
<1>6. ASSUME Kept(c) PROVE Advanced(c)' /\ Produced(c)' >= Produced(c)
  BY <1>0, <1>6, KeptAdvanced
<1>7. ASSUME ~StartAndReadAll(c), ~TaskStep(c),
             ~(WriteFrames(c) \/ LoseFrames(c) \/ WriteFails(c) \/ EndOfFrames(c))
      PROVE  Kept(c)
  BY <1>7, StepKeeps
<1> QED BY <1>1, <1>2, <1>3, <1>4, <1>5, <1>6, <1>7

\* All cycles that an acquisition has counted down were produced.
LEMMA CyclesProduced ==
  ASSUME IInv, NEW c \in Conns, Advanced(c), pc[c] # "new"
  PROVE  Produced(c) >= Before(c)
<1>1. task[c] \in TaskStates /\ task[c] # "none"
  BY DEF IInv, TypeOK, TaskStarted
<1>2. CASE task[c] \in {"spawned", "cancelled"}
  <2>1. Before(c) = (params[c].nb_cycles - params[c].nb_cycles) * params[c].nb_frames
    BY <1>2 DEF Advanced, Before
  <2>2. params[c].nb_cycles - params[c].nb_cycles = 0 /\ 0 * params[c].nb_frames = 0
    BY Numbers
  <2>3. Produced(c) = 0
    BY <1>2 DEF Advanced
  <2> QED BY <2>1, <2>2, <2>3
<1>3. CASE Alive(c)
  BY <1>3, Numbers DEF Advanced
<1> QED BY <1>1, <1>2, <1>3 DEF Advanced, TaskStates, Alive

-----------------------------------------------------------------------------
(* The steps of the session, and the simulator's part of them *)

\* The program has the only control connection.
LEMMA MeType == Me \in Conns /\ \A c \in Conns : c = Me
BY ProgressAssumption

\* What the simulator does by itself.
Runs == \/ TaskStep(Me) \/ HandlerStep(Me)
        \/ \E s \in Stops : StopAcquisition(s) \/ StopKilled(s)

\* What the program does without the simulator.
GenOnly == \/ StartWritten \/ FetchBuffered \/ FetchFinished \/ FetchEof
           \/ MakeReport \/ StopReturns \/ ConsumerStops

\* The kinds of step of a session.
LEMMA ProgressSteps ==
  ASSUME [ProgressNext]_progressVars
  PROVE  \/ StartArrives
         \/ Runs /\ UNCHANGED genVars
         \/ FetchWire
         \/ GenOnly /\ UNCHANGED vars
         \/ UNCHANGED progressVars
<1>1. StopArrives => Runs /\ UNCHANGED genVars
  BY ProgressAssumption DEF StopArrives, StopCall, Runs
<1>2. Server => Runs /\ UNCHANGED genVars
  BY DEF Server, Runs
<1>3. GenOnly => UNCHANGED vars
  BY DEF GenOnly, StartWritten, FetchBuffered, FetchFinished, FetchEof, MakeReport, ReportBegins,
         ReportReads, ReportEnds, ReportFails, ReportLost, StopReturns, ConsumerStops
<1> QED BY <1>1, <1>2, <1>3 DEF ProgressNext, Generator, Fetch, GenOnly, ProgramEnds

\* Every step is one of SimServer, but for a reader that takes several messages.
LEMMA ProgressIsServed ==
  ASSUME [ProgressNext]_progressVars, ~FetchWire
  PROVE  [Next]_vars
<1>1. StartArrives => Next
  BY MeType DEF StartArrives, Next
<1>2. Runs => Next
  BY MeType DEF Runs, Next
<1> QED BY <1>1, <1>2, ProgressSteps DEF progressVars

\* A part of a sequence of messages.
LEMMA PartOf ==
  ASSUME NEW q \in Seq(Messages), NEW a \in 1..Len(q) + 1, NEW b \in 0..Len(q), a <= b + 1
  PROVE  /\ SubSeq(q, a, b) \in Seq(Messages) /\ Len(SubSeq(q, a, b)) = b - a + 1
         /\ \A i \in 1..Len(SubSeq(q, a, b)) : SubSeq(q, a, b)[i] = q[a + i - 1]
<1>1. a \in Nat /\ b \in Nat /\ Len(q) \in Nat
  BY LenProperties
<1>2. \A i \in a..b : i \in 1..Len(q) /\ q[i] \in Messages
  BY <1>1, ElementOfSeq
<1> QED BY <1>1, <1>2, SubSeqProperties

\* The messages that the reader takes, with the first one that is understood.
LEMMA FetchTakes ==
  ASSUME IInv, FetchWire
  PROVE  /\ wire[Me] \in Seq(Messages) /\ Len(wire[Me]) \in Nat /\ Len(wire[Me]) >= 1
         /\ Head(wire[Me]) = wire[Me][1]
         /\ \E n \in 0..(Len(wire[Me]) - 1) :
              /\ buffer' \in Seq(Messages) /\ wire'[Me] \in Seq(Messages)
              /\ Len(buffer') = n /\ Len(wire'[Me]) = Len(wire[Me]) - 1 - n
              /\ \A i \in 1..n : buffer'[i] = wire[Me][i + 1]
              /\ \A i \in 1..Len(wire'[Me]) : wire'[Me][i] = wire[Me][i + n + 1]
<1>1. /\ wire[Me] \in Seq(Messages) /\ wire[Me] # <<>> /\ Len(wire[Me]) \in Nat
      /\ Len(wire[Me]) >= 1 /\ Head(wire[Me]) = wire[Me][1]
  BY MeType, LenProperties, EmptySeq DEF FetchWire, IInv, TypeOK
<1>2. PICK n \in 0..(Len(wire[Me]) - 1) :
        /\ buffer' = SubSeq(wire[Me], 2, n + 1)
        /\ wire'[Me] = SubSeq(wire[Me], n + 2, Len(wire[Me]))
  BY MeType DEF FetchWire, IInv, TypeOK
<1>3. /\ 2 \in 1..Len(wire[Me]) + 1 /\ n + 1 \in 0..Len(wire[Me]) /\ 2 <= n + 1 + 1
      /\ n + 2 \in 1..Len(wire[Me]) + 1 /\ Len(wire[Me]) \in 0..Len(wire[Me])
      /\ n + 2 <= Len(wire[Me]) + 1 /\ n \in Nat
  BY <1>1
<1>4. /\ buffer' \in Seq(Messages) /\ Len(buffer') = n
      /\ \A i \in 1..n : buffer'[i] = wire[Me][i + 1]
  <2>1. /\ buffer' \in Seq(Messages) /\ Len(buffer') = n + 1 - 2 + 1
        /\ \A i \in 1..Len(buffer') : buffer'[i] = wire[Me][2 + i - 1]
    BY <1>1, <1>2, <1>3, PartOf
  <2> QED BY SMTT(30), <1>3, <2>1
<1>5. /\ wire'[Me] \in Seq(Messages) /\ Len(wire'[Me]) = Len(wire[Me]) - 1 - n
      /\ \A i \in 1..Len(wire'[Me]) : wire'[Me][i] = wire[Me][i + n + 1]
  <2>1. /\ wire'[Me] \in Seq(Messages) /\ Len(wire'[Me]) = Len(wire[Me]) - (n + 2) + 1
        /\ \A i \in 1..Len(wire'[Me]) : wire'[Me][i] = wire[Me][n + 2 + i - 1]
    BY <1>1, <1>2, <1>3, PartOf
  <2>2. Len(wire'[Me]) = Len(wire[Me]) - 1 - n
    BY <1>1, <1>3, <2>1
  <2>3. ASSUME NEW i \in 1..Len(wire'[Me]) PROVE wire'[Me][i] = wire[Me][i + n + 1]
    <3>1. i \in Int /\ n + 2 + i - 1 = i + n + 1
      BY <1>3
    <3> QED BY <2>1, <3>1
  <2> QED BY <2>1, <2>2, <2>3
<1> QED BY <1>1, <1>4, <1>5

\* What SimServer keeps is kept in every session.
LEMMA ServerNext == ServerInv /\ [ProgressNext]_progressVars => ServerInv'
<1> SUFFICES ASSUME ServerInv, [ProgressNext]_progressVars PROVE ServerInv'
  OBVIOUS
<1>1. CASE FetchWire
  <2>1. UNCHANGED <<detectorVars, pc, victim, spc, taskVars, frames, peer, history>>
    BY <1>1 DEF FetchWire
  <2>2. wire' \in [Conns -> Seq(Messages)]
    <3>1. wire' \in [Conns -> {wire'[Me]}]
      BY <1>1, MeType DEF FetchWire, ServerInv, IInv, TypeOK
    <3>2. wire'[Me] \in Seq(Messages)
      BY <1>1, FetchTakes DEF ServerInv
    <3> QED BY <3>1, <3>2
  <2>3. IInv'
    BY <2>1, <2>2 DEF ServerInv, IInv, TypeOK, StatusTracksAcquisition, OwnerIsServing, TaskStarted,
           CountersPositive, VictimKnown, DeadQueueEnds, detectorVars, taskVars, history
  <2>4. ASSUME NEW c \in Conns PROVE Kept(c)
    BY <2>1 DEF Kept, taskVars, history
  <2>5. ASSUME NEW c \in Conns PROVE Account(c)' /\ InCycle(c)'
    BY <2>4, KeptAccount, KeptInCycle DEF ServerInv, Accounts, CyclesInOrder
  <2>6. XInv'
    BY <2>1, TasksExclusive DEF ServerInv, detectorVars, taskVars
  <2> QED BY <2>3, <2>5, <2>6 DEF ServerInv, Accounts, CyclesInOrder
<1>2. CASE [Next]_vars
  BY <1>2, MeType, NextInv, AccountsNext, CyclesNext, NextExclusive DEF ServerInv
<1> QED BY <1>1, <1>2, ProgressIsServed

\* The only acquisition has the detector until its handler has released it, and
\* the simulator writes to the client frame by frame.
LEMMA RunsEffect ==
  ASSUME IInv, Alone, Runs
  PROVE  /\ config' = config /\ params' = params /\ peer' = peer
         /\ pc'[Me] = "new" <=> pc[Me] = "new"
         /\ pc'[Me] # "failing"
         /\ pc'[Me] \in {"serving", "killing"} => acquisition' = Me
         /\ WriteFrames(Me) \/ UNCHANGED <<wire, sent>>
<1> USE MeType DEF IInv, TypeOK, Alone
<1>1. CASE TaskStep(Me)
  BY <1>1 DEF TaskStep, TaskStart, Expose, Rested, NextExposure, detectorVars, netVars, history
<1>2. ASSUME Finally(Me), pc[Me] = "serving"
      PROVE  /\ pc'[Me] \notin {"new", "failing"}
             /\ pc'[Me] \in {"serving", "killing"} => acquisition' = Me
  BY <1>2, ConnsAssumption DEF Finally, Release
<1>3. CASE WriteFrames(Me) \/ LoseFrames(Me)
  <2>1. /\ pc[Me] = "serving" /\ NextFrames(Me, Tail(frames[Me]))
        /\ config' = config /\ params' = params /\ peer' = peer
        /\ WriteFrames(Me) \/ UNCHANGED <<wire, sent>>
    BY <1>3 DEF WriteFrames, LoseFrames, FrameReady, netVars
  <2> QED BY <1>2, <2>1 DEF NextFrames
<1>4. CASE WriteFails(Me) \/ EndOfFrames(Me)
  BY <1>2, <1>4 DEF WriteFails, EndOfFrames, FrameReady, netVars
<1>5. CASE FinallyKilled(Me)
  BY <1>5 DEF FinallyKilled, Release, netVars
<1>6. CASE CloseConn(Me) \/ SendFail(Me)
  BY <1>6 DEF CloseConn, SendFail, detectorVars, taskVars, netVars, history
<1>7. ASSUME NEW s \in Stops, StopAcquisition(s) \/ StopKilled(s)
      PROVE  UNCHANGED <<config, acquisition, params, peer, pc, wire, sent>>
  BY <1>7 DEF StopAcquisition, StopKilled, detectorVars, netVars
<1> QED BY <1>1, <1>3, <1>4, <1>5, <1>6, <1>7 DEF Runs, HandlerStep

\* The timers that the client has read, and that the acquisition is made of.
LEMMA InfoType ==
  ASSUME IInv
  PROVE  /\ Frames \in Nat \ {0} /\ Cycles \in Nat \ {0}
         /\ Prepared.nb_frames = Frames /\ Prepared.nb_cycles = Cycles
<1>1. config.nb_frames \in Nat /\ config.nb_cycles \in Nat
  BY TimersAssumption DEF IInv, TypeOK, Configs
<1>2. \A n \in Nat : OrOne(n) \in Nat \ {0} /\ AtLeastOne(n) = OrOne(n)
  BY DEF OrOne, AtLeastOne
<1> QED BY <1>1, <1>2 DEF Prepared, Frames, Cycles

\* Nobody changes them.
LEMMA InfoStays ==
  ASSUME IInv, Alone, [ProgressNext]_progressVars
  PROVE  config' = config /\ Frames' = Frames /\ Cycles' = Cycles
<1>1. config' = config
  BY ProgressSteps, RunsEffect
     DEF StartArrives, StartAndReadAll, FetchWire, detectorVars, progressVars, vars
<1> QED BY <1>1 DEF Frames, Cycles

-----------------------------------------------------------------------------
(* The program's own state *)

\* The variables of the generator keep their types.
LEMMA TypesNext ==
  ASSUME IInv, GenTypes, [ProgressNext]_progressVars
  PROVE  GenTypes'
<1> USE DEF GenTypes, Gens
<1>1. CASE StartArrives
  BY <1>1 DEF StartArrives
<1>2. CASE UNCHANGED genVars
  BY <1>2 DEF genVars
<1>3. CASE FetchWire
  <2>1. buffer' \in Seq(Messages)
    BY <1>3, FetchTakes
  <2> QED BY <1>3, <2>1 DEF FetchWire, Understood
<1>4. CASE FetchBuffered
  <2>1. Tail(buffer) \in Seq(Messages)
    BY <1>4, HeadTailProperties DEF FetchBuffered
  <2> QED BY <1>4, <2>1 DEF FetchBuffered, Understood
<1>5. CASE StartWritten \/ FetchFinished \/ FetchEof
  BY <1>5 DEF StartWritten, FetchFinished, FetchEof
<1>6. CASE MakeReport
  BY <1>6 DEF MakeReport, ReportBegins, ReportReads, ReportEnds, ReportFails, ReportLost
<1>7. CASE StopReturns \/ ConsumerStops
  BY <1>7 DEF StopReturns, ConsumerStops
<1> QED BY <1>1, <1>2, <1>3, <1>4, <1>5, <1>6, <1>7, ProgressSteps DEF GenOnly, progressVars

\* The acquisition of the program stays the only one.
LEMMA AloneNext ==
  ASSUME IInv, Alone, [ProgressNext]_progressVars
  PROVE  Alone'
<1>1. config' = config /\ Frames' = Frames /\ Cycles' = Cycles
  BY InfoStays
<1>2. CASE StartArrives
  <2>1. /\ gen' = "selecting" /\ pc'[Me] = "serving" /\ acquisition' = Me
        /\ params'[Me] = Prepared /\ peer' = peer
    BY <1>2, MeType DEF StartArrives, StartAndReadAll, IInv, TypeOK, netVars
  <2> QED BY <1>1, <2>1, InfoType DEF Alone
<1>3. CASE Runs /\ UNCHANGED genVars
  BY <1>1, <1>3, RunsEffect DEF Alone, genVars
<1>4. ASSUME UNCHANGED <<peer, pc, acquisition, params>>,
             gen \in {"idle", "asking"} <=> gen' \in {"idle", "asking"},
             calling' # "none" => gen' \in {"selecting", "reporting", "breaking"}
      PROVE  Alone'
  BY <1>1, <1>4 DEF Alone
<1>5. CASE FetchWire
  BY <1>4, <1>5 DEF Alone, FetchWire, Understood, In, detectorVars, taskVars
<1>6. CASE GenOnly /\ UNCHANGED vars
  <2>1. /\ gen \in {"idle", "asking"} <=> gen' \in {"idle", "asking"}
        /\ calling' # "none" => gen' \in {"selecting", "reporting", "breaking"}
    <3> USE DEF Alone, In
    <3>1. CASE StartWritten \/ FetchFinished \/ FetchEof \/ ConsumerStops
      BY <3>1 DEF StartWritten, FetchFinished, FetchEof, ConsumerStops
    <3>2. CASE FetchBuffered
      BY <3>2 DEF FetchBuffered, Understood
    <3>3. CASE MakeReport
      BY <3>3 DEF MakeReport, ReportBegins, ReportReads, ReportEnds, ReportFails, ReportLost
    <3>4. CASE StopReturns
      BY <3>4 DEF StopReturns
    <3> QED BY <1>6, <3>1, <3>2, <3>3, <3>4 DEF GenOnly
  <2> QED BY <1>4, <1>6, <2>1 DEF vars, netVars, detectorVars, taskVars
<1>7. CASE UNCHANGED progressVars
  BY <1>4, <1>7 DEF Alone, progressVars, vars, genVars, netVars, detectorVars, taskVars
<1> QED BY <1>2, <1>3, <1>5, <1>6, <1>7, ProgressSteps

-----------------------------------------------------------------------------
(* What the client reads *)

\* The first number up to f that f divides is f.
LEMMA EndOfCycle ==
  ASSUME NEW f \in Nat \ {0}, NEW n \in 1..f
  PROVE  n % f = 0 <=> n = f
OBVIOUS

\* A message that is understood is the next frame of the cycle, and the last one
\* says so.
LEMMA UnderstoodNext ==
  ASSUME NEW m, m # "FAIL", Understood(m), received \in Nat, Frames \in Nat \ {0},
         m = "last" <=> (received + 1) % Frames = 0, received < Frames
  PROVE  /\ received' = received + 1 /\ gen' = gen
         /\ finished' = "no" => received' < Frames
         /\ finished' # "no" => received' = Frames
<1>1. received + 1 \in 1..Frames
  OBVIOUS
<1>2. m = "last" <=> received + 1 = Frames
  BY <1>1, EndOfCycle
<1> QED BY <1>1, <1>2 DEF Understood

\* Sums of what was received, what the reader holds, and what is on the wire.
LEMMA SumWritten == \A r, b, w \in Nat : r + b + (w + 1) = (r + b + w) + 1
OBVIOUS

\* The same when the reader takes all of what it holds from the wire.
LEMMA SumFetched == \A r, w, n \in Nat : (r + 1) + n + (w - 1 - n) = r + 0 + w
OBVIOUS

\* What was received, what the reader holds and what is on the wire stay the
\* frames of the cycle in their order, and the loop runs to the last of them.
LEMMA BufferedNext ==
  ASSUME ServerInv, GenTypes, Alone, Buffered, Iterating, [ProgressNext]_progressVars
  PROVE  Buffered' /\ Iterating'
<1>1. /\ Frames' = Frames /\ Frames \in Nat \ {0} /\ received \in Nat /\ IInv
      /\ buffer \in Seq(Messages) /\ Len(buffer) \in Nat
      /\ wire[Me] \in Seq(Messages) /\ Len(wire[Me]) \in Nat /\ sent[Me] \in Nat
  BY InfoType, InfoStays, MeType, LenProperties DEF ServerInv, GenTypes, IInv, TypeOK
<1>t. /\ received + Len(buffer) + Len(wire[Me]) = sent[Me]
      /\ received \in Nat /\ Len(buffer) \in Nat /\ Len(wire[Me]) \in Nat /\ sent[Me] \in Nat
  BY <1>1 DEF Buffered
<1>2. CASE StartArrives
  <2>1. /\ UNCHANGED <<wire, sent, buffer, finished, received, stopped>>
        /\ gen = "asking" /\ gen' = "selecting"
    BY <1>2 DEF StartArrives, StartAndReadAll, netVars, history
  <2> QED BY <1>1, <2>1 DEF Buffered, InTurn, Iterating, Over
<1>3. CASE WriteFrames(Me) /\ UNCHANGED genVars
  <2>1. /\ wire'[Me] = Append(wire[Me], Head(frames[Me])) /\ sent'[Me] = sent[Me] + 1
        /\ Head(frames[Me]) \in Messages /\ Head(frames[Me]) # "FAIL"
    BY <1>1, <1>3, MeType, TakeEntry DEF WriteFrames, FrameReady, IInv, TypeOK, Items, Messages
  <2>2. Head(frames[Me]) = "last" <=> sent'[Me] % Frames = 0
    <3>1. pc[Me] # "new"
      BY <1>3 DEF WriteFrames, FrameReady
    <3> QED BY <1>3, <3>1, MeType, WriteInCycle DEF ServerInv, Accounts, CyclesInOrder, Alone
  <2>3. /\ Len(wire'[Me]) = Len(wire[Me]) + 1 /\ wire'[Me][Len(wire[Me]) + 1] = Head(frames[Me])
        /\ \A i \in 1..Len(wire[Me]) : wire'[Me][i] = wire[Me][i]
    BY <1>1, <2>1, AppendProperties
  <2>4. received' + Len(buffer') + Len(wire'[Me]) = sent'[Me]
    <3>1. received' = received /\ Len(buffer') = Len(buffer)
      BY <1>3 DEF genVars
    <3>2. Len(wire'[Me]) = Len(wire[Me]) + 1 /\ sent'[Me] = sent[Me] + 1
      BY <2>1, <2>3
    <3>3. received + Len(buffer) + (Len(wire[Me]) + 1) = (received + Len(buffer) + Len(wire[Me])) + 1
      BY <1>t, SumWritten
    <3> QED BY <1>t, <3>1, <3>2, <3>3
  <2>5. InTurn(wire[Me], received + Len(buffer))'
    <3> SUFFICES ASSUME NEW i \in 1..Len(wire'[Me])
                 PROVE  /\ wire'[Me][i] # "FAIL"
                        /\ wire'[Me][i] = "last" <=> (received + Len(buffer) + i) % Frames = 0
      BY <1>1, <1>3 DEF InTurn, genVars
    <3>1. CASE i \in 1..Len(wire[Me])
      BY <2>3, <3>1 DEF Buffered, InTurn
    <3>2. CASE i = Len(wire[Me]) + 1
      <4>1. received + Len(buffer) + i = sent'[Me]
        <5>1. sent'[Me] = sent[Me] + 1
          BY <2>1
        <5>2. received + Len(buffer) + (Len(wire[Me]) + 1) = (received + Len(buffer) + Len(wire[Me])) + 1
          BY <1>t, SumWritten
        <5> QED BY <1>t, <3>2, <5>1, <5>2
      <4> QED BY <2>1, <2>2, <2>3, <3>2, <4>1
    <3> QED BY <1>1, <2>3, <3>1, <3>2
  <2> QED BY <1>1, <1>3, <2>4, <2>5 DEF Buffered, InTurn, Iterating, Over, genVars
<1>4. CASE UNCHANGED <<wire, sent>> /\ UNCHANGED genVars
  BY <1>1, <1>4 DEF Buffered, InTurn, Iterating, Over, genVars
<1>5. CASE FetchBuffered
  <2>1. /\ gen = "selecting" /\ finished = "no" /\ buffer # <<>> /\ Understood(Head(buffer))
        /\ buffer' = Tail(buffer) /\ UNCHANGED <<wire, sent, stopped>>
    BY <1>5 DEF FetchBuffered, In, vars, netVars, history
  <2>2. /\ Len(buffer) >= 1 /\ Head(buffer) = buffer[1] /\ Len(buffer') = Len(buffer) - 1
        /\ \A i \in 1..Len(buffer') : buffer'[i] = buffer[i + 1]
    BY <1>1, <2>1, HeadTailProperties, EmptySeq
  <2>3. received < Frames
    BY <2>1 DEF Iterating, Over
  <2>4. /\ received' = received + 1 /\ gen' = gen
        /\ finished' = "no" => received' < Frames
        /\ finished' # "no" => received' = Frames
    BY <1>1, <2>1, <2>2, <2>3, UnderstoodNext DEF Buffered, InTurn
  <2>5. InTurn(buffer, received)'
    <3> SUFFICES ASSUME NEW i \in 1..Len(buffer')
                 PROVE  /\ buffer'[i] # "FAIL"
                        /\ buffer'[i] = "last" <=> (received + 1 + i) % Frames = 0
      BY <1>1, <2>4 DEF InTurn
    <3>1. /\ i + 1 \in 1..Len(buffer) /\ buffer'[i] = buffer[i + 1]
          /\ received + (i + 1) = received + 1 + i
      BY <1>1, <2>2
    <3> QED BY <3>1 DEF Buffered, InTurn
  <2>6. received' + Len(buffer') = received + Len(buffer)
    BY <1>1, <2>2, <2>4
  <2>7. InTurn(wire[Me], received + Len(buffer))'
    BY <1>1, <2>1, <2>6 DEF Buffered, InTurn
  <2>8. received' + Len(buffer') + Len(wire'[Me]) = sent'[Me]
    BY <1>1, <1>t, <2>1, <2>6
  <2>9. Buffered'
    BY <2>5, <2>7, <2>8 DEF Buffered
  <2>10. Iterating'
    BY <1>1, <2>1, <2>4 DEF Iterating, Over
  <2> QED BY <2>9, <2>10
<1>6. CASE FetchWire
  <2>1. /\ gen = "selecting" /\ finished = "no" /\ buffer = <<>> /\ Understood(Head(wire[Me]))
        /\ UNCHANGED <<sent, stopped>>
    BY <1>6 DEF FetchWire, In, history
  <2>2. PICK n \in 0..(Len(wire[Me]) - 1) :
          /\ Len(buffer') = n /\ Len(wire'[Me]) = Len(wire[Me]) - 1 - n
          /\ \A i \in 1..n : buffer'[i] = wire[Me][i + 1]
          /\ \A i \in 1..Len(wire'[Me]) : wire'[Me][i] = wire[Me][i + n + 1]
    BY <1>1, <1>6, FetchTakes
  <2>3. Len(wire[Me]) >= 1 /\ Head(wire[Me]) = wire[Me][1] /\ Len(buffer) = 0
    BY <1>1, <1>6, <2>1, FetchTakes
  <2>4. received < Frames
    BY <2>1 DEF Iterating, Over
  <2>5. \A i \in 1..Len(wire[Me]) :
          /\ wire[Me][i] # "FAIL"
          /\ wire[Me][i] = "last" <=> (received + i) % Frames = 0
    BY <1>1, <2>3 DEF Buffered, InTurn
  <2>6. /\ received' = received + 1 /\ gen' = gen
        /\ finished' = "no" => received' < Frames
        /\ finished' # "no" => received' = Frames
    BY <1>1, <2>1, <2>3, <2>4, <2>5, UnderstoodNext
  <2>7. InTurn(buffer, received)'
    <3> SUFFICES ASSUME NEW i \in 1..Len(buffer')
                 PROVE  /\ buffer'[i] # "FAIL"
                        /\ buffer'[i] = "last" <=> (received + 1 + i) % Frames = 0
      BY <1>1, <2>6 DEF InTurn
    <3>1. i \in 1..n /\ i \in Int /\ n <= Len(wire[Me]) - 1
      BY <1>t, <2>2
    <3>2. /\ i + 1 \in 1..Len(wire[Me]) /\ buffer'[i] = wire[Me][i + 1]
          /\ received + (i + 1) = received + 1 + i
      BY <1>t, <2>2, <3>1
    <3> QED BY <2>5, <3>2
  <2>8. InTurn(wire[Me], received + Len(buffer))'
    <3> SUFFICES ASSUME NEW i \in 1..Len(wire'[Me])
                 PROVE  /\ wire'[Me][i] # "FAIL"
                        /\ wire'[Me][i] = "last" <=> (received + 1 + n + i) % Frames = 0
      BY <1>1, <2>2, <2>6 DEF InTurn
    <3>1. i \in Int /\ i >= 1 /\ i <= Len(wire[Me]) - 1 - n /\ n \in Nat
      BY <1>t, <2>2
    <3>2. i + n + 1 \in 1..Len(wire[Me])
      BY <1>t, <3>1
    <3>3. wire'[Me][i] = wire[Me][i + n + 1]
      BY <2>2
    <3>4. received + (i + n + 1) = received + 1 + n + i
      BY <1>t, <3>1
    <3> QED BY <2>5, <3>2, <3>3, <3>4
  <2>9. received' + Len(buffer') + Len(wire'[Me]) = sent'[Me]
    <3>1. received' = received + 1 /\ Len(buffer') = n /\ Len(buffer) = 0 /\ sent'[Me] = sent[Me]
      BY <2>1, <2>2, <2>3, <2>6
    <3>2. Len(wire'[Me]) = Len(wire[Me]) - 1 - n /\ n \in Nat
      BY <1>t, <2>2
    <3>3. (received + 1) + n + (Len(wire[Me]) - 1 - n) = sent[Me]
      BY <1>t, <3>1, <3>2, SumFetched
    <3> QED BY <3>1, <3>2, <3>3
  <2>10. Buffered'
    BY <2>7, <2>8, <2>9 DEF Buffered
  <2>11. Iterating'
    BY <1>1, <2>1, <2>6 DEF Iterating, Over
  <2> QED BY <2>10, <2>11
<1>7. CASE GenOnly /\ ~FetchBuffered /\ UNCHANGED vars
  <2>1. UNCHANGED <<wire, sent, buffer, received, finished>>
    BY <1>7 DEF GenOnly, StartWritten, FetchFinished, FetchEof, MakeReport, ReportBegins, ReportReads,
           ReportEnds, ReportFails, ReportLost, StopReturns, ConsumerStops, vars, netVars, history
  <2>2. Buffered'
    BY <1>1, <2>1 DEF Buffered, InTurn
  <2>3. Iterating'
    <3> USE <1>1, <2>1 DEF Iterating, Over, In
    <3>1. CASE StartWritten
      BY <3>1 DEF StartWritten
    <3>2. CASE FetchFinished \/ FetchEof \/ ConsumerStops
      BY <3>2 DEF FetchFinished, FetchEof, ConsumerStops
    <3>3. CASE MakeReport
      BY <3>3 DEF MakeReport, ReportBegins, ReportReads, ReportEnds, ReportFails, ReportLost
    <3>4. CASE StopReturns
      BY <3>4 DEF StopReturns
    <3> QED BY <1>7, <3>1, <3>2, <3>3, <3>4 DEF GenOnly
  <2> QED BY <2>2, <2>3
<1>8. Runs /\ UNCHANGED genVars => WriteFrames(Me) \/ UNCHANGED <<wire, sent>>
  BY <1>1, RunsEffect
<1> QED BY <1>2, <1>3, <1>4, <1>5, <1>6, <1>7, <1>8, ProgressSteps DEF progressVars, vars, netVars, history

-----------------------------------------------------------------------------
(* What a report says *)

\* The detector never forgets a frame while the client is there.
LEMMA AdvancedStays ==
  ASSUME ServerInv, Alone, Advanced(Me), [ProgressNext]_progressVars
  PROVE  Advanced(Me)' /\ Produced(Me)' >= Produced(Me)
<1>1. IInv /\ Me \in Conns /\ Account(Me)
  BY MeType DEF ServerInv, Accounts
<1>2. peer'[Me] = "open"
  BY <1>1, AloneNext DEF Alone
<1>3. CASE FetchWire
  <2>1. Kept(Me)
    BY <1>3 DEF FetchWire, Kept, taskVars, history
  <2>2. Produced(Me) \in Int
    BY <1>1, Numbers
  <2> QED BY <1>1, <2>1, <2>2, KeptAdvanced
<1>4. CASE ~FetchWire
  BY <1>1, <1>2, <1>4, ProgressIsServed, AdvancedNext
<1> QED BY <1>3, <1>4

\* No number of frames is negative.
LEMMA ProducedNat ==
  ASSUME IInv
  PROVE  Produced(Me) \in Nat
<1>1. /\ sent[Me] \in Nat /\ frames[Me] \in Seq(Items) /\ Len(frames[Me]) \in Nat
      /\ frames[Me] # <<>> => Len(frames[Me]) >= 1
  BY MeType, Numbers, EmptySeq
<1>2. Queued(Me) \in Nat
  BY <1>1 DEF Queued
<1> QED BY <1>1, <1>2 DEF Produced

\* The counter of cycles that is answered is not behind the frames, whether the
\* acquisition runs or is over.
LEMMA TimeLeftBounds ==
  ASSUME IInv, Alone, Advanced(Me), pc[Me] # "new"
  PROVE  /\ TimeLeft(1) \in Nat /\ TimeLeft(2) \in Nat
         /\ Produced(Me) + Frames >= (Cycles - TimeLeft(1)) * Frames
<1>1. Cycles \in Nat /\ Frames \in Nat /\ Produced(Me) \in Nat
  BY InfoType, ProducedNat
<1>2. CASE run_status = "IDLE"
  <2>1. TimeLeft(1) = config.nb_cycles /\ TimeLeft(2) = config.nb_frames
    BY <1>2 DEF TimeLeft
  <2>2. TimeLeft(1) \in Nat /\ TimeLeft(2) \in Nat
    BY <2>1, TimersAssumption DEF IInv, TypeOK, Configs
  <2>3. Cycles - TimeLeft(1) \in {0, 1}
    BY <2>1, <2>2 DEF Cycles, OrOne
  <2>4. 0 * Frames = 0 /\ 1 * Frames = Frames
    BY <1>1
  <2>5. (Cycles - TimeLeft(1)) * Frames \in {0, Frames}
    BY <2>3, <2>4
  <2> QED BY <1>1, <2>2, <2>5
<1>3. CASE run_status # "IDLE"
  <2>1. acquisition = Me
    BY <1>3, MeType DEF IInv, TypeOK, StatusTracksAcquisition
  <2>2. TimeLeft(1) = nb_cycles_left[Me] /\ TimeLeft(2) = nb_frames_left[Me]
    BY <1>3, <2>1 DEF TimeLeft
  <2>3. Produced(Me) >= Before(Me)
    BY MeType, CyclesProduced
  <2>4. Before(Me) = (Cycles - nb_cycles_left[Me]) * Frames
    BY DEF Before, Alone
  <2>5. Produced(Me) + Frames >= Produced(Me) /\ Before(Me) \in Int
    BY <1>1, MeType, Numbers
  <2> QED BY <1>1, <2>2, <2>3, <2>4, <2>5, MeType, Numbers
<1> QED BY <1>2, <1>3

\* What the report adds to the counters keeps it behind.
LEMMA ReportBound ==
  ASSUME NEW c \in Int, NEW k \in Nat, NEW n \in Nat, NEW f \in Nat, NEW p \in Int,
         p + f >= (c - k) * f
  PROVE  /\ (c - (k + 2)) * f + f - (n + 2) \in Int
         /\ (c - (k + 2)) * f + f - (n + 2) <= p
<1>1. (c - (k + 2)) * f = (c - k) * f - f - f
  OBVIOUS
<1>2. (c - k) * f \in Int
  OBVIOUS
<1> QED BY <1>1, <1>2

\* The counters of a report, and the report, stay behind the frames.
LEMMA CountedNext ==
  ASSUME ServerInv, Alone, Advanced(Me), Iterating, Counted, [ProgressNext]_progressVars
  PROVE  Counted'
<1>1. /\ IInv /\ Cycles' = Cycles /\ Frames' = Frames /\ Cycles \in Nat /\ Frames \in Nat
      /\ Produced(Me) \in Int /\ Produced(Me)' \in Int /\ Produced(Me)' >= Produced(Me)
  <2>1. IInv /\ IInv'
    BY ServerNext DEF ServerInv
  <2>2. sent'[Me] \in Nat /\ frames'[Me] \in Seq(Items) /\ Len(frames'[Me]) \in Nat
    BY <2>1, MeType, LenProperties DEF IInv, TypeOK
  <2>3. Queued(Me)' \in Int
    BY <2>2 DEF Queued
  <2>4. Produced(Me)' \in Int
    BY <2>2, <2>3 DEF Produced
  <2> QED BY <2>1, <2>4, InfoType, InfoStays, AdvancedStays, ProducedNat
<1>2. counters \in Seq(Nat) /\ Len(counters) \in Nat
  BY LenProperties DEF Counted
<1>3. counters # <<>> => counters[1] \in Nat
  BY <1>2, EmptySeq, ElementOfSeq
<1>4. counters # <<>> => (Cycles - counters[1]) * Frames \in Int
  <2>1. ASSUME NEW k \in Nat PROVE (Cycles - k) * Frames \in Int
    BY <1>1
  <2> QED BY <1>3, <2>1
<1>5. counters # <<>> => Produced(Me)' + Frames >= (Cycles - counters[1]) * Frames
  BY <1>1, <1>4 DEF Counted
<1>6. report # None => report.total \in Int /\ report.total <= Produced(Me)'
  BY <1>1 DEF Counted
<1>7. CASE UNCHANGED <<counters, report>>
  BY <1>1, <1>2, <1>5, <1>6, <1>7 DEF Counted
<1>8. CASE ReportBegins
  <2>1. gen \in {"selecting", "breaking"}
    BY <1>8 DEF ReportBegins, In
  <2>2. pc[Me] # "new"
    BY <2>1 DEF Alone
  <2>3. TimeLeft(1) \in Nat /\ Produced(Me) + Frames >= (Cycles - TimeLeft(1)) * Frames
    BY <1>1, <2>2, TimeLeftBounds
  <2>4. counters' = <<TimeLeft(1)>> /\ UNCHANGED <<vars, report>>
    BY <1>8 DEF ReportBegins
  <2>5. Produced(Me)' = Produced(Me)
    BY <2>4 DEF Produced, Queued, vars, taskVars, netVars, history
  <2>6. counters' \in Seq(Nat) /\ counters'[1] = TimeLeft(1)
    BY <2>3, <2>4
  <2> QED BY <1>1, <1>6, <2>3, <2>4, <2>5, <2>6 DEF Counted
<1>9. CASE ReportReads
  <2>1. gen \in {"reporting", "breaking"} /\ Len(counters) = 1
    BY <1>9 DEF ReportReads, In
  <2>2. TimeLeft(2) \in Nat
    BY <1>1, <2>1, TimeLeftBounds DEF Alone
  <2>3. counters' = Append(counters, TimeLeft(2)) /\ UNCHANGED report
    BY <1>9 DEF ReportReads
  <2>4. counters' \in Seq(Nat) /\ counters'[1] = counters[1] /\ counters # <<>>
    BY <1>2, <2>1, <2>2, <2>3, AppendProperties, EmptySeq
  <2> QED BY <1>1, <1>5, <1>6, <2>3, <2>4 DEF Counted
<1>10. CASE ReportEnds
  <2>1. /\ Len(counters) = 2 /\ counters' = <<>> /\ UNCHANGED vars
        /\ report' = Report(counters[1], counters[2])
    BY <1>10 DEF ReportEnds
  <2>2. counters[1] \in Nat /\ counters[2] \in Nat /\ counters # <<>>
    BY <1>2, <2>1, EmptySeq, ElementOfSeq
  <2>3. report'.total = (Cycles - (counters[1] + 2)) * Frames + Frames - (counters[2] + 2)
    BY <2>1 DEF Report, Ahead
  <2>4. report'.total \in Int /\ report'.total <= Produced(Me)'
    <3>1. ASSUME NEW k \in Nat, NEW n \in Nat, NEW p \in Int, p + Frames >= (Cycles - k) * Frames
          PROVE  /\ (Cycles - (k + 2)) * Frames + Frames - (n + 2) \in Int
                 /\ (Cycles - (k + 2)) * Frames + Frames - (n + 2) <= p
      BY <1>1, <3>1, ReportBound
    <3>2. Produced(Me)' + Frames >= (Cycles - counters[1]) * Frames
      BY <1>5, <2>2
    <3> QED BY <1>1, <2>2, <2>3, <3>1, <3>2
  <2> QED BY <2>1, <2>4 DEF Counted
<1>11. CASE ReportFails \/ ReportLost
  <2>1. counters' = <<>> /\ report' = report
    BY <1>11 DEF ReportFails, ReportLost
  <2> QED BY <1>6, <2>1 DEF Counted
<1>12. GenOnly => UNCHANGED <<counters, report>> \/ MakeReport
  BY DEF GenOnly, StartWritten, FetchBuffered, FetchFinished, FetchEof, StopReturns, ConsumerStops
<1> QED BY <1>7, <1>8, <1>9, <1>10, <1>11, <1>12, ProgressSteps
        DEF MakeReport, StartArrives, FetchWire, progressVars, genVars

-----------------------------------------------------------------------------
(* What a stop leaves behind *)

\* An acquisition without a greenlet gets none, and one whose handler has let go
\* of the detector has none.
LEMMA QuietStays ==
  ASSUME ServerInv, Alone, [ProgressNext]_progressVars
  PROVE  /\ (Quiet /\ pc[Me] # "new") => Quiet'
         /\ (task[Me] # "spawned" /\ pc[Me] # "new") => task'[Me] # "spawned"
         /\ pc[Me] \in {"closing", "done"} => Quiet
         /\ pc[Me] # "new" => pc'[Me] # "new"
<1>1. pc[Me] \in {"closing", "done"} => Quiet
  BY MeType DEF ServerInv, XInv, LeavesNothing, Quiet, Alive
<1>2. pc[Me] # "new" => pc'[Me] # "new"
  BY ProgressSteps, RunsEffect
     DEF ServerInv, StartArrives, StartAndReadAll, FetchWire, progressVars, vars
<1>3. \/ pc[Me] = "new"
      \/ task'[Me] = task[Me]
      \/ task[Me] \in {"spawned", "exposing", "resting"} /\ task'[Me] # "spawned"
  <2>1. CASE StartArrives \/ FetchWire \/ UNCHANGED vars
    BY <2>1 DEF StartArrives, StartAndReadAll, FetchWire, taskVars, vars
  <2>2. CASE TaskStep(Me)
    BY <2>2, MeType
       DEF TaskStep, TaskStart, Expose, Rested, NextExposure, ServerInv, IInv, TypeOK
  <2>3. CASE WriteFrames(Me) \/ LoseFrames(Me) \/ WriteFails(Me) \/ EndOfFrames(Me)
    <3>1. task' = task \/ (acquisition # None /\ KillReturns(acquisition))
      BY <2>3 DEF WriteFrames, LoseFrames, WriteFails, EndOfFrames, NextFrames, Finally
    <3> QED BY <3>1, MeType DEF KillReturns, ServerInv, IInv, TypeOK
  <2>4. ASSUME Next, ~StartAndReadAll(Me), ~TaskStep(Me),
               ~(WriteFrames(Me) \/ LoseFrames(Me) \/ WriteFails(Me) \/ EndOfFrames(Me))
        PROVE  Kept(Me)
    BY <2>4, MeType, StepKeeps DEF ServerInv, Accounts
  <2>5. Kept(Me)
          => \/ task'[Me] = task[Me]
             \/ task[Me] \in {"spawned", "exposing", "resting"} /\ task'[Me] # "spawned"
    BY DEF Kept, Alive
  <2> QED BY <2>1, <2>2, <2>3, <2>4, <2>5, ProgressIsServed DEF StartAndReadAll
<1> QED BY <1>1, <1>2, <1>3 DEF Quiet, Alive

\* A stop that was answered has ended the greenlet, so an error that follows one
\* leaves none behind.
LEMMA SilencedNext ==
  ASSUME ServerInv, GenTypes, Alone, Silenced, [ProgressNext]_progressVars
  PROVE  Silenced'
<1>0. TypeOK /\ Me \in Conns /\ pc[Me] \in PcStates
  BY MeType DEF ServerInv, IInv, TypeOK
<1>1. ASSUME NEW s \in Stops, spc[s] # "new" PROVE pc'[Me] # "new"
  BY <1>1, QuietStays DEF Silenced
<1>2. ASSUME NEW s \in Stops, spc[s] = "done" PROVE Quiet'
  BY <1>2, QuietStays DEF Silenced
<1>3. ASSUME NEW s \in Stops, spc[s] = "killing" PROVE task'[Me] # "spawned"
  BY <1>3, QuietStays DEF Silenced
<1>4. ASSUME gen = "error", stopped PROVE Quiet'
  BY <1>4, QuietStays DEF Silenced, Alone
<1>5. CASE StopArrives
  <2>1. PICK s \in Stops : StopAcquisition(s)
    BY <1>5, ProgressAssumption DEF StopArrives, StopCall
  <2>2. pc[Me] # "new" /\ pc' = pc /\ UNCHANGED genVars
    BY <1>5 DEF StopArrives, StopAcquisition, Alone, detectorVars
  <2>3. \A r \in Stops \ {s} : spc'[r] = spc[r]
    BY <1>0, <2>1 DEF StopAcquisition, TypeOK
  <2>4. \/ spc'[s] = "killing" /\ acquisition # None /\ KillBlocks(s, acquisition) /\ task' = task
        \/ spc'[s] = "done" /\ acquisition # None /\ KillReturns(acquisition)
        \/ spc'[s] = "done" /\ acquisition = None /\ task' = task
    BY <1>0, <2>1 DEF StopAcquisition, TypeOK
  <2>5. acquisition # None => acquisition = Me
    BY <1>0, MeType DEF TypeOK
  <2>6. CASE spc'[s] = "killing" /\ acquisition # None /\ KillBlocks(s, acquisition) /\ task' = task
    <3>1. task'[Me] # "spawned"
      BY <2>5, <2>6 DEF KillBlocks, Alive
    <3> QED BY <1>1, <1>2, <1>3, <1>4, <2>2, <2>3, <2>6, <3>1 DEF Silenced, genVars
  <2>7. CASE spc'[s] = "done" /\ acquisition # None /\ KillReturns(acquisition)
    <3>1. Quiet'
      BY <1>0, <2>5, <2>7 DEF KillReturns, TypeOK, Quiet, Alive
    <3> QED BY <1>1, <1>2, <1>3, <1>4, <2>2, <2>3, <2>7, <3>1 DEF Silenced, genVars
  <2>8. CASE spc'[s] = "done" /\ acquisition = None /\ task' = task
    <3>1. pc[Me] \in {"closing", "done"}
      BY <1>0, <2>2, <2>8, ConnsAssumption DEF Alone, PcStates
    <3>2. Quiet'
      BY <2>2, <3>1, QuietStays
    <3> QED BY <1>1, <1>2, <1>3, <1>4, <2>2, <2>3, <2>8, <3>2 DEF Silenced, genVars
  <2> QED BY <2>4, <2>6, <2>7, <2>8
<1>6. ASSUME NEW s \in Stops, StopKilled(s), UNCHANGED genVars PROVE Silenced'
  <2>1. /\ spc[s] = "killing" /\ KillLands(s) /\ victim[s] = Me /\ task[Me] # "spawned"
        /\ \A r \in Stops \ {s} : spc'[r] = spc[r]
    BY <1>0, <1>6, MeType, SMTT(30) DEF StopKilled, ServerInv, IInv, VictimKnown, Silenced, TypeOK
  <2>2. Quiet'
    BY <1>0, <2>1 DEF KillLands, TypeOK, Quiet, Alive
  <2>3. spc'[s] = "done"
    BY <1>0, <1>6 DEF StopKilled, TypeOK
  <2>4. pc'[Me] # "new"
    BY <1>1, <2>1
  <2> QED BY <1>1, <1>2, <1>3, <1>4, <1>6, <2>1, <2>2, <2>3, <2>4 DEF Silenced, genVars
<1>7. ASSUME UNCHANGED spc, gen' = "error" /\ stopped' => (gen = "error" /\ stopped) \/ Quiet'
      PROVE  Silenced'
  BY <1>1, <1>2, <1>3, <1>4, <1>7 DEF Silenced
<1>8. CASE TaskStep(Me) /\ UNCHANGED genVars
  BY <1>7, <1>8 DEF TaskStep, TaskStart, Expose, Rested, genVars
<1>9. CASE HandlerStep(Me) /\ UNCHANGED genVars
  BY <1>7, <1>9 DEF HandlerStep, WriteFrames, LoseFrames, WriteFails, EndOfFrames, FinallyKilled,
                    CloseConn, SendFail, genVars
<1>10. CASE StartArrives \/ FetchWire \/ FetchBuffered
  BY <1>7, <1>10 DEF StartArrives, StartAndReadAll, FetchWire, FetchBuffered, Understood, vars
<1>11. CASE GenOnly /\ ~FetchBuffered /\ UNCHANGED vars
  <2>1. UNCHANGED spc
    BY <1>11 DEF vars
  <2>2. CASE StopReturns
    <3>1. Quiet
      BY <2>2, ProgressAssumption DEF StopReturns, StopCall, Silenced
    <3> QED BY <1>7, <1>11, <2>1, <3>1 DEF Quiet, Alive, vars, taskVars
  <2>3. gen' = "error" /\ stopped' => (gen = "error" /\ stopped) \/ StopReturns
    BY <1>11 DEF GenOnly, StartWritten, FetchFinished, FetchEof, MakeReport, ReportBegins, ReportReads,
                 ReportEnds, ReportFails, ReportLost, ConsumerStops, In
  <2> QED BY <1>7, <2>1, <2>2, <2>3
<1>12. CASE UNCHANGED progressVars
  BY <1>7, <1>12 DEF progressVars, vars, genVars
<1> QED BY <1>5, <1>6, <1>8, <1>9, <1>10, <1>11, <1>12
        DEF ProgressNext, Generator, Fetch, GenOnly, MakeReport, ProgramEnds, Server,
            StartWritten, FetchFinished, FetchEof, ReportBegins, ReportReads, ReportEnds,
            ReportFails, ReportLost, StopReturns, ConsumerStops

-----------------------------------------------------------------------------
(* The theorems *)

\* Before the program starts its acquisition nothing has been produced or read.
LEMMA ProgressInvInit == ProgressInit => ProgressInv
<1> SUFFICES ASSUME ProgressInit PROVE ProgressInv
  OBVIOUS
<1>1. /\ gen = "idle" /\ calling = "none" /\ buffer = <<>> /\ finished = "no"
      /\ counters = <<>> /\ report = None /\ received = 0 /\ stopped = FALSE /\ Init
  BY DEF ProgressInit
<1>2. /\ task[Me] = "none" /\ sent[Me] = 0 /\ frames[Me] = <<>> /\ wire[Me] = <<>>
      /\ pc[Me] = "new" /\ peer[Me] = "open"
  BY <1>1, MeType DEF Init
<1>3. ServerInv
  BY <1>1, InitInv, AccountsInit, CyclesInit, InitExclusive DEF ServerInv
<1>4. Frames \in Nat \ {0}
  BY <1>3, InfoType DEF ServerInv
<1>5. Len(buffer) = 0 /\ Len(wire[Me]) = 0 /\ Len(frames[Me]) = 0
  BY <1>1, <1>2
<1>6. Produced(Me) = 0
  BY <1>2, <1>5 DEF Produced, Queued
<1>7. Advanced(Me)
  BY <1>2, <1>6 DEF Advanced, Alive
<1>8. GenTypes
  <2>1. <<>> \in Seq(Messages)
    OBVIOUS
  <2> QED BY <1>1, <2>1 DEF GenTypes, Gens
<1>9. Alone
  BY <1>1, <1>2 DEF Alone
<1>10. Buffered
  BY <1>1, <1>2, <1>5 DEF Buffered, InTurn
<1>11. Iterating
  BY <1>1, <1>4 DEF Iterating, Over
<1>12. Counted
  BY <1>1 DEF Counted
<1>13. Silenced
  BY <1>1 DEF Init, Silenced
<1> QED BY <1>3, <1>7, <1>8, <1>9, <1>10, <1>11, <1>12, <1>13 DEF ProgressInv

\* Every step of the session keeps the invariant.
LEMMA ProgressInvNext == ProgressInv /\ [ProgressNext]_progressVars => ProgressInv'
<1> SUFFICES ASSUME ProgressInv, [ProgressNext]_progressVars PROVE ProgressInv'
  OBVIOUS
<1> USE DEF ProgressInv
<1>1. ServerInv' /\ IInv
  BY ServerNext DEF ServerInv
<1>2. Advanced(Me)'
  BY AdvancedStays
<1>3. GenTypes' /\ Alone'
  BY <1>1, TypesNext, AloneNext
<1>4. Buffered' /\ Iterating'
  BY BufferedNext
<1>5. Counted'
  BY CountedNext
<1>6. Silenced'
  BY SilencedNext
<1> QED BY <1>1, <1>2, <1>3, <1>4, <1>5, <1>6

\* The inductive invariant of a session with progress reports.
LEMMA ProgressInvHolds == ProgressSpec => []ProgressInv
BY ProgressInvInit, ProgressInvNext, PTL DEF ProgressSpec

\* However many frames, cycles and stops, and wherever its two counters were
\* read, a report of progress_report claims no frame that the detector has not
\* produced.
THEOREM ReportCorrect == ProgressSpec => []ReportNeverAhead
<1>1. ProgressInv => ReportNeverAhead
  BY DEF ProgressInv, Counted, Produced, ReportNeverAhead
<1> QED BY <1>1, ProgressInvHolds, PTL

\* A generator that returns, and whose consumer did not stop it, gave every frame
\* of the cycle, although select does not see what its reader holds.
THEOREM ReturnedWholeCorrect == ProgressSpec => []ReturnedWholeCycle
<1>1. ProgressInv => ReturnedWholeCycle
  BY DEF ProgressInv, Iterating, ReturnedWholeCycle
<1> QED BY <1>1, ProgressInvHolds, PTL

\* An error that leaves the generator after a stop, its own or its consumer's,
\* leaves no greenlet of its acquisition behind.
THEOREM RaisedCorrect == ProgressSpec => []RaisedStopped
<1>1. ProgressInv => RaisedStopped
  BY DEF ProgressInv, Silenced, Quiet, RaisedStopped
<1> QED BY <1>1, ProgressInvHolds, PTL
=============================================================================
