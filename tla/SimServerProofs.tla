--------------------------- MODULE SimServerProofs ---------------------------
(***************************************************************************)
(* Proofs about SimServer, for every set of connections and stops, every   *)
(* value of the timers and every socket size: first the invariant IInv,    *)
(* then the conservation of frames, also when STARTs overlap.  Each        *)
(* connection keeps its own account: what the acquisitions of others do to *)
(* it is nothing, or a kill, after which it is cut.  And FINISHED is where *)
(* an account says the end of a cycle is.                                  *)
(*                                                                         *)
(* The last part is about the simulator when no START arrives while        *)
(* another acquisition is served (Overlap is FALSE), as with one client    *)
(* program that waits for the end of each connection: the detector is then *)
(* really idle when it says so, no acquisition ends with a FAIL reply, and *)
(* the simulator implements the promise of DetectorService.                *)
(***************************************************************************)
EXTENDS SimServer, TLAPS, SequenceTheorems

\* A greenlet exists for an acquisition exactly once its START was handled.
TaskStarted == \A c \in Conns : task[c] = "none" <=> pc[c] = "new"

\* A running greenlet has frames and cycles to go, so its counters never pass 0.
CountersPositive ==
  \A c \in Conns :
    /\ task[c] \in {"spawned", "exposing", "resting"} => nb_cycles_left[c] >= 1
    /\ task[c] = "exposing" => nb_frames_left[c] >= 1

\* A handler blocked in kill() is killing some acquisition.
VictimKnown ==
  /\ \A c \in Conns : pc[c] = "killing" => victim[c] \in Conns
  /\ \A s \in Stops : spc[s] = "killing" => victim[s] \in Conns

\* A dead greenlet left the None behind, and its handler has not taken it yet.
DeadQueueEnds ==
  \A c \in Conns : pc[c] = "serving" /\ task[c] = "dead"
                     => frames[c] # <<>> /\ frames[c][Len(frames[c])] = "none"

IInv == /\ TypeOK /\ StatusTracksAcquisition /\ OwnerIsServing
        /\ TaskStarted /\ CountersPositive /\ VictimKnown /\ DeadQueueEnds

-----------------------------------------------------------------------------
(* Lemmas on the operators of the model *)

\* max(n, 1) of a natural number is a positive one.
LEMMA AtLeastOnePositive ==
  ASSUME NEW n \in Nat PROVE AtLeastOne(n) \in Nat \ {0}
BY DEF AtLeastOne

\* What Acquisition.prepare copies from a configuration is well formed.
LEMMA PreparedType ==
  ASSUME config \in Configs PROVE Prepared \in Params
BY AtLeastOnePositive, TimersAssumption DEF Prepared, Params, Configs

\* The first of several entries can be taken without losing the last one.
LEMMA TailKeepsLast ==
  ASSUME NEW q \in Seq(Items), q # <<>>, Tail(q) # <<>>
  PROVE  /\ Tail(q) \in Seq(Items)
         /\ Tail(q)[Len(Tail(q))] = q[Len(q)]
<1>1. Len(q) >= 2 /\ Len(Tail(q)) = Len(q) - 1 /\ Tail(q) \in Seq(Items)
  BY HeadTailProperties, EmptySeq
<1>2. Tail(q)[Len(q) - 1] = q[Len(q)]
  BY <1>1, HeadTailProperties
<1> QED BY <1>1, <1>2

\* Putting an entry at the end of a queue.
LEMMA AppendEntry ==
  ASSUME NEW q \in Seq(Items), NEW x \in Items
  PROVE  /\ Append(q, x) \in Seq(Items) /\ Append(q, x) # <<>>
         /\ Append(q, x)[Len(Append(q, x))] = x
BY AppendProperties

\* Taking the first entry out of a queue.
LEMMA TakeEntry ==
  ASSUME NEW q \in Seq(Items), q # <<>>
  PROVE  Head(q) \in Items /\ Tail(q) \in Seq(Items)
BY HeadTailProperties

\* A handler that goes back to its queue after a write leaves its last entry.
LEMMA LastIsKept ==
  ASSUME NEW q \in Seq(Items), q # <<>>, Head(q) \in {"frame", "last"},
         q[Len(q)] = "none"
  PROVE  /\ Tail(q) # <<>>
         /\ Tail(q)[Len(Tail(q))] = "none"
<1>1. Len(q) \in Nat /\ Len(q) # 0 /\ Len(q) # 1
  BY HeadTailProperties, EmptySeq
<1>2. Tail(q) # <<>>
  <2>1. Len(Tail(q)) = Len(q) - 1
    BY HeadTailProperties
  <2> QED BY <1>1, <2>1, EmptySeq
<1> QED BY <1>2, TailKeepsLast

-----------------------------------------------------------------------------
(* What the operators shared by several actions do to the state *)

\* The finally clause leaves its handler anywhere but waiting on the queue,
\* and no greenlet dies in it.
FinallyFx(c) ==
  /\ pc' \in [Conns -> PcStates]
  /\ pc'[c] \in {"failing", "closing", "killing"}
  /\ \A d \in Conns \ {c} : pc'[d] = pc[d]
  /\ task' \in [Conns -> TaskStates]
  /\ \A d \in Conns : task'[d] = task[d] \/ (task[d] = "spawned" /\ task'[d] = "cancelled")
  /\ victim' \in [Conns \cup Stops -> Conns \cup {None}]
  /\ pc'[c] = "killing" => victim'[c] \in Conns
  /\ \A h \in (Conns \cup Stops) \ {c} : victim'[h] = victim[h]
  /\ run_status' \in {"IDLE", "RUNNING"}
  /\ acquisition' \in Conns \cup {None}
  /\ cut' \subseteq Conns

\* What the finally clause of a handler can change.
LEMMA FinallyEffect ==
  ASSUME TypeOK, NEW c \in Conns, Finally(c)
  PROVE  FinallyFx(c)
<1> USE DEF FinallyFx
<1> USE DEF TypeOK, PcStates, TaskStates
<1>1. CASE acquisition = None /\ pc' = [pc EXCEPT ![c] = "failing"]
           /\ UNCHANGED <<acquisition, run_status, victim, task, cut>>
  BY <1>1
<1>2. CASE acquisition # None /\ KillReturns(acquisition) /\ Release(c) /\ UNCHANGED victim
  BY <1>2 DEF KillReturns, Release
<1>3. CASE acquisition # None /\ KillBlocks(c, acquisition) /\ pc' = [pc EXCEPT ![c] = "killing"]
           /\ UNCHANGED <<acquisition, run_status, task, cut>>
  BY <1>3 DEF KillBlocks
<1> QED BY <1>1, <1>2, <1>3 DEF Finally

\* After a write the queue is what is left of it, or it ended with the None
\* and the handler is in its finally clause.
NextFramesFx(c, rest) ==
  /\ pc' \in [Conns -> PcStates]
  /\ pc'[c] \in {"serving", "failing", "closing", "killing"}
  /\ \A d \in Conns \ {c} : pc'[d] = pc[d] /\ frames'[d] = frames[d]
  /\ pc'[c] = "serving" => frames'[c] = rest /\ rest # <<"none">>
  /\ task' \in [Conns -> TaskStates]
  /\ \A d \in Conns : task'[d] = task[d] \/ (task[d] = "spawned" /\ task'[d] = "cancelled")
  /\ victim' \in [Conns \cup Stops -> Conns \cup {None}]
  /\ pc'[c] = "killing" => victim'[c] \in Conns
  /\ \A h \in (Conns \cup Stops) \ {c} : victim'[h] = victim[h]
  /\ run_status' \in {"IDLE", "RUNNING"}
  /\ acquisition' \in Conns \cup {None}
  /\ cut' \subseteq Conns
  /\ frames' \in [Conns -> Seq(Items)]

\* What a handler can change when it goes on to the rest of its queue.
LEMMA NextFramesEffect ==
  ASSUME TypeOK, NEW c \in Conns, NEW rest \in Seq(Items), NextFrames(c, rest),
         pc[c] = "serving"
  PROVE  NextFramesFx(c, rest)
<1> USE DEF NextFramesFx
<1>1. CASE rest = <<"none">> /\ frames' = [frames EXCEPT ![c] = <<>>] /\ Finally(c)
  <2>1. frames' \in [Conns -> Seq(Items)] /\ \A d \in Conns \ {c} : frames'[d] = frames[d]
    BY <1>1 DEF TypeOK
  <2>2. FinallyFx(c)
    BY <1>1, FinallyEffect
  <2>3. pc'[c] # "serving" /\ \A d \in Conns \ {c} : pc'[d] = pc[d] /\ frames'[d] = frames[d]
    BY <2>1, <2>2 DEF FinallyFx
  <2> QED BY <2>1, <2>2, <2>3 DEF FinallyFx
<1>2. CASE rest # <<"none">> /\ frames' = [frames EXCEPT ![c] = rest]
           /\ UNCHANGED <<acquisition, run_status, pc, victim, task, cut>>
  BY <1>2 DEF TypeOK
<1> QED BY <1>1, <1>2 DEF NextFrames

\* A kill that is delivered ends at most the greenlet it was meant for, and
\* then that greenlet's queue ends with the None.
KillLandsFx(h) ==
  /\ task' \in [Conns -> TaskStates]
  /\ frames' \in [Conns -> Seq(Items)]
  /\ victim' = [victim EXCEPT ![h] = None]
  /\ victim' \in [Conns \cup Stops -> Conns \cup {None}]
  /\ cut' \subseteq Conns
  /\ \A d \in Conns :
       \/ task'[d] = task[d] /\ frames'[d] = frames[d]
       \/ /\ Alive(d) /\ task'[d] = "dead"
          /\ frames'[d] # <<>> /\ frames'[d][Len(frames'[d])] = "none"

\* What the kill of a greenlet can change.
LEMMA KillLandsEffect ==
  ASSUME TypeOK, NEW h \in Conns \cup Stops, victim[h] \in Conns, KillLands(h)
  PROVE  KillLandsFx(h)
<1> USE DEF KillLandsFx
<1> DEFINE v == victim[h]
<1>1. CASE Alive(v)
  <2>1. /\ task' = [task EXCEPT ![v] = "dead"]
        /\ frames' = [frames EXCEPT ![v] = Append(frames[v], "none")]
        /\ cut' = cut \cup {v}
    BY <1>1 DEF KillLands, TypeOK
  <2>2. /\ Append(frames[v], "none") \in Seq(Items) /\ Append(frames[v], "none") # <<>>
        /\ Append(frames[v], "none")[Len(Append(frames[v], "none"))] = "none"
    <3>1. frames[v] \in Seq(Items) /\ "none" \in Items
      BY DEF TypeOK, Items
    <3> QED BY <3>1, AppendEntry
  <2> QED BY <1>1, <2>1, <2>2 DEF KillLands, TypeOK, TaskStates
<1>2. CASE ~Alive(v)
  BY <1>2 DEF KillLands, TypeOK
<1> QED BY <1>1, <1>2

\* The greenlet goes on to an exposure with frames and cycles to go, or dies
\* leaving the None in its queue.
NextExposureFx(c) ==
  /\ task' \in [Conns -> TaskStates]
  /\ frames' \in [Conns -> Seq(Items)]
  /\ nb_frames_left' \in [Conns -> Nat]
  /\ nb_cycles_left' \in [Conns -> Nat]
  /\ \A d \in Conns \ {c} : /\ task'[d] = task[d] /\ frames'[d] = frames[d]
                            /\ nb_frames_left'[d] = nb_frames_left[d]
                            /\ nb_cycles_left'[d] = nb_cycles_left[d]
  /\ \/ task'[c] = "exposing" /\ nb_frames_left'[c] >= 1 /\ nb_cycles_left'[c] >= 1
     \/ task'[c] = "dead" /\ frames'[c] # <<>> /\ frames'[c][Len(frames'[c])] = "none"

\* What a greenlet can change when it goes on after a frame.
LEMMA NextExposureEffect ==
  ASSUME TypeOK, NEW c \in Conns, NEW left \in Nat, NEW queue \in Seq(Items),
         nb_cycles_left[c] >= 1, NextExposure(c, left, queue)
  PROVE  NextExposureFx(c)
<1> USE DEF NextExposureFx
<1> USE DEF TypeOK, TaskStates
<1>1. CASE left > 0
  <2>1. /\ task' = [task EXCEPT ![c] = "exposing"]
        /\ nb_frames_left' = [nb_frames_left EXCEPT ![c] = left]
        /\ frames' = [frames EXCEPT ![c] = queue]
        /\ nb_cycles_left' = nb_cycles_left
    BY <1>1 DEF NextExposure
  <2> QED BY <1>1, <2>1
<1>2. CASE left = 0 /\ nb_cycles_left[c] > 1
  <2>1. params[c].nb_frames \in Nat /\ params[c].nb_frames >= 1
    BY DEF Params
  <2>2. /\ task' = [task EXCEPT ![c] = "exposing"]
        /\ nb_frames_left' = [nb_frames_left EXCEPT ![c] = params[c].nb_frames]
        /\ nb_cycles_left' = [nb_cycles_left EXCEPT ![c] = nb_cycles_left[c] - 1]
        /\ frames' = [frames EXCEPT ![c] = queue]
    BY <1>2 DEF NextExposure
  <2> QED BY SMTT(30), <1>2, <2>1, <2>2
<1>3. CASE left = 0 /\ nb_cycles_left[c] = 1
  <2>1. /\ Append(queue, "none") \in Seq(Items) /\ Append(queue, "none") # <<>>
        /\ Append(queue, "none")[Len(Append(queue, "none"))] = "none"
    BY AppendEntry DEF Items
  <2>2. /\ task' = [task EXCEPT ![c] = "dead"]
        /\ nb_frames_left' = [nb_frames_left EXCEPT ![c] = 0]
        /\ nb_cycles_left' = [nb_cycles_left EXCEPT ![c] = 0]
        /\ frames' = [frames EXCEPT ![c] = Append(queue, "none")]
    BY <1>3 DEF NextExposure
  <2> QED BY <1>3, <2>1, <2>2
<1>4. left > 0 \/ (left = 0 /\ nb_cycles_left[c] > 1) \/ (left = 0 /\ nb_cycles_left[c] = 1)
  OBVIOUS
<1> QED BY <1>1, <1>2, <1>3, <1>4

\* No greenlet that still has a handler at its queue dies in a finally clause.
LEMMA FinallyEnds ==
  ASSUME IInv, NEW c \in Conns, FinallyFx(c), \A d \in Conns \ {c} : frames'[d] = frames[d]
  PROVE  DeadQueueEnds'
<1> SUFFICES ASSUME NEW d \in Conns, pc'[d] = "serving", task'[d] = "dead"
             PROVE  frames'[d] # <<>> /\ frames'[d][Len(frames'[d])] = "none"
  BY DEF DeadQueueEnds
<1>1. d # c /\ pc[d] = "serving" /\ task[d] = "dead"
  BY DEF FinallyFx
<1>2. frames[d] # <<>> /\ frames[d][Len(frames[d])] = "none"
  BY <1>1 DEF IInv, DeadQueueEnds
<1>3. frames'[d] = frames[d]
  BY <1>1
<1> QED BY <1>2, <1>3

-----------------------------------------------------------------------------
(* The inductive invariant *)

\* A simulator that was just started has no acquisition, and nothing of one.
THEOREM InitInv == Init => IInv
<1> SUFFICES ASSUME Init PROVE IInv
  OBVIOUS
<1> USE DEF Init
<1>1. TypeOK
  BY DEF TypeOK, PcStates, TaskStates, Params, Items, Messages
<1>2. StatusTracksAcquisition /\ OwnerIsServing
  BY DEF StatusTracksAcquisition, OwnerIsServing
<1>3. TaskStarted /\ CountersPositive /\ VictimKnown /\ DeadQueueEnds
  BY DEF TaskStarted, CountersPositive, VictimKnown, DeadQueueEnds
<1> QED BY <1>1, <1>2, <1>3 DEF IInv

\* Every step of the simulator and of its clients keeps the invariant.
LEMMA NextInv == IInv /\ [Next]_vars => IInv'
<1> SUFFICES ASSUME IInv, [Next]_vars PROVE IInv'
  OBVIOUS
<1> USE ConnsAssumption DEF PcStates, TaskStates, Alive, detectorVars, taskVars, netVars, history
<1>0. TypeOK
  BY DEF IInv
<1>1. CASE SetTimer
  <2>1. config' \in Configs
    <3>1. \A n \in NbFrames : [config EXCEPT !.nb_frames = n] \in Configs
      BY <1>0 DEF TypeOK, Configs
    <3>2. \A n \in NbCycles : [config EXCEPT !.nb_cycles = n] \in Configs
      BY <1>0 DEF TypeOK, Configs
    <3>3. \A b \in FramePeriods : [config EXCEPT !.frame_period = b] \in Configs
      BY <1>0 DEF TypeOK, Configs
    <3> QED BY <1>1, <3>1, <3>2, <3>3 DEF SetTimer
  <2>2. UNCHANGED <<run_status, acquisition, pc, victim, spc, taskVars, frames, netVars, history>>
    BY <1>1 DEF SetTimer
  <2> QED BY <2>1, <2>2 DEF IInv, TypeOK, StatusTracksAcquisition, OwnerIsServing, TaskStarted, CountersPositive, VictimKnown, DeadQueueEnds
<1>2. ASSUME NEW c \in Conns, StartAndReadAll(c) PROVE IInv'
  <2>1. Prepared \in Params
    BY PreparedType DEF IInv, TypeOK
  <2>2. Prepared.nb_frames * Prepared.nb_cycles \in Nat /\ Prepared.nb_cycles \in Nat \ {0}
    BY <2>1 DEF Params
  <2>11. TypeOK'
    BY <1>2, <2>1, <2>2 DEF IInv, TypeOK, StartAndReadAll
  <2>12. StatusTracksAcquisition' /\ OwnerIsServing'
    BY <1>2 DEF IInv, TypeOK, StatusTracksAcquisition, OwnerIsServing, StartAndReadAll
  <2>13. TaskStarted' /\ CountersPositive' /\ VictimKnown'
    BY <1>2, <2>2 DEF IInv, TypeOK, TaskStarted, CountersPositive, VictimKnown, StartAndReadAll
  <2>14. DeadQueueEnds'
    BY <1>2 DEF IInv, TypeOK, DeadQueueEnds, StartAndReadAll
  <2> QED BY <2>11, <2>12, <2>13, <2>14 DEF IInv
<1>3. ASSUME NEW c \in Conns, TaskStart(c) PROVE IInv'
  <2>11. TypeOK'
    BY <1>3 DEF IInv, TypeOK, Params, TaskStart
  <2>12. StatusTracksAcquisition' /\ OwnerIsServing'
    BY <1>3 DEF IInv, TypeOK, StatusTracksAcquisition, OwnerIsServing, TaskStart
  <2>13. TaskStarted' /\ CountersPositive' /\ VictimKnown'
    BY SMTT(30), <1>3 DEF IInv, TypeOK, Params, TaskStarted, CountersPositive, VictimKnown, TaskStart
  <2>14. DeadQueueEnds'
    BY <1>3 DEF IInv, TypeOK, DeadQueueEnds, TaskStart
  <2> QED BY <2>11, <2>12, <2>13, <2>14 DEF IInv
<1>4. ASSUME NEW c \in Conns, Expose(c) PROVE IInv'
  <2> DEFINE queue == Append(frames[c], FrameEvents(c))
             left  == nb_frames_left[c] - 1
  <2>1. queue \in Seq(Items) /\ left \in Nat /\ nb_cycles_left[c] >= 1 /\ task[c] = "exposing"
    <3>1. frames[c] \in Seq(Items) /\ FrameEvents(c) \in Items
      BY <1>0 DEF TypeOK, FrameEvents, Items
    <3>2. left \in Nat /\ nb_cycles_left[c] >= 1 /\ task[c] = "exposing"
      BY <1>4 DEF IInv, TypeOK, CountersPositive, Expose
    <3> QED BY <3>1, <3>2, AppendEntry
  <2>2. UNCHANGED <<detectorVars, pc, victim, spc, params, netVars, history>>
    BY <1>4 DEF Expose
  <2>3. CASE /\ task' = [task EXCEPT ![c] = "resting"]
             /\ nb_frames_left' = [nb_frames_left EXCEPT ![c] = left]
             /\ frames' = [frames EXCEPT ![c] = queue]
             /\ UNCHANGED nb_cycles_left
    <3> HIDE DEF queue, left
    <3> QED BY <2>1, <2>2, <2>3 DEF IInv, TypeOK, StatusTracksAcquisition, OwnerIsServing, TaskStarted, CountersPositive, VictimKnown, DeadQueueEnds
  <2>4. CASE NextExposure(c, left, queue)
    <3> HIDE DEF queue, left
    <3>0. NextExposureFx(c)
      BY <1>0, <2>1, <2>4, NextExposureEffect
    <3>1. TypeOK'
      BY <1>0, <2>2, <3>0 DEF TypeOK, NextExposureFx
    <3>2. StatusTracksAcquisition' /\ OwnerIsServing'
      BY <2>2 DEF IInv, StatusTracksAcquisition, OwnerIsServing
    <3>3. TaskStarted' /\ CountersPositive'
      BY <2>1, <2>2, <3>0 DEF IInv, TaskStarted, CountersPositive, NextExposureFx
    <3>4. VictimKnown'
      BY <2>2 DEF IInv, VictimKnown
    <3>5. DeadQueueEnds'
      <4> SUFFICES ASSUME NEW d \in Conns, pc'[d] = "serving", task'[d] = "dead"
                   PROVE  frames'[d] # <<>> /\ frames'[d][Len(frames'[d])] = "none"
        BY DEF DeadQueueEnds
      <4>1. CASE d = c
        BY <4>1, <3>0 DEF NextExposureFx
      <4>2. CASE d # c
        BY <4>2, <2>2, <3>0 DEF IInv, DeadQueueEnds, NextExposureFx
      <4> QED BY <4>1, <4>2
    <3> QED BY <3>1, <3>2, <3>3, <3>4, <3>5 DEF IInv
  <2> QED BY <1>4, <2>3, <2>4 DEF Expose
<1>5. ASSUME NEW c \in Conns, Rested(c) PROVE IInv'
  <2>1. /\ frames[c] \in Seq(Items) /\ nb_frames_left[c] \in Nat /\ nb_cycles_left[c] >= 1
        /\ task[c] = "resting"
    BY <1>5 DEF IInv, TypeOK, CountersPositive, Rested
  <2>2. UNCHANGED <<detectorVars, pc, victim, spc, params, netVars, history>>
    BY <1>5 DEF Rested
  <2>3. NextExposureFx(c)
    BY <1>5, <1>0, <2>1, NextExposureEffect DEF Rested
  <2>4. TypeOK'
    BY <1>0, <2>2, <2>3 DEF TypeOK, NextExposureFx
  <2>5. StatusTracksAcquisition' /\ OwnerIsServing'
    BY <2>2 DEF IInv, StatusTracksAcquisition, OwnerIsServing
  <2>6. TaskStarted' /\ CountersPositive'
    BY <2>1, <2>2, <2>3 DEF IInv, TaskStarted, CountersPositive, NextExposureFx
  <2>7. VictimKnown'
    BY <2>2 DEF IInv, VictimKnown
  <2>8. DeadQueueEnds'
    <3> SUFFICES ASSUME NEW d \in Conns, pc'[d] = "serving", task'[d] = "dead"
                 PROVE  frames'[d] # <<>> /\ frames'[d][Len(frames'[d])] = "none"
      BY DEF DeadQueueEnds
    <3>1. CASE d = c
      BY <3>1, <2>3 DEF NextExposureFx
    <3>2. CASE d # c
      BY <3>2, <2>2, <2>3 DEF IInv, DeadQueueEnds, NextExposureFx
    <3> QED BY <3>1, <3>2
  <2> QED BY <2>4, <2>5, <2>6, <2>7, <2>8 DEF IInv
<1>6. ASSUME NEW c \in Conns, WriteFrames(c) PROVE IInv'
  <2>1. /\ pc[c] = "serving" /\ frames[c] \in Seq(Items) /\ frames[c] # <<>> /\ Head(frames[c]) \in {"frame", "last"}
        /\ Tail(frames[c]) \in Seq(Items)
    BY <1>6, <1>0, TakeEntry DEF TypeOK, FrameReady, Items, WriteFrames
  <2>2. NextFramesFx(c, Tail(frames[c]))
    BY <1>6, <1>0, <2>1, NextFramesEffect DEF WriteFrames
  <2>3. /\ wire' \in [Conns -> Seq(Messages)] /\ sent' \in [Conns -> Nat]
        /\ UNCHANGED <<config, spc, params, nb_frames_left, nb_cycles_left, peer>>
    BY SMTT(30), <1>6, <1>0, <2>1 DEF TypeOK, Messages, WriteFrames
  <2>11. TypeOK'
    BY <1>0, <2>2, <2>3 DEF TypeOK, NextFramesFx
  <2>12. StatusTracksAcquisition' /\ OwnerIsServing'
    BY <1>6 DEF IInv, TypeOK, StatusTracksAcquisition, OwnerIsServing, WriteFrames, FrameReady, NextFrames, Finally, Release, KillReturns, KillBlocks
  <2>13. TaskStarted' /\ CountersPositive' /\ VictimKnown'
    <3>1. TaskStarted'
      <4>1. pc'[c] # "new" /\ pc[c] # "new"
        BY <2>1, <2>2 DEF NextFramesFx, PcStates
      <4> QED BY <2>2, <4>1 DEF IInv, TaskStarted, NextFramesFx
    <3>2. CountersPositive'
      BY <2>2, <2>3 DEF IInv, CountersPositive, NextFramesFx
    <3>3. VictimKnown'
      BY <2>2, <2>3 DEF IInv, VictimKnown, NextFramesFx
    <3> QED BY <3>1, <3>2, <3>3
  <2>14. DeadQueueEnds'
    <3> SUFFICES ASSUME NEW d \in Conns, pc'[d] = "serving", task'[d] = "dead"
                 PROVE  frames'[d] # <<>> /\ frames'[d][Len(frames'[d])] = "none"
      BY DEF DeadQueueEnds
    <3>1. task[d] = "dead" /\ pc[d] = "serving"
      BY <2>1, <2>2 DEF NextFramesFx
    <3>2. frames[d] # <<>> /\ frames[d][Len(frames[d])] = "none"
      BY <3>1 DEF IInv, DeadQueueEnds
    <3>3. CASE d = c
      BY ZenonT(60), <2>1, <2>2, <3>2, <3>3, LastIsKept DEF NextFramesFx
    <3>4. CASE d # c
      BY <2>2, <3>2, <3>4 DEF NextFramesFx
    <3> QED BY <3>3, <3>4
  <2> QED BY <2>11, <2>12, <2>13, <2>14 DEF IInv
<1>7. ASSUME NEW c \in Conns, LoseFrames(c) PROVE IInv'
  <2>1. /\ pc[c] = "serving" /\ frames[c] \in Seq(Items) /\ frames[c] # <<>> /\ Head(frames[c]) \in {"frame", "last"}
        /\ Tail(frames[c]) \in Seq(Items)
    BY <1>7, <1>0, TakeEntry DEF TypeOK, FrameReady, Items, LoseFrames
  <2>2. NextFramesFx(c, Tail(frames[c]))
    BY <1>7, <1>0, <2>1, NextFramesEffect DEF LoseFrames
  <2>3. /\ wire' \in [Conns -> Seq(Messages)] /\ sent' \in [Conns -> Nat]
        /\ UNCHANGED <<config, spc, params, nb_frames_left, nb_cycles_left, peer>>
    BY <1>7, <1>0, <2>1 DEF TypeOK, Messages, LoseFrames
  <2>11. TypeOK'
    BY <1>0, <2>2, <2>3 DEF TypeOK, NextFramesFx
  <2>12. StatusTracksAcquisition' /\ OwnerIsServing'
    BY <1>7 DEF IInv, TypeOK, StatusTracksAcquisition, OwnerIsServing, LoseFrames, FrameReady, NextFrames, Finally, Release, KillReturns, KillBlocks
  <2>13. TaskStarted' /\ CountersPositive' /\ VictimKnown'
    <3>1. TaskStarted'
      <4>1. pc'[c] # "new" /\ pc[c] # "new"
        BY <2>1, <2>2 DEF NextFramesFx, PcStates
      <4> QED BY <2>2, <4>1 DEF IInv, TaskStarted, NextFramesFx
    <3>2. CountersPositive'
      BY <2>2, <2>3 DEF IInv, CountersPositive, NextFramesFx
    <3>3. VictimKnown'
      BY <2>2, <2>3 DEF IInv, VictimKnown, NextFramesFx
    <3> QED BY <3>1, <3>2, <3>3
  <2>14. DeadQueueEnds'
    <3> SUFFICES ASSUME NEW d \in Conns, pc'[d] = "serving", task'[d] = "dead"
                 PROVE  frames'[d] # <<>> /\ frames'[d][Len(frames'[d])] = "none"
      BY DEF DeadQueueEnds
    <3>1. task[d] = "dead" /\ pc[d] = "serving"
      BY <2>1, <2>2 DEF NextFramesFx
    <3>2. frames[d] # <<>> /\ frames[d][Len(frames[d])] = "none"
      BY <3>1 DEF IInv, DeadQueueEnds
    <3>3. CASE d = c
      BY ZenonT(60), <2>1, <2>2, <3>2, <3>3, LastIsKept DEF NextFramesFx
    <3>4. CASE d # c
      BY <2>2, <3>2, <3>4 DEF NextFramesFx
    <3> QED BY <3>3, <3>4
  <2> QED BY <2>11, <2>12, <2>13, <2>14 DEF IInv
<1>8. ASSUME NEW c \in Conns, WriteFails(c) PROVE IInv'
  <2>1. Finally(c) /\ pc[c] = "serving" /\ frames' \in [Conns -> Seq(Items)]
        /\ \A d \in Conns \ {c} : frames'[d] = frames[d]
    BY <1>8, <1>0 DEF TypeOK, FrameReady, WriteFails
  <2>2. UNCHANGED <<config, spc, params, nb_frames_left, nb_cycles_left, netVars, sent>>
    BY <1>8 DEF WriteFails
  <2>3. FinallyFx(c)
    BY <1>0, <2>1, FinallyEffect
  <2>11. TypeOK'
    BY <1>0, <2>1, <2>2, <2>3 DEF TypeOK, FinallyFx
  <2>12. StatusTracksAcquisition' /\ OwnerIsServing'
    BY <1>8 DEF IInv, TypeOK, StatusTracksAcquisition, OwnerIsServing, WriteFails, FrameReady, Finally, Release, KillReturns, KillBlocks
  <2>13. TaskStarted' /\ CountersPositive' /\ VictimKnown'
    BY <2>1, <2>2, <2>3 DEF IInv, TaskStarted, CountersPositive, VictimKnown, FinallyFx
  <2>14. DeadQueueEnds'
    BY <2>1, <2>3, FinallyEnds
  <2> QED BY <2>11, <2>12, <2>13, <2>14 DEF IInv
<1>9. ASSUME NEW c \in Conns, EndOfFrames(c) PROVE IInv'
  <2>1. Finally(c) /\ pc[c] = "serving" /\ frames' \in [Conns -> Seq(Items)]
        /\ \A d \in Conns \ {c} : frames'[d] = frames[d]
    BY <1>9, <1>0 DEF TypeOK, EndOfFrames
  <2>2. UNCHANGED <<config, spc, params, nb_frames_left, nb_cycles_left, netVars, sent>>
    BY <1>9 DEF EndOfFrames
  <2>3. FinallyFx(c)
    BY <1>0, <2>1, FinallyEffect
  <2>11. TypeOK'
    BY <1>0, <2>1, <2>2, <2>3 DEF TypeOK, FinallyFx
  <2>12. StatusTracksAcquisition' /\ OwnerIsServing'
    BY <1>9 DEF IInv, TypeOK, StatusTracksAcquisition, OwnerIsServing, EndOfFrames, Finally, Release, KillReturns, KillBlocks
  <2>13. TaskStarted' /\ CountersPositive' /\ VictimKnown'
    BY <2>1, <2>2, <2>3 DEF IInv, TaskStarted, CountersPositive, VictimKnown, FinallyFx
  <2>14. DeadQueueEnds'
    BY <2>1, <2>3, FinallyEnds
  <2> QED BY <2>11, <2>12, <2>13, <2>14 DEF IInv
<1>10. ASSUME NEW c \in Conns, FinallyKilled(c) PROVE IInv'
  <2>1. pc[c] = "killing" /\ victim[c] \in Conns /\ KillLands(c) /\ Release(c)
    BY <1>10 DEF IInv, VictimKnown, FinallyKilled
  <2>2. UNCHANGED <<config, spc, params, nb_frames_left, nb_cycles_left, netVars, sent>>
    BY <1>10 DEF FinallyKilled
  <2>0. KillLandsFx(c)
    BY <1>0, <2>1, KillLandsEffect
  <2>3. pc' \in [Conns -> PcStates] /\ pc'[c] = "closing" /\ \A d \in Conns \ {c} : pc'[d] = pc[d]
    BY <1>0, <2>1 DEF TypeOK, Release
  <2>4. \A h \in (Conns \cup Stops) \ {c} : victim'[h] = victim[h]
    BY <1>0, <2>0 DEF TypeOK, KillLandsFx
  <2>11. TypeOK'
    BY <1>0, <2>0, <2>1, <2>2, <2>3 DEF TypeOK, KillLandsFx, Release
  <2>12. StatusTracksAcquisition' /\ OwnerIsServing'
    BY <2>1, <1>0 DEF TypeOK, StatusTracksAcquisition, OwnerIsServing, Release
  <2>13. TaskStarted' /\ CountersPositive' /\ VictimKnown'
    <3>1. TaskStarted'
      BY ZenonT(60), <2>0, <2>1, <2>3 DEF IInv, TaskStarted, KillLandsFx
    <3>2. CountersPositive'
      BY <2>0, <2>2 DEF IInv, CountersPositive, KillLandsFx
    <3>3. VictimKnown'
      BY <2>2, <2>3, <2>4 DEF IInv, VictimKnown
    <3> QED BY <3>1, <3>2, <3>3
  <2>14. DeadQueueEnds'
    <3> SUFFICES ASSUME NEW d \in Conns, pc'[d] = "serving", task'[d] = "dead"
                 PROVE  frames'[d] # <<>> /\ frames'[d][Len(frames'[d])] = "none"
      BY DEF DeadQueueEnds
    <3>1. pc[d] = "serving"
      BY <2>3
    <3> QED BY SMTT(30), <2>0, <3>1 DEF IInv, DeadQueueEnds, KillLandsFx
  <2> QED BY <2>11, <2>12, <2>13, <2>14 DEF IInv
<1>11. ASSUME NEW c \in Conns, CloseConn(c) PROVE IInv'
  <2>11. TypeOK'
    BY <1>11, <1>0 DEF TypeOK, Messages, CloseConn
  <2>12. StatusTracksAcquisition' /\ OwnerIsServing'
    BY <1>11 DEF IInv, TypeOK, StatusTracksAcquisition, OwnerIsServing, CloseConn
  <2>13. TaskStarted' /\ CountersPositive' /\ VictimKnown' /\ DeadQueueEnds'
    BY <1>11 DEF IInv, TypeOK, TaskStarted, CountersPositive, VictimKnown, DeadQueueEnds, CloseConn
  <2> QED BY <2>11, <2>12, <2>13 DEF IInv
<1>12. ASSUME NEW c \in Conns, SendFail(c) PROVE IInv'
  <2>11. TypeOK'
    BY SMTT(30), <1>12, <1>0 DEF TypeOK, Messages, SendFail
  <2>12. StatusTracksAcquisition' /\ OwnerIsServing'
    BY <1>12 DEF IInv, TypeOK, StatusTracksAcquisition, OwnerIsServing, SendFail
  <2>13. TaskStarted' /\ CountersPositive' /\ VictimKnown' /\ DeadQueueEnds'
    BY <1>12 DEF IInv, TypeOK, TaskStarted, CountersPositive, VictimKnown, DeadQueueEnds, SendFail
  <2> QED BY <2>11, <2>12, <2>13 DEF IInv
<1>13. ASSUME NEW s \in Stops, StopAcquisition(s) PROVE IInv'
  <2>1. UNCHANGED <<detectorVars, pc, params, nb_frames_left, nb_cycles_left, frames, netVars, sent>>
    BY <1>13 DEF StopAcquisition
  <2>2. /\ spc' \in [Stops -> {"new", "killing", "done"}]
        /\ victim' \in [Conns \cup Stops -> Conns \cup {None}]
        /\ \A t \in Stops \ {s} : spc'[t] = spc[t]
        /\ \A h \in (Conns \cup Stops) \ {s} : victim'[h] = victim[h]
        /\ spc'[s] = "killing" => victim'[s] \in Conns
    <3>1. CASE spc' = [spc EXCEPT ![s] = "done"] /\ UNCHANGED victim
      BY <3>1, <1>0 DEF TypeOK
    <3>2. CASE acquisition # None /\ KillBlocks(s, acquisition) /\ spc' = [spc EXCEPT ![s] = "killing"]
      BY <3>2, <1>0 DEF TypeOK, KillBlocks
    <3> QED BY <1>13, <3>1, <3>2 DEF StopAcquisition
  <2>3. /\ task' \in [Conns -> TaskStates] /\ cut' \subseteq Conns
        /\ \A d \in Conns : task'[d] = task[d] \/ (task[d] = "spawned" /\ task'[d] = "cancelled")
    <3>1. CASE UNCHANGED <<task, cut>>
      BY <3>1, <1>0 DEF TypeOK
    <3>2. CASE acquisition # None /\ KillReturns(acquisition)
      BY <3>2, <1>0 DEF TypeOK, KillReturns
    <3> QED BY <1>13, <3>1, <3>2 DEF StopAcquisition
  <2>4. TypeOK'
    BY <1>0, <2>1, <2>2, <2>3 DEF TypeOK
  <2>5. StatusTracksAcquisition' /\ OwnerIsServing'
    BY <2>1 DEF IInv, StatusTracksAcquisition, OwnerIsServing
  <2>6. TaskStarted' /\ CountersPositive'
    BY <2>1, <2>3 DEF IInv, TaskStarted, CountersPositive
  <2>7. VictimKnown'
    BY <2>1, <2>2 DEF IInv, VictimKnown
  <2>8. DeadQueueEnds'
    BY <2>1, <2>3 DEF IInv, DeadQueueEnds
  <2> QED BY <2>4, <2>5, <2>6, <2>7, <2>8 DEF IInv
<1>14. ASSUME NEW s \in Stops, StopKilled(s) PROVE IInv'
  <2>1. spc[s] = "killing" /\ victim[s] \in Conns /\ KillLands(s) /\ spc' = [spc EXCEPT ![s] = "done"]
    BY <1>14 DEF IInv, VictimKnown, StopKilled
  <2>2. UNCHANGED <<detectorVars, pc, params, nb_frames_left, nb_cycles_left, netVars, sent>>
    BY <1>14 DEF StopKilled
  <2>0. KillLandsFx(s)
    BY <1>0, <2>1, KillLandsEffect
  <2>3. /\ spc'[s] = "done" /\ \A t \in Stops \ {s} : spc'[t] = spc[t]
        /\ \A h \in (Conns \cup Stops) \ {s} : victim'[h] = victim[h]
    BY <1>0, <2>0, <2>1 DEF TypeOK, KillLandsFx
  <2>11. TypeOK'
    BY <1>0, <2>0, <2>1, <2>2 DEF TypeOK, KillLandsFx
  <2>12. StatusTracksAcquisition' /\ OwnerIsServing'
    BY <2>2 DEF IInv, StatusTracksAcquisition, OwnerIsServing
  <2>13. TaskStarted'
    BY <2>0, <2>2 DEF IInv, TaskStarted, Alive, KillLandsFx
  <2>14. CountersPositive'
    BY <2>0, <2>2 DEF IInv, CountersPositive, KillLandsFx
  <2>15. VictimKnown'
    BY <2>2, <2>3 DEF IInv, VictimKnown
  <2>16. DeadQueueEnds'
    BY <2>0, <2>2 DEF IInv, DeadQueueEnds, KillLandsFx
  <2> QED BY <2>11, <2>12, <2>13, <2>14, <2>15, <2>16 DEF IInv
<1>15. ASSUME NEW c \in Conns, ClientReads(c) PROVE IInv'
  <2>1. Tail(wire[c]) \in Seq(Messages)
    BY <1>15, <1>0, HeadTailProperties DEF TypeOK, ClientReads
  <2>2. /\ wire' = [wire EXCEPT ![c] = Tail(wire[c])]
        /\ UNCHANGED <<detectorVars, pc, victim, spc, taskVars, frames, peer, history>>
    BY <1>15 DEF ClientReads
  <2> QED BY <2>1, <2>2 DEF IInv, TypeOK, StatusTracksAcquisition, OwnerIsServing, TaskStarted, CountersPositive, VictimKnown, DeadQueueEnds
<1>16. ASSUME NEW c \in Conns, ClientCloses(c) PROVE IInv'
  BY <1>16 DEF ClientCloses, IInv, TypeOK, StatusTracksAcquisition, OwnerIsServing, TaskStarted, CountersPositive, VictimKnown, DeadQueueEnds
<1>17. CASE UNCHANGED vars
  BY <1>17 DEF vars, IInv, TypeOK, StatusTracksAcquisition, OwnerIsServing, TaskStarted, CountersPositive, VictimKnown, DeadQueueEnds
<1> QED
  BY <1>1, <1>2, <1>3, <1>4, <1>5, <1>6, <1>7, <1>8, <1>9, <1>10, <1>11, <1>12, <1>13, <1>14, <1>15, <1>16, <1>17 DEF Next, TaskStep, HandlerStep, ClientStep

-----------------------------------------------------------------------------
(* What follows for every behaviour of the simulator *)

\* The inductive invariant holds in every reachable state.
THEOREM InvHolds == Spec => []IInv
<1>1. Init => IInv
  BY InitInv
<1>2. IInv /\ [Next]_vars => IInv'
  BY NextInv
<1> QED BY <1>1, <1>2, PTL DEF Spec

\* Every variable of the simulator keeps its type.
THEOREM TypeCorrect == Spec => []TypeOK
<1>1. IInv => TypeOK
  BY DEF IInv
<1> QED BY <1>1, InvHolds, PTL

\* The run status is RUNNING exactly while the detector has an acquisition, so
\* time_left never finds a None acquisition under a RUNNING status.
THEOREM StatusCorrect == Spec => []StatusTracksAcquisition
<1>1. IInv => StatusTracksAcquisition
  BY DEF IInv
<1> QED BY <1>1, InvHolds, PTL

\* What a stop kills is still served, also when STARTs overlap.
THEOREM OwnerCorrect == Spec => []OwnerIsServing
<1>1. IInv => OwnerIsServing
  BY DEF IInv
<1> QED BY <1>1, InvHolds, PTL

\* A handler that waits on an empty queue can only be waiting for a greenlet
\* that will still fill it, or for one that was killed before it ever ran.
THEOREM WakeupCorrect == Spec => []NoLostWakeup
<1>1. IInv => NoLostWakeup
  BY DEF IInv, TypeOK, TaskStates, TaskStarted, DeadQueueEnds, NoLostWakeup, Alive
<1> QED BY <1>1, InvHolds, PTL

-----------------------------------------------------------------------------
(* The account of the frames of a connection *)

\* The None is the last entry of the queue of a greenlet that is dead.
NoneEnds(c) ==
  \A n \in 1..Len(frames[c]) :
    frames[c][n] = "none" => n = Len(frames[c]) /\ task[c] = "dead"

\* A greenlet that has not run has the frames of all cycles before it.
StartsWhole(c) ==
  task[c] = "spawned" => /\ frames[c] = <<>>
                         /\ nb_frames_left[c] = Total(c)
                         /\ nb_cycles_left[c] = params[c].nb_cycles

\* The frames that are sent, queued or still to come.
Accounted(c) == sent[c] + Queued(c) + ToProduce(c)

\* What is true of an acquisition that nobody cut: its greenlet was not killed,
\* its queue is read to the end before its handler leaves the loop, and none of
\* its frames is missing.
Whole(c) ==
  /\ task[c] # "cancelled"
  /\ pc[c] \notin {"new", "serving"} => task[c] = "dead" /\ frames[c] = <<>>
  /\ task[c] # "none" => Accounted(c) = Total(c)

\* The account of a connection.  A lost client cuts it, a START finds it new,
\* and a kill or a lost client can only make frames disappear.
Account(c) ==
  /\ peer[c] = "closed" => c \in cut
  /\ pc[c] = "new" => frames[c] = <<>> /\ sent[c] = 0
  /\ NoneEnds(c) /\ StartsWhole(c)
  /\ task[c] # "none" => Accounted(c) <= Total(c)
  /\ c \notin cut => Whole(c)

Accounts == \A c \in Conns : Account(c)

-----------------------------------------------------------------------------
(* Frames in a queue *)

\* The frames in queue q.
FramesIn(q) == IF q # <<>> /\ q[Len(q)] = "none" THEN Len(q) - 1 ELSE Len(q)

\* Taking a frame from a queue leaves one less, whatever follows it.
LEMMA TakeFrame ==
  ASSUME NEW q \in Seq(Items), q # <<>>, Head(q) # "none"
  PROVE  FramesIn(Tail(q)) = FramesIn(q) - 1
<1>1. Len(q) \in Nat /\ Len(q) >= 1 /\ Len(Tail(q)) = Len(q) - 1 /\ Tail(q) \in Seq(Items)
  BY HeadTailProperties, EmptySeq
<1>2. CASE Tail(q) = <<>>
  <2>1. Len(q) = 1 /\ q[1] # "none"
    BY <1>1, <1>2, EmptySeq
  <2> QED BY <1>1, <1>2, <2>1 DEF FramesIn
<1>3. CASE Tail(q) # <<>>
  <2>1. Tail(q)[Len(Tail(q))] = q[Len(q)]
    BY <1>3, TailKeepsLast
  <2> QED BY <1>1, <1>3, <2>1 DEF FramesIn
<1> QED BY <1>2, <1>3

\* Putting a frame, or the None, in a queue that has not ended.
LEMMA PutEntry ==
  ASSUME NEW q \in Seq(Items), NEW x \in Items, \A n \in 1..Len(q) : q[n] # "none"
  PROVE  /\ FramesIn(q) = Len(q)
         /\ FramesIn(Append(q, x)) = IF x = "none" THEN Len(q) ELSE Len(q) + 1
         /\ \A n \in 1..Len(Append(q, x)) :
              Append(q, x)[n] = "none" => n = Len(Append(q, x)) /\ x = "none"
<1>1. Len(q) \in Nat /\ Len(Append(q, x)) = Len(q) + 1 /\ Append(q, x) # <<>>
  BY AppendProperties
<1>2. \A n \in 1..Len(q) : Append(q, x)[n] = q[n]
  BY AppendProperties
<1>3. Append(q, x)[Len(q) + 1] = x
  BY AppendProperties
<1>4. q # <<>> => Len(q) >= 1
  BY EmptySeq
<1> QED BY <1>1, <1>2, <1>3, <1>4 DEF FramesIn

\* The frames of a first cycle and of the other ones are all the frames.
LEMMA CyclesAddUp ==
  ASSUME NEW a \in Nat, NEW b \in Nat
  PROVE  a + (b - 1) * a = a * b /\ a + (b - 1) * a = b * a
OBVIOUS

\* A frame that is queued is not to come any more.
LEMMA OneMoreQueued ==
  ASSUME NEW s \in Int, NEW q \in Int, NEW n \in Int, NEW r \in Int
  PROVE  s + (q + 1) + ((n - 1) + r) = s + q + (n + r)
OBVIOUS

-----------------------------------------------------------------------------
(* Steps that keep an account *)

\* What has not been produced is a number of frames.
LEMMA AccountTypes ==
  ASSUME IInv, NEW c \in Conns
  PROVE  ToProduce(c) \in Nat /\ Queued(c) \in Int /\ sent[c] \in Nat /\ Total(c) \in Nat
<1>1. /\ params[c].nb_frames \in Nat /\ params[c].nb_cycles \in Nat /\ sent[c] \in Nat
      /\ nb_frames_left[c] \in Nat /\ nb_cycles_left[c] \in Nat
      /\ Alive(c) => nb_cycles_left[c] >= 1
      /\ Len(frames[c]) \in Nat
  BY LenProperties DEF IInv, TypeOK, Params, CountersPositive, Alive
<1>2. ToProduce(c) \in Nat
  <2>1. CASE Alive(c)
    <3>1. nb_cycles_left[c] - 1 \in Nat
      BY <1>1, <2>1
    <3>2. (nb_cycles_left[c] - 1) * params[c].nb_frames \in Nat
      BY <1>1, <3>1
    <3> QED BY <1>1, <2>1, <3>2 DEF ToProduce, Alive
  <2>2. CASE ~Alive(c)
    BY <1>1, <2>2 DEF ToProduce
  <2> QED BY <2>1, <2>2
<1>3. Queued(c) \in Int
  BY <1>1 DEF Queued
<1>4. Total(c) \in Nat
  BY <1>1 DEF Total
<1> QED BY <1>1, <1>2, <1>3, <1>4

\* Connection e sends nothing and its queue is not read; its greenlet may be
\* killed and its client may leave, which cuts it.
Kept(e) ==
  /\ pc'[e] = pc[e] \/ {pc[e], pc'[e]} \cap {"new", "serving"} = {}
  /\ params'[e] = params[e] /\ sent'[e] = sent[e]
  /\ nb_frames_left'[e] = nb_frames_left[e] /\ nb_cycles_left'[e] = nb_cycles_left[e]
  /\ e \in cut => e \in cut'
  /\ peer'[e] = peer[e] \/ (peer'[e] = "closed" /\ e \in cut')
  /\ \/ task'[e] = task[e] /\ frames'[e] = frames[e]
     \/ /\ e \in cut' /\ pc[e] # "new"
        /\ task[e] = "spawned" /\ task'[e] = "cancelled" /\ frames'[e] = frames[e]
     \/ /\ e \in cut' /\ pc[e] # "new"
        /\ Alive(e) /\ task'[e] = "dead" /\ frames'[e] = Append(frames[e], "none")

\* A connection that keeps its part of the state, or is killed, keeps its account.
LEMMA KeptAccount ==
  ASSUME IInv, NEW e \in Conns, Account(e), Kept(e)
  PROVE  Account(e)'
<1>1. Total(e)' = Total(e)
  BY DEF Kept, Total
<1>2. frames[e] \in Seq(Items) /\ "none" \in Items
  BY DEF IInv, TypeOK, Items
<1>3. CASE task'[e] = task[e] /\ frames'[e] = frames[e]
  <2>1. Accounted(e)' = Accounted(e) /\ NoneEnds(e)' /\ StartsWhole(e)'
    BY <1>1, <1>3 DEF Kept, Accounted, Queued, ToProduce, Alive, Account, NoneEnds, StartsWhole
  <2> QED BY <1>1, <1>3, <2>1 DEF Kept, Account, Whole
<1>4. CASE task[e] = "spawned" /\ task'[e] = "cancelled" /\ frames'[e] = frames[e]
           /\ e \in cut' /\ pc[e] # "new"
  <2>1. ToProduce(e)' = 0 /\ Queued(e)' = Queued(e) /\ NoneEnds(e)' /\ StartsWhole(e)'
    BY <1>4 DEF ToProduce, Queued, Alive, Account, NoneEnds, StartsWhole
  <2>2. Accounted(e)' <= Total(e)'
    BY <1>1, <1>4, <2>1, AccountTypes DEF Kept, Account, Accounted
  <2> QED BY <1>4, <2>1, <2>2 DEF Kept, Account
<1>5. CASE Alive(e) /\ task'[e] = "dead" /\ frames'[e] = Append(frames[e], "none")
           /\ e \in cut' /\ pc[e] # "new"
  <2>1. \A n \in 1..Len(frames[e]) : frames[e][n] # "none"
    BY <1>5 DEF Account, NoneEnds, Alive
  <2>2. /\ FramesIn(frames[e]) = FramesIn(Append(frames[e], "none"))
        /\ \A n \in 1..Len(frames'[e]) : frames'[e][n] = "none" => n = Len(frames'[e])
    BY <1>2, <1>5, <2>1, PutEntry
  <2>3. Queued(e)' = Queued(e)
    BY <1>5, <2>2 DEF Queued, FramesIn
  <2>4. ToProduce(e)' = 0 /\ NoneEnds(e)' /\ StartsWhole(e)'
    BY <1>5, <2>2 DEF ToProduce, Alive, NoneEnds, StartsWhole
  <2>5. Accounted(e)' <= Total(e)'
    BY <1>1, <1>5, <2>3, <2>4, AccountTypes DEF Kept, Account, Accounted, Alive
  <2> QED BY <1>5, <2>4, <2>5 DEF Kept, Account
<1> QED BY <1>3, <1>4, <1>5 DEF Kept

\* The finally clause kills the greenlet of the slot or waits for the hub.
FinallyCuts(c) ==
  /\ cut \subseteq cut'
  /\ \A d \in Conns : \/ task'[d] = task[d]
                      \/ d \in cut' /\ task[d] = "spawned" /\ task'[d] = "cancelled"

\* A greenlet that a finally clause stops is cut by it.
LEMMA FinallyCutsLemma ==
  ASSUME TypeOK, NEW c \in Conns, Finally(c)
  PROVE  FinallyCuts(c)
<1> USE DEF TypeOK, FinallyCuts
<1>1. CASE UNCHANGED <<task, cut>>
  BY <1>1
<1>2. CASE acquisition # None /\ KillReturns(acquisition)
  <2>1. acquisition \in Conns
    BY <1>2
  <2>2. \A d \in Conns \ {acquisition} : task'[d] = task[d]
    BY <1>2, <2>1 DEF KillReturns
  <2>3. task'[acquisition] = IF task[acquisition] = "spawned" THEN "cancelled" ELSE task[acquisition]
    BY <1>2, <2>1 DEF KillReturns
  <2>4. cut \subseteq cut' /\ (task[acquisition] = "spawned" => acquisition \in cut')
    BY <1>2 DEF KillReturns
  <2> QED BY <2>1, <2>2, <2>3, <2>4
<1> QED BY <1>1, <1>2 DEF Finally

\* A kill that is delivered cuts the acquisition that it ends.
KillCuts ==
  /\ cut \subseteq cut'
  /\ \A d \in Conns : \/ task'[d] = task[d] /\ frames'[d] = frames[d]
                      \/ /\ d \in cut' /\ Alive(d) /\ task'[d] = "dead"
                         /\ frames'[d] = Append(frames[d], "none")

\* Whoever is killed when its victim is scheduled is cut by that step.
LEMMA KillLandsCuts ==
  ASSUME TypeOK, NEW h \in Conns \cup Stops, victim[h] \in Conns, KillLands(h)
  PROVE  KillCuts
<1> DEFINE v == victim[h]
<1>1. CASE Alive(v)
  <2>1. /\ task' = [task EXCEPT ![v] = "dead"]
        /\ frames' = [frames EXCEPT ![v] = Append(frames[v], "none")]
        /\ cut' = cut \cup {v}
    BY <1>1 DEF KillLands, TypeOK
  <2>2. \A d \in Conns \ {v} : task'[d] = task[d] /\ frames'[d] = frames[d]
    BY <2>1 DEF TypeOK
  <2>3. v \in cut' /\ task'[v] = "dead" /\ frames'[v] = Append(frames[v], "none")
    BY <2>1 DEF TypeOK
  <2> HIDE DEF v
  <2> QED BY <1>1, <2>1, <2>2, <2>3 DEF KillCuts
<1>2. CASE ~Alive(v)
  BY <1>2 DEF KillLands, KillCuts
<1> QED BY <1>1, <1>2

\* An account is kept by a step of its own greenlets that loses no frame, or one
\* of a frame whose client is gone.
LEMMA OwnAccount ==
  ASSUME IInv, NEW c \in Conns, Account(c), task[c] # "none", task'[c] \notin {"none", "spawned"},
         pc'[c] # "new", peer'[c] = peer[c], cut \subseteq cut', params'[c] = params[c],
         NoneEnds(c)',
         \/ Accounted(c)' = Accounted(c)
         \/ c \in cut /\ Accounted(c)' <= Accounted(c) /\ Accounted(c)' \in Int,
         c \notin cut' => /\ task'[c] # "cancelled"
                          /\ pc'[c] # "serving" => task'[c] = "dead" /\ frames'[c] = <<>>
  PROVE  Account(c)'
<1>1. Total(c)' = Total(c) /\ StartsWhole(c)'
  BY DEF Total, StartsWhole
<1>2. Accounted(c)' <= Total(c)'
  <2>1. Accounted(c) <= Total(c) /\ Accounted(c) \in Int /\ Total(c) \in Int
    BY AccountTypes DEF Account, Accounted
  <2>2. CASE Accounted(c)' = Accounted(c)
    BY <1>1, <2>1, <2>2
  <2>3. CASE Accounted(c)' <= Accounted(c) /\ Accounted(c)' \in Int
    <3> HIDE DEF Accounted
    <3> QED BY <1>1, <2>1, <2>3
  <2> QED BY <2>2, <2>3
<1>3. ASSUME c \notin cut' PROVE Whole(c)'
  <2>1. Accounted(c)' = Total(c)'
    <3>1. c \notin cut /\ Accounted(c) = Total(c)
      BY <1>3 DEF Account, Whole
    <3> QED BY <1>1, <3>1
  <2> HIDE DEF Accounted
  <2>2. pc'[c] \notin {"new", "serving"} => task'[c] = "dead" /\ frames'[c] = <<>>
    BY <1>3
  <2>3. task'[c] # "cancelled"
    BY <1>3
  <2> QED BY <2>1, <2>2, <2>3 DEF Whole
<1> QED BY <1>1, <1>2, <1>3 DEF Account

-----------------------------------------------------------------------------
(* The greenlet of an acquisition *)

\* A new acquisition has all its frames to come.
LEMMA StartAccount ==
  ASSUME IInv, NEW c \in Conns, Account(c), StartAndReadAll(c)
  PROVE  Account(c)'
<1>1. Prepared \in Params
  BY PreparedType DEF IInv, TypeOK
<1>2. /\ pc[c] = "new" /\ pc'[c] = "serving" /\ task'[c] = "spawned"
      /\ params'[c] = Prepared
      /\ nb_frames_left'[c] = Prepared.nb_frames * Prepared.nb_cycles
      /\ nb_cycles_left'[c] = Prepared.nb_cycles
      /\ frames'[c] = frames[c] /\ sent'[c] = sent[c] /\ peer'[c] = peer[c] /\ cut' = cut
  BY DEF StartAndReadAll, IInv, TypeOK, netVars, history
<1>3. Prepared.nb_frames * Prepared.nb_cycles \in Nat
  BY <1>1 DEF Params
<1>4. frames[c] = <<>> /\ sent[c] = 0
  BY <1>2 DEF Account
<1>5. Total(c)' = Prepared.nb_frames * Prepared.nb_cycles
  BY <1>2 DEF Total
<1>6. ToProduce(c)' = nb_frames_left'[c] /\ Queued(c)' = 0
  BY <1>2, <1>4 DEF ToProduce, Queued
<1>7. Accounted(c)' = Total(c)'
  BY <1>2, <1>3, <1>4, <1>5, <1>6 DEF Accounted
<1>8. NoneEnds(c)' /\ StartsWhole(c)'
  BY <1>2, <1>4, <1>5 DEF NoneEnds, StartsWhole
<1> QED BY <1>2, <1>3, <1>5, <1>7, <1>8 DEF Account, Whole

\* The greenlet that runs for the first time counts the frames of one cycle.
LEMMA TaskStartAccount ==
  ASSUME IInv, NEW c \in Conns, Account(c), TaskStart(c)
  PROVE  Account(c)'
<1>1. /\ task[c] = "spawned" /\ task'[c] = "exposing"
      /\ nb_frames_left'[c] = params[c].nb_frames
      /\ UNCHANGED <<pc, params, nb_cycles_left, frames, sent, peer, cut>>
      /\ params[c].nb_frames \in Nat /\ params[c].nb_cycles \in Nat
  BY DEF TaskStart, IInv, TypeOK, Params, netVars, history
<1>2. /\ ToProduce(c) = Total(c) /\ nb_cycles_left[c] = params[c].nb_cycles
      /\ Queued(c)' = Queued(c) /\ NoneEnds(c)'
  BY <1>1 DEF Account, StartsWhole, ToProduce, Queued, NoneEnds
<1>3. ToProduce(c)' = params[c].nb_frames + (params[c].nb_cycles - 1) * params[c].nb_frames
  BY <1>1, <1>2 DEF ToProduce, Alive
<1>4. Accounted(c)' = Accounted(c)
  BY <1>1, <1>2, <1>3, CyclesAddUp DEF Total, Accounted
<1>5. pc[c] # "new"
  BY <1>1 DEF IInv, TaskStarted
<1> QED BY <1>1, <1>2, <1>4, <1>5, OwnAccount DEF Account, Whole

\* Going on after a frame neither makes nor loses one: what is left of the
\* cycle and the cycles after it is what the greenlet still produces.
LEMMA NextExposureAccount ==
  ASSUME IInv, NEW c \in Conns, NEW left \in Nat, NEW queue \in Seq(Items),
         NextExposure(c, left, queue), nb_cycles_left[c] >= 1,
         \A n \in 1..Len(queue) : queue[n] # "none",
         UNCHANGED <<pc, params, sent, peer, cut>>, Alive(c), Account(c),
         Accounted(c) =
           sent[c] + Len(queue) + (left + (nb_cycles_left[c] - 1) * params[c].nb_frames)
  PROVE  Account(c)'
<1>1. /\ params[c].nb_frames \in Nat /\ nb_cycles_left[c] \in Nat
      /\ sent[c] \in Nat /\ Len(queue) \in Nat
  BY LenProperties DEF IInv, TypeOK, Params
<1>2. /\ pc[c] # "new" /\ task[c] # "none"
      /\ c \notin cut => pc[c] = "serving"
  BY DEF Account, Whole, IInv, TaskStarted, Alive
<1>3. "none" \in Items
  BY DEF Items
<1>4. CASE left > 0
  <2>1. task'[c] = "exposing" /\ nb_frames_left'[c] = left /\ frames'[c] = queue
        /\ nb_cycles_left'[c] = nb_cycles_left[c]
    BY <1>4 DEF NextExposure, IInv, TypeOK
  <2>2. ToProduce(c)' = left + (nb_cycles_left[c] - 1) * params[c].nb_frames
    BY <2>1 DEF ToProduce, Alive
  <2>3. Queued(c)' = Len(queue)
    BY <2>1, <1>3, PutEntry DEF Queued, FramesIn
  <2>4. NoneEnds(c)'
    BY <2>1 DEF NoneEnds
  <2>5. Accounted(c)' = Accounted(c)
    BY <2>2, <2>3 DEF Accounted
  <2> QED BY <1>2, <2>1, <2>4, <2>5, OwnAccount
<1>5. CASE left = 0 /\ nb_cycles_left[c] > 1
  <2>1. task'[c] = "exposing" /\ nb_frames_left'[c] = params[c].nb_frames /\ frames'[c] = queue
        /\ nb_cycles_left'[c] = nb_cycles_left[c] - 1
    BY <1>5 DEF NextExposure, IInv, TypeOK
  <2>2. ToProduce(c)' = params[c].nb_frames + (nb_cycles_left[c] - 1 - 1) * params[c].nb_frames
    BY <2>1 DEF ToProduce, Alive
  <2>3. ToProduce(c)' = (nb_cycles_left[c] - 1) * params[c].nb_frames
    <3> DEFINE b == nb_cycles_left[c] - 1
    <3>1. b \in Nat
      BY <1>1, <1>5
    <3>2. params[c].nb_frames + (b - 1) * params[c].nb_frames = b * params[c].nb_frames
      BY <1>1, <3>1, CyclesAddUp
    <3> QED BY <2>2, <3>2
  <2>4. Queued(c)' = Len(queue)
    BY <2>1, <1>3, PutEntry DEF Queued, FramesIn
  <2>5. NoneEnds(c)'
    BY <2>1 DEF NoneEnds
  <2>6. Accounted(c) = sent[c] + Len(queue) + (nb_cycles_left[c] - 1) * params[c].nb_frames
    BY <1>1, <1>5
  <2>7. Accounted(c)' = Accounted(c)
    BY <2>3, <2>4, <2>6 DEF Accounted
  <2> QED BY <1>2, <2>1, <2>5, <2>7, OwnAccount
<1>6. CASE left = 0 /\ nb_cycles_left[c] = 1
  <2>1. task'[c] = "dead" /\ frames'[c] = Append(queue, "none")
    BY <1>6 DEF NextExposure, IInv, TypeOK
  <2>2. ToProduce(c)' = 0
    BY <2>1 DEF ToProduce, Alive
  <2>3. Queued(c)' = Len(queue) /\ NoneEnds(c)'
    BY <2>1, <1>3, PutEntry DEF Queued, FramesIn, NoneEnds
  <2>4. Accounted(c) = sent[c] + Len(queue)
    BY <1>1, <1>6
  <2>5. Accounted(c)' = Accounted(c)
    BY <1>1, <2>2, <2>3, <2>4 DEF Accounted
  <2> QED BY <1>2, <2>1, <2>3, <2>5, OwnAccount
<1> QED BY <1>1, <1>4, <1>5, <1>6

\* The frame that was exposed is queued: one less to produce.
LEMMA ExposeAccount ==
  ASSUME IInv, NEW c \in Conns, Account(c), Expose(c)
  PROVE  Account(c)'
<1> DEFINE queue == Append(frames[c], FrameEvents(c))
           left  == nb_frames_left[c] - 1
           rest  == (nb_cycles_left[c] - 1) * params[c].nb_frames
<1>1. /\ task[c] = "exposing" /\ UNCHANGED <<pc, params, sent, peer, cut>>
      /\ nb_cycles_left[c] >= 1 /\ nb_frames_left[c] >= 1
      /\ nb_cycles_left[c] \in Nat /\ nb_frames_left[c] \in Nat /\ sent[c] \in Nat
      /\ frames[c] \in Seq(Items) /\ params[c].nb_frames \in Nat
  BY DEF Expose, IInv, TypeOK, CountersPositive, netVars, history, Params
<1>2. FrameEvents(c) \in Items /\ FrameEvents(c) # "none"
  BY DEF FrameEvents, Items
<1>3. pc[c] # "new" /\ (c \notin cut => pc[c] = "serving")
  BY <1>1 DEF IInv, TaskStarted, Account, Whole
<1>4. \A n \in 1..Len(frames[c]) : frames[c][n] # "none"
  BY <1>1 DEF Account, NoneEnds
<1>5. /\ Queued(c) = Len(frames[c]) /\ FramesIn(queue) = Len(frames[c]) + 1
      /\ \A n \in 1..Len(queue) : queue[n] # "none"
  BY <1>1, <1>2, <1>4, PutEntry DEF Queued, FramesIn
<1>6. queue \in Seq(Items) /\ Len(queue) = Len(frames[c]) + 1 /\ Len(frames[c]) \in Nat
  BY <1>1, <1>2, AppendProperties, LenProperties
<1>7. Accounted(c) = sent[c] + Len(frames[c]) + (nb_frames_left[c] + rest)
  BY <1>1, <1>5 DEF Accounted, ToProduce, Alive
<1>8. left \in Nat /\ rest \in Int
  BY <1>1
<1>9. Accounted(c) = sent[c] + Len(queue) + (left + rest)
  <2>1. nb_frames_left[c] \in Int /\ Len(frames[c]) \in Int /\ sent[c] \in Int /\ rest \in Int
    BY <1>1, <1>6, <1>8
  <2>2. sent[c] + (Len(frames[c]) + 1) + ((nb_frames_left[c] - 1) + rest) = Accounted(c)
    <3> HIDE DEF rest
    <3> QED BY <2>1, <1>7, OneMoreQueued
  <2> QED BY <1>6, <2>2
<1>10. CASE /\ task' = [task EXCEPT ![c] = "resting"]
            /\ nb_frames_left' = [nb_frames_left EXCEPT ![c] = left]
            /\ frames' = [frames EXCEPT ![c] = queue]
            /\ UNCHANGED nb_cycles_left
  <2>1. /\ task'[c] = "resting" /\ nb_frames_left'[c] = left /\ frames'[c] = queue
        /\ nb_cycles_left'[c] = nb_cycles_left[c] /\ pc'[c] = pc[c]
    BY <1>1, <1>10 DEF IInv, TypeOK
  <2>2. ToProduce(c)' = left + rest
    BY <1>1, <2>1 DEF ToProduce, Alive
  <2>3. Queued(c)' = FramesIn(queue)
    BY <2>1 DEF Queued, FramesIn
  <2>4. Accounted(c)' = Accounted(c)
    BY <1>1, <1>5, <1>6, <1>9, <2>2, <2>3 DEF Accounted
  <2>5. NoneEnds(c)'
    BY <1>5, <2>1 DEF NoneEnds
  <2> HIDE DEF left, rest, queue
  <2> QED BY <1>1, <1>3, <2>1, <2>4, <2>5, OwnAccount
<1>11. CASE NextExposure(c, left, queue)
  BY <1>1, <1>5, <1>6, <1>8, <1>9, <1>11, NextExposureAccount DEF Alive
<1> QED BY <1>10, <1>11 DEF Expose

\* A dead time that is over changes nothing of the account.
LEMMA RestedAccount ==
  ASSUME IInv, NEW c \in Conns, Account(c), Rested(c)
  PROVE  Account(c)'
<1>1. /\ task[c] = "resting" /\ UNCHANGED <<pc, params, sent, peer, cut>>
      /\ nb_cycles_left[c] >= 1 /\ nb_frames_left[c] \in Nat /\ frames[c] \in Seq(Items)
      /\ NextExposure(c, nb_frames_left[c], frames[c])
  BY DEF Rested, IInv, TypeOK, CountersPositive, netVars, history
<1>2. \A n \in 1..Len(frames[c]) : frames[c][n] # "none"
  BY <1>1 DEF Account, NoneEnds
<1>3. Queued(c) = Len(frames[c])
  BY <1>1, <1>2, PutEntry DEF Queued, FramesIn, Items
<1>4. Accounted(c) = sent[c] + Len(frames[c])
        + (nb_frames_left[c] + (nb_cycles_left[c] - 1) * params[c].nb_frames)
  BY <1>1, <1>3 DEF Accounted, ToProduce, Alive
<1> QED BY <1>1, <1>2, <1>4, NextExposureAccount DEF Alive

-----------------------------------------------------------------------------
(* The handler of a connection *)

\* Taking a frame out of the queue, up to the next wait: the handler leaves the
\* loop only when it finds the None of a greenlet that is dead.
LEMMA FrameTaken ==
  ASSUME IInv, NEW c \in Conns, Account(c), FrameReady(c), NextFrames(c, Tail(frames[c]))
  PROVE  /\ task'[c] = task[c] /\ task[c] \notin {"none", "spawned"}
         /\ pc'[c] # "new" /\ cut \subseteq cut' /\ NoneEnds(c)'
         /\ Queued(c) \in Int /\ Queued(c)' = Queued(c) - 1
         /\ pc'[c] # "serving" => task[c] = "dead" /\ frames'[c] = <<>>
<1>1. /\ pc[c] = "serving" /\ frames[c] \in Seq(Items) /\ frames[c] # <<>>
      /\ Head(frames[c]) # "none" /\ Tail(frames[c]) \in Seq(Items)
  BY TakeEntry DEF FrameReady, IInv, TypeOK
<1>2. NextFramesFx(c, Tail(frames[c])) /\ pc'[c] # "new"
  BY <1>1, NextFramesEffect DEF IInv, NextFramesFx
<1>3. task[c] \notin {"none", "spawned"}
  BY <1>1 DEF IInv, TaskStarted, Account, StartsWhole
<1>4. /\ FramesIn(Tail(frames[c])) = FramesIn(frames[c]) - 1
      /\ FramesIn(frames[c]) \in Int /\ FramesIn(<<"none">>) = 0 /\ FramesIn(<<>>) = 0
  BY SMTT(30), <1>1, TakeFrame, LenProperties DEF FramesIn
<1>5. Queued(c) = FramesIn(frames[c])
  BY DEF Queued, FramesIn
<1>6. CASE Tail(frames[c]) # <<"none">>
  <2>1. /\ frames'[c] = Tail(frames[c])
        /\ UNCHANGED <<acquisition, run_status, pc, victim, task, cut>>
    BY <1>1, <1>6 DEF NextFrames, IInv, TypeOK
  <2>2. Queued(c)' = FramesIn(Tail(frames[c]))
    BY <2>1 DEF Queued, FramesIn
  <2>3. NoneEnds(c)'
    <3>1. Len(frames'[c]) = Len(frames[c]) - 1 /\ Len(frames[c]) \in Nat
      BY <1>1, <2>1, HeadTailProperties, LenProperties
    <3>2. \A n \in 1..Len(frames'[c]) : frames'[c][n] = frames[c][n + 1]
      BY <1>1, <2>1, HeadTailProperties
    <3> QED BY <2>1, <3>1, <3>2 DEF NoneEnds, Account
  <2> QED BY <1>1, <1>3, <1>4, <1>5, <2>1, <2>2, <2>3
<1>7. CASE Tail(frames[c]) = <<"none">>
  <2>1. Finally(c) /\ frames'[c] = <<>>
    BY <1>1, <1>7 DEF NextFrames, IInv, TypeOK
  <2>2. FinallyCuts(c)
    BY <2>1, FinallyCutsLemma DEF IInv
  <2>3. task[c] = "dead"
    <3>1. Len(Tail(frames[c])) = 1 /\ Tail(frames[c])[1] = "none"
      <4>1. Len(<<"none">>) = 1 /\ <<"none">>[1] = "none"
        OBVIOUS
      <4> QED BY <1>7, <4>1, Zenon
    <3>2. Len(frames[c]) = 2
      BY <1>1, <3>1, HeadTailProperties, LenProperties
    <3>3. frames[c][2] = "none"
      BY <1>1, <1>7, <3>1, <3>2, TailKeepsLast
    <3> QED BY <3>2, <3>3 DEF Account, NoneEnds
  <2>4. Queued(c)' = 0 /\ NoneEnds(c)'
    BY <2>1 DEF Queued, NoneEnds
  <2>5. Queued(c)' = Queued(c) - 1
    <3>1. FramesIn(frames[c]) - 1 = 0
      BY <1>4, <1>7
    <3> QED BY <1>5, <2>4, <3>1
  <2> QED BY <1>2, <1>3, <1>4, <1>5, <2>1, <2>2, <2>3, <2>4, <2>5 DEF FinallyCuts
<1> QED BY <1>6, <1>7

\* A frame moves from the queue to the client.
LEMMA WriteAccount ==
  ASSUME IInv, NEW c \in Conns, Account(c), WriteFrames(c)
  PROVE  Account(c)'
<1>1. /\ FrameReady(c) /\ NextFrames(c, Tail(frames[c]))
      /\ UNCHANGED <<params, nb_frames_left, nb_cycles_left, peer>>
      /\ sent[c] \in Nat /\ sent'[c] = sent[c] + 1
  BY DEF WriteFrames, IInv, TypeOK
<1>2. /\ task'[c] = task[c] /\ task[c] \notin {"none", "spawned"}
      /\ pc'[c] # "new" /\ cut \subseteq cut' /\ NoneEnds(c)'
      /\ Queued(c) \in Int /\ Queued(c)' = Queued(c) - 1
      /\ pc'[c] # "serving" => task[c] = "dead" /\ frames'[c] = <<>>
  BY <1>1, FrameTaken
<1>3. ToProduce(c)' = ToProduce(c) /\ ToProduce(c) \in Int
  BY <1>1, <1>2, AccountTypes DEF ToProduce, Alive
<1>4. Accounted(c)' = Accounted(c)
  BY <1>1, <1>2, <1>3 DEF Accounted
<1>5. c \notin cut' => task'[c] # "cancelled"
  BY <1>2 DEF Account, Whole
<1> QED BY <1>1, <1>2, <1>4, <1>5, OwnAccount

\* A frame of a client that has gone is lost; the loss of the client has cut
\* the acquisition already.
LEMMA LostAccount ==
  ASSUME IInv, NEW c \in Conns, Account(c), LoseFrames(c) \/ WriteFails(c)
  PROVE  Account(c)'
<1>1. /\ FrameReady(c) /\ peer[c] = "closed" /\ c \in cut
      /\ UNCHANGED <<params, nb_frames_left, nb_cycles_left, peer, sent>>
      /\ sent[c] \in Nat
  BY DEF LoseFrames, WriteFails, FrameReady, IInv, TypeOK, Account, netVars
<1>2. CASE LoseFrames(c)
  <2>1. /\ task'[c] = task[c] /\ task[c] \notin {"none", "spawned"}
        /\ pc'[c] # "new" /\ cut \subseteq cut' /\ NoneEnds(c)'
        /\ Queued(c) \in Int /\ Queued(c)' = Queued(c) - 1
    BY <1>1, <1>2, FrameTaken DEF LoseFrames
  <2>2. ToProduce(c)' = ToProduce(c) /\ ToProduce(c) \in Int
    BY <1>1, <2>1, AccountTypes DEF ToProduce, Alive
  <2>3. Accounted(c)' <= Accounted(c) /\ Accounted(c)' \in Int
    BY <1>1, <2>1, <2>2 DEF Accounted
  <2> HIDE DEF Accounted
  <2> QED BY <1>1, <2>1, <2>3, OwnAccount
<1>3. CASE WriteFails(c)
  <2>1. pc[c] = "serving" /\ frames[c] # <<>> /\ Finally(c) /\ frames' = frames
    BY <1>3 DEF WriteFails, FrameReady
  <2>2. FinallyCuts(c) /\ pc'[c] # "new"
    BY <2>1, FinallyEffect, FinallyCutsLemma DEF IInv, FinallyFx
  <2>3. task[c] \notin {"none", "spawned"} /\ task'[c] = task[c]
    BY <2>1, <2>2 DEF IInv, TaskStarted, Account, StartsWhole, FinallyCuts
  <2>4. Accounted(c)' = Accounted(c) /\ NoneEnds(c)'
    BY <1>1, <2>1, <2>3 DEF Accounted, Queued, ToProduce, Alive, Account, NoneEnds
  <2> QED BY <1>1, <2>2, <2>3, <2>4, OwnAccount DEF FinallyCuts
<1> QED BY <1>2, <1>3

\* The None is the end of an account: its greenlet is dead.
LEMMA EndAccount ==
  ASSUME IInv, NEW c \in Conns, Account(c), EndOfFrames(c)
  PROVE  Account(c)'
<1>1. /\ pc[c] = "serving" /\ frames[c] = <<"none">> /\ frames'[c] = <<>> /\ Finally(c)
      /\ UNCHANGED <<params, nb_frames_left, nb_cycles_left, peer, sent>>
  BY DEF EndOfFrames, IInv, TypeOK, netVars
<1>2. FinallyCuts(c) /\ pc'[c] # "new"
  BY <1>1, FinallyEffect, FinallyCutsLemma DEF IInv, FinallyFx
<1>3. task[c] = "dead" /\ task'[c] = "dead"
  BY <1>1, <1>2 DEF FinallyCuts, Account, NoneEnds
<1>4. Accounted(c)' = Accounted(c) /\ NoneEnds(c)'
  BY <1>1, <1>3 DEF Accounted, Queued, ToProduce, Alive, NoneEnds
<1> QED BY <1>1, <1>2, <1>3, <1>4, OwnAccount DEF FinallyCuts

-----------------------------------------------------------------------------
(* The accounts of all connections *)

\* A handler that has left the loop, a client and the steps of the others only
\* touch an account to end it.
LEMMA OthersKept ==
  ASSUME IInv, NEW c \in Conns, NEW e \in Conns, Account(e),
         \/ c # e /\ (StartAndReadAll(c) \/ TaskStep(c) \/ HandlerStep(c))
         \/ FinallyKilled(c) \/ CloseConn(c) \/ SendFail(c) \/ ClientStep(c)
  PROVE  Kept(e)
<1>0. TypeOK /\ (task[e] \in {"spawned", "exposing", "resting"} => pc[e] # "new")
  BY DEF IInv, TaskStarted
<1> USE <1>0 DEF TypeOK, Kept, detectorVars, taskVars, netVars, history
<1>1. CASE c # e /\ StartAndReadAll(c)
  BY <1>1 DEF StartAndReadAll
<1>2. CASE c # e /\ TaskStart(c)
  BY <1>2 DEF TaskStart
<1>3. CASE c # e /\ Expose(c)
  BY <1>3 DEF Expose, NextExposure
<1>4. CASE c # e /\ Rested(c)
  BY <1>4 DEF Rested, NextExposure
<1>5. CASE c # e /\ (WriteFrames(c) \/ LoseFrames(c) \/ WriteFails(c) \/ EndOfFrames(c))
  <2>1. Finally(c) \/ UNCHANGED <<acquisition, run_status, pc, victim, task, cut>>
    BY <1>5 DEF WriteFrames, LoseFrames, WriteFails, EndOfFrames, NextFrames
  <2>2. /\ pc'[e] = pc[e] /\ (e \in cut => e \in cut')
        /\ \/ task'[e] = task[e]
           \/ e \in cut' /\ pc[e] # "new" /\ task[e] = "spawned" /\ task'[e] = "cancelled"
    <3>1. CASE Finally(c)
      <4>1. FinallyFx(c) /\ FinallyCuts(c)
        BY <3>1, FinallyEffect, FinallyCutsLemma
      <4>2. pc'[e] = pc[e]
        BY <1>5, <4>1 DEF FinallyFx
      <4> QED BY <1>0, <4>1, <4>2 DEF FinallyCuts
    <3>2. CASE UNCHANGED <<acquisition, run_status, pc, victim, task, cut>>
      BY <3>2
    <3> QED BY <2>1, <3>1, <3>2
  <2>3. frames'[e] = frames[e]
    BY <1>5 DEF WriteFrames, LoseFrames, WriteFails, EndOfFrames, NextFrames
  <2>4. /\ params'[e] = params[e] /\ sent'[e] = sent[e] /\ peer'[e] = peer[e]
        /\ nb_frames_left'[e] = nb_frames_left[e] /\ nb_cycles_left'[e] = nb_cycles_left[e]
    BY <1>5 DEF WriteFrames, LoseFrames, WriteFails, EndOfFrames
  <2> QED BY <2>2, <2>3, <2>4
<1>6. CASE FinallyKilled(c)
  <2>1. KillCuts
    BY <1>6, KillLandsCuts DEF FinallyKilled, IInv, VictimKnown
  <2>2. pc'[e] = pc[e] \/ {pc[e], pc'[e]} \cap {"new", "serving"} = {}
    BY <1>6 DEF FinallyKilled, Release
  <2> QED BY <1>6, <2>1, <2>2 DEF FinallyKilled, KillCuts, Alive
<1>7. CASE CloseConn(c) \/ SendFail(c)
  BY <1>7 DEF CloseConn, SendFail
<1>8. CASE ClientReads(c) \/ ClientCloses(c)
  BY <1>8 DEF ClientReads, ClientCloses
<1> QED BY <1>1, <1>2, <1>3, <1>4, <1>5, <1>6, <1>7, <1>8 DEF TaskStep, HandlerStep, ClientStep

\* So does every step but those of its own request, greenlet and writes.
LEMMA StepKeeps ==
  ASSUME IInv, [Next]_vars, NEW e \in Conns, Account(e),
         ~StartAndReadAll(e), ~TaskStep(e),
         ~(WriteFrames(e) \/ LoseFrames(e) \/ WriteFails(e) \/ EndOfFrames(e))
  PROVE  Kept(e)
<1>0. TypeOK /\ (task[e] \in {"spawned", "exposing", "resting"} => pc[e] # "new")
  BY DEF IInv, TaskStarted
<1>1. CASE SetTimer \/ UNCHANGED vars
  BY <1>1 DEF SetTimer, vars, Kept, detectorVars, taskVars, netVars, history
<1>2. ASSUME NEW c \in Conns,
             \/ c # e /\ (StartAndReadAll(c) \/ TaskStep(c) \/ HandlerStep(c))
             \/ FinallyKilled(c) \/ CloseConn(c) \/ SendFail(c) \/ ClientStep(c)
      PROVE  Kept(e)
  BY <1>0, <1>2, OthersKept
<1>3. ASSUME NEW s \in Stops, StopAcquisition(s) PROVE Kept(e)
  BY <1>0, <1>3 DEF StopAcquisition, KillReturns, KillBlocks, TypeOK, Kept, detectorVars, netVars
<1>4. ASSUME NEW s \in Stops, StopKilled(s) PROVE Kept(e)
  <2>1. KillCuts
    BY <1>4, KillLandsCuts DEF StopKilled, IInv, VictimKnown
  <2> QED BY <1>0, <1>4, <2>1 DEF StopKilled, KillCuts, Alive, Kept, detectorVars, netVars
<1> QED BY <1>1, <1>2, <1>3, <1>4 DEF Next, HandlerStep

\* The accounts of all connections are kept by every step.
LEMMA AccountsNext == IInv /\ Accounts /\ [Next]_vars => Accounts'
<1> SUFFICES ASSUME IInv, Accounts, [Next]_vars, NEW e \in Conns PROVE Account(e)'
  BY DEF Accounts
<1>0. Account(e)
  BY DEF Accounts
<1>1. CASE StartAndReadAll(e)
  BY <1>0, <1>1, StartAccount
<1>2. CASE TaskStep(e)
  BY <1>0, <1>2, TaskStartAccount, ExposeAccount, RestedAccount DEF TaskStep
<1>3. CASE WriteFrames(e) \/ LoseFrames(e) \/ WriteFails(e) \/ EndOfFrames(e)
  BY <1>0, <1>3, WriteAccount, LostAccount, EndAccount
<1>4. ASSUME ~StartAndReadAll(e), ~TaskStep(e),
             ~(WriteFrames(e) \/ LoseFrames(e) \/ WriteFails(e) \/ EndOfFrames(e))
      PROVE  Account(e)'
  BY <1>0, <1>4, StepKeeps, KeptAccount
<1> QED BY <1>1, <1>2, <1>3, <1>4

\* No acquisition has started.
LEMMA AccountsInit == Init => Accounts
<1> SUFFICES ASSUME Init, NEW c \in Conns PROVE Account(c)
  BY DEF Accounts
<1>1. frames[c] = <<>> /\ Len(frames[c]) = 0
  BY DEF Init
<1>2. task[c] = "none" /\ pc[c] = "new" /\ peer[c] = "open" /\ sent[c] = 0
  BY DEF Init
<1> QED BY <1>1, <1>2 DEF Account, Whole, NoneEnds, StartsWhole

\* The accounts are right in every behaviour of the simulator.
LEMMA AccountsHold == Spec => [](IInv /\ Accounts)
<1>1. IInv /\ Accounts /\ [Next]_vars => IInv' /\ Accounts'
  BY NextInv, AccountsNext
<1> QED BY <1>1, InitInv, AccountsInit, PTL DEF Spec

-----------------------------------------------------------------------------
(* The theorems *)

\* Conservation: of the frames asked for when an acquisition was prepared, each
\* is sent, queued or still to come, exactly once, unless the acquisition is cut.
THEOREM AccountingCorrect == Spec => []FrameAccounting
<1>1. Accounts => FrameAccounting
  BY DEF Accounts, Account, Whole, Accounted, FrameAccounting
<1> QED BY <1>1, AccountsHold, PTL

\* An acquisition that nobody cut short has sent every frame of every cycle when
\* its handler is past the loop.
THEOREM CompleteCorrect == Spec => []CompleteUnlessCut
<1>1. IInv /\ Accounts => CompleteUnlessCut
  <2> SUFFICES ASSUME IInv, Accounts, NEW c \in Conns,
                      pc[c] \in {"failing", "closing", "done"}, c \notin cut
               PROVE  sent[c] = Total(c)
    BY DEF CompleteUnlessCut
  <2>1. Whole(c) /\ task[c] = "dead" /\ frames[c] = <<>> /\ sent[c] \in Nat
    BY DEF Accounts, Account, Whole, IInv, TypeOK
  <2>2. ToProduce(c) = 0 /\ Queued(c) = 0
    BY <2>1 DEF ToProduce, Queued, Alive
  <2>3. sent[c] + Queued(c) + ToProduce(c) = Total(c)
    BY <2>1 DEF Whole, Accounted
  <2> QED BY <2>1, <2>2, <2>3
<1> QED BY <1>1, AccountsHold, PTL

-----------------------------------------------------------------------------
(* Which frames carry FINISHED: the last one of each cycle *)

\* The entries of the queue of c are in the order of their cycle.
EntriesInOrder(c) ==
  \A i \in 1..Len(frames[c]) :
    frames[c][i] # "none"
      => (frames[c][i] = "last" <=> (sent[c] + i) % params[c].nb_frames = 0)

\* A running greenlet counts down to the end of the cycle.
CountsDown(c) ==
  Alive(c) => /\ nb_frames_left[c] <= params[c].nb_frames
              /\ (sent[c] + Len(frames[c]) + nb_frames_left[c]) % params[c].nb_frames = 0

\* While the client is there nothing of a cycle is lost.
InCycle(c) == peer[c] = "open" => EntriesInOrder(c) /\ CountsDown(c)

CyclesInOrder == \A c \in Conns : InCycle(c)

-----------------------------------------------------------------------------
(* Multiples of the length of a cycle *)

\* A number without remainder has a factor.
LEMMA Factor ==
  ASSUME NEW n \in Nat \ {0}, NEW a \in Nat, a % n = 0
  PROVE  \E q \in Nat : a = n * q
OBVIOUS

\* A multiple has no remainder.
LEMMA Multiple ==
  ASSUME NEW n \in Nat \ {0}, NEW q \in Nat
  PROVE  (n * q) % n = 0
OBVIOUS

\* Two multiples of n that are less than n apart are equal.
LEMMA MultiplesApart ==
  ASSUME NEW n \in Nat \ {0}, NEW q \in Nat, NEW p \in Nat, NEW d \in Nat, d < n,
         n * q = n * p + d
  PROVE  d = 0
OBVIOUS

\* The frame after a cycle begins another one.
LEMMA NextCycle ==
  ASSUME NEW n \in Nat \ {0}, NEW a \in Nat, a % n = 0
  PROVE  (a + n) % n = 0
<1>1. PICK q \in Nat : a = n * q
  BY Factor
<1>2. a + n = n * (q + 1) /\ q + 1 \in Nat
  BY <1>1
<1> QED BY <1>2, Multiple

\* With left frames to go to the end of a cycle, the next one is the last one
\* of the cycle when left is 1.
LEMMA LastOfCycle ==
  ASSUME NEW n \in Nat \ {0}, NEW p \in Nat, NEW left \in Nat, left >= 1, left <= n,
         (p + left) % n = 0
  PROVE  (p + 1) % n = 0 <=> left = 1
<1>1. ASSUME (p + 1) % n = 0 PROVE left = 1
  <2>1. PICK q \in Nat : p + left = n * q
    BY Factor
  <2>2. PICK r \in Nat : p + 1 = n * r
    BY <1>1, Factor
  <2>3. left - 1 \in Nat /\ left - 1 < n /\ n * q = n * r + (left - 1)
    BY <2>1, <2>2
  <2>4. left - 1 = 0
    BY <2>3, MultiplesApart
  <2> QED BY <2>4
<1> QED BY <1>1

-----------------------------------------------------------------------------
(* The steps of a connection's greenlets *)

\* What the steps of others leave of it keeps a queue in its cycle.
LEMMA KeptInCycle ==
  ASSUME IInv, NEW e \in Conns, Account(e), InCycle(e), Kept(e)
  PROVE  InCycle(e)'
<1>1. CASE peer'[e] = "closed" /\ e \in cut'
  BY <1>1 DEF InCycle
<1>2. CASE peer'[e] = peer[e] /\ task'[e] = task[e] /\ frames'[e] = frames[e]
  BY <1>2 DEF Kept, InCycle, EntriesInOrder, CountsDown, Alive
<1>3. CASE peer'[e] = peer[e] /\ task'[e] = "cancelled" /\ frames'[e] = frames[e]
  BY <1>3 DEF Kept, InCycle, EntriesInOrder, CountsDown, Alive
<1>4. CASE /\ peer'[e] = peer[e] /\ task'[e] = "dead"
           /\ frames'[e] = Append(frames[e], "none")
  <2>1. frames[e] \in Seq(Items)
    BY DEF IInv, TypeOK
  <2>2. /\ Len(frames'[e]) = Len(frames[e]) + 1 /\ Len(frames[e]) \in Nat
        /\ \A i \in 1..Len(frames[e]) : frames'[e][i] = frames[e][i]
        /\ frames'[e][Len(frames[e]) + 1] = "none"
    BY <1>4, <2>1, AppendProperties, LenProperties
  <2>3. EntriesInOrder(e) => EntriesInOrder(e)'
    BY SMTT(30), <2>2 DEF Kept, EntriesInOrder
  <2> QED BY <1>4, <2>3 DEF InCycle, CountsDown, Alive
<1> QED BY <1>1, <1>2, <1>3, <1>4 DEF Kept

\* A greenlet that runs for the first time is at the start of a cycle.
LEMMA TaskStartInCycle ==
  ASSUME IInv, NEW c \in Conns, Account(c), InCycle(c), TaskStart(c)
  PROVE  InCycle(c)'
<1>1. /\ task[c] = "spawned" /\ task'[c] = "exposing"
      /\ nb_frames_left'[c] = params[c].nb_frames
      /\ UNCHANGED <<params, frames, sent, peer>>
      /\ params[c].nb_frames \in Nat \ {0} /\ sent[c] \in Nat
  BY DEF TaskStart, IInv, TypeOK, Params, netVars, history
<1>2. frames[c] = <<>> /\ ToProduce(c) = Total(c) /\ Accounted(c) <= Total(c)
  BY <1>1 DEF Account, StartsWhole, ToProduce
<1>3. sent[c] = 0 /\ Len(frames[c]) = 0
  <2>1. Queued(c) = 0 /\ Len(frames[c]) = 0
    BY <1>2 DEF Queued
  <2>2. sent[c] + 0 + Total(c) <= Total(c)
    BY <1>2, <2>1 DEF Accounted
  <2> QED BY <1>1, <2>1, <2>2, AccountTypes
<1>4. params[c].nb_frames % params[c].nb_frames = 0
  BY <1>1
<1>5. CountsDown(c)'
  BY <1>1, <1>3, <1>4 DEF CountsDown
<1>6. EntriesInOrder(c)'
  BY <1>1, <1>3 DEF EntriesInOrder
<1> QED BY <1>5, <1>6 DEF InCycle

\* What follows a frame begins the next cycle at the end of one.
LEMMA NextExposureInCycle ==
  ASSUME IInv, NEW c \in Conns, NEW left \in Nat, NEW queue \in Seq(Items),
         NextExposure(c, left, queue), UNCHANGED <<params, sent>>,
         left <= params[c].nb_frames,
         (sent[c] + Len(queue) + left) % params[c].nb_frames = 0,
         \A i \in 1..Len(queue) :
           queue[i] # "none" => (queue[i] = "last" <=> (sent[c] + i) % params[c].nb_frames = 0)
  PROVE  EntriesInOrder(c)' /\ CountsDown(c)'
<1>1. params[c].nb_frames \in Nat \ {0} /\ sent[c] \in Nat /\ Len(queue) \in Nat
  BY LenProperties DEF IInv, TypeOK, Params
<1>2. CASE task'[c] = "exposing" /\ nb_frames_left'[c] = left /\ frames'[c] = queue
  BY <1>2 DEF EntriesInOrder, CountsDown
<1>3. CASE /\ task'[c] = "exposing" /\ nb_frames_left'[c] = params[c].nb_frames
           /\ frames'[c] = queue /\ left = 0
  <2>1. (sent[c] + Len(queue) + params[c].nb_frames) % params[c].nb_frames = 0
    <3> DEFINE a == sent[c] + Len(queue)
               n == params[c].nb_frames
    <3>1. a \in Nat /\ a % n = 0 /\ n \in Nat \ {0}
      <4>1. a \in Nat /\ a + left = a
        BY <1>1, <1>3
      <4> QED BY <1>1, <4>1
    <3>2. (a + n) % n = 0
      <4> HIDE DEF a, n
      <4> QED BY <3>1, NextCycle
    <3> QED BY <3>2
  <2> QED BY <1>1, <1>3, <2>1 DEF EntriesInOrder, CountsDown
<1>4. CASE task'[c] = "dead" /\ frames'[c] = Append(queue, "none")
  <2>1. /\ Len(frames'[c]) = Len(queue) + 1
        /\ \A i \in 1..Len(queue) : frames'[c][i] = queue[i]
        /\ frames'[c][Len(queue) + 1] = "none"
    BY <1>4, AppendProperties
  <2>2. CountsDown(c)'
    BY <1>4 DEF CountsDown, Alive
  <2>3. ASSUME NEW i \in 1..Len(frames'[c]), frames'[c][i] # "none"
        PROVE  frames'[c][i] = "last" <=> (sent[c] + i) % params[c].nb_frames = 0
    <3>1. i \in 1..Len(queue) /\ frames'[c][i] = queue[i]
      BY <1>1, <2>1, <2>3
    <3> QED BY <2>3, <3>1
  <2>4. EntriesInOrder(c)'
    BY <2>3 DEF EntriesInOrder
  <2> QED BY <2>2, <2>4
<1> QED BY <1>2, <1>3, <1>4 DEF NextExposure, IInv, TypeOK

\* The frame that was exposed is the last one of its cycle when it says so.
LEMMA ExposeInCycle ==
  ASSUME IInv, NEW c \in Conns, InCycle(c), Expose(c)
  PROVE  InCycle(c)'
<1> SUFFICES ASSUME peer'[c] = "open" PROVE EntriesInOrder(c)' /\ CountsDown(c)'
  BY DEF InCycle
<1> DEFINE queue == Append(frames[c], FrameEvents(c))
           left  == nb_frames_left[c] - 1
           n     == params[c].nb_frames
<1>1. /\ task[c] = "exposing" /\ UNCHANGED <<params, sent, peer>>
      /\ nb_frames_left[c] >= 1 /\ nb_frames_left[c] \in Nat /\ sent[c] \in Nat
      /\ frames[c] \in Seq(Items) /\ n \in Nat \ {0}
  BY DEF Expose, IInv, TypeOK, CountersPositive, netVars, history, Params
<1>2. /\ EntriesInOrder(c) /\ nb_frames_left[c] <= n
      /\ (sent[c] + Len(frames[c]) + nb_frames_left[c]) % n = 0
  BY <1>1 DEF InCycle, CountsDown, Alive
<1>3. FrameEvents(c) \in Items /\ Len(frames[c]) \in Nat
  BY <1>1, LenProperties DEF FrameEvents, Items
<1>4. /\ queue \in Seq(Items) /\ Len(queue) = Len(frames[c]) + 1
      /\ queue[Len(frames[c]) + 1] = FrameEvents(c)
      /\ \A i \in 1..Len(frames[c]) : queue[i] = frames[c][i]
  BY <1>1, <1>3, AppendProperties
<1>5. left \in Nat /\ left <= n /\ (sent[c] + Len(queue) + left) % n = 0
  <2>1. sent[c] + Len(queue) + left = sent[c] + Len(frames[c]) + nb_frames_left[c]
    BY <1>1, <1>3, <1>4
  <2>2. left \in Nat /\ left <= n
    BY <1>1, <1>2
  <2>3. (sent[c] + Len(queue) + left) % n = 0
    <3> HIDE DEF queue, left, n
    <3> QED BY <1>2, <2>1
  <2> QED BY <2>2, <2>3
<1>6. FrameEvents(c) = "last" <=> (sent[c] + (Len(frames[c]) + 1)) % n = 0
  <2> DEFINE p == sent[c] + Len(frames[c])
  <2>1. p \in Nat /\ p + 1 = sent[c] + (Len(frames[c]) + 1)
    BY <1>1, <1>3
  <2>2. (p + 1) % n = 0 <=> nb_frames_left[c] = 1
    <3> HIDE DEF p, n
    <3> QED BY <1>1, <1>2, <2>1, LastOfCycle DEF p
  <2> QED BY <2>1, <2>2 DEF FrameEvents
<1>7. \A i \in 1..Len(queue) :
        queue[i] # "none" => (queue[i] = "last" <=> (sent[c] + i) % n = 0)
  <2> SUFFICES ASSUME NEW i \in 1..Len(queue), queue[i] # "none"
               PROVE  queue[i] = "last" <=> (sent[c] + i) % n = 0
    OBVIOUS
  <2>1. CASE i = Len(frames[c]) + 1
    BY <1>4, <1>6, <2>1
  <2>2. CASE i # Len(frames[c]) + 1
    <3>1. i \in 1..Len(frames[c])
      BY <1>3, <1>4, <2>2
    <3> QED BY <1>2, <1>4, <3>1 DEF EntriesInOrder
  <2> QED BY <2>1, <2>2
<1> HIDE DEF queue, left, n
<1>8. CASE /\ task' = [task EXCEPT ![c] = "resting"]
           /\ nb_frames_left' = [nb_frames_left EXCEPT ![c] = left]
           /\ frames' = [frames EXCEPT ![c] = queue]
  <2>1. nb_frames_left'[c] = left /\ frames'[c] = queue
    BY <1>8 DEF IInv, TypeOK
  <2> QED BY <1>1, <1>5, <1>7, <2>1 DEF EntriesInOrder, CountsDown, n
<1>9. CASE NextExposure(c, left, queue)
  BY <1>1, <1>4, <1>5, <1>7, <1>9, NextExposureInCycle DEF n
<1> QED BY <1>8, <1>9 DEF Expose, queue, left

\* So does the end of a dead time.
LEMMA RestedInCycle ==
  ASSUME IInv, NEW c \in Conns, InCycle(c), Rested(c)
  PROVE  InCycle(c)'
<1> SUFFICES ASSUME peer'[c] = "open" PROVE EntriesInOrder(c)' /\ CountsDown(c)'
  BY DEF InCycle
<1>1. /\ Alive(c) /\ UNCHANGED <<params, sent, peer>>
      /\ nb_frames_left[c] \in Nat /\ frames[c] \in Seq(Items)
      /\ NextExposure(c, nb_frames_left[c], frames[c])
  BY DEF Rested, IInv, TypeOK, Alive, netVars, history
<1>2. EntriesInOrder(c) /\ CountsDown(c)
  BY <1>1 DEF InCycle
<1> QED BY <1>1, <1>2, NextExposureInCycle DEF EntriesInOrder, CountsDown

\* A frame that is written is counted, and those behind it move up.
LEMMA WriteInCycle ==
  ASSUME IInv, NEW c \in Conns, Account(c), InCycle(c), WriteFrames(c)
  PROVE  /\ InCycle(c)'
         /\ Head(frames[c]) = "last" <=> sent'[c] % params[c].nb_frames = 0
<1>1. /\ FrameReady(c) /\ NextFrames(c, Tail(frames[c])) /\ peer[c] = "open"
      /\ UNCHANGED <<params, nb_frames_left, peer>>
      /\ frames[c] \in Seq(Items) /\ frames[c] # <<>> /\ Head(frames[c]) # "none"
      /\ sent[c] \in Nat /\ sent'[c] = sent[c] + 1
  BY DEF WriteFrames, FrameReady, IInv, TypeOK
<1>2. EntriesInOrder(c) /\ CountsDown(c)
  BY <1>1 DEF InCycle
<1>3. /\ Len(frames[c]) \in Nat /\ Len(frames[c]) >= 1
      /\ frames[c][1] = Head(frames[c])
      /\ Len(Tail(frames[c])) = Len(frames[c]) - 1
      /\ \A i \in 1..Len(Tail(frames[c])) : Tail(frames[c])[i] = frames[c][i + 1]
  BY <1>1, EmptySeq, HeadTailProperties, LenProperties
<1>4. Head(frames[c]) = "last" <=> sent'[c] % params[c].nb_frames = 0
  BY <1>1, <1>2, <1>3 DEF EntriesInOrder
<1>5. /\ task'[c] = task[c]
      /\ pc'[c] # "serving" => task[c] = "dead" /\ frames'[c] = <<>>
  BY <1>1, FrameTaken
<1>6. CASE frames'[c] = Tail(frames[c])
  <2>1. EntriesInOrder(c)'
    <3> SUFFICES ASSUME NEW i \in 1..Len(frames'[c]), frames'[c][i] # "none"
                 PROVE  frames'[c][i] = "last" <=> (sent'[c] + i) % params[c].nb_frames = 0
      BY <1>1 DEF EntriesInOrder
    <3>1. i + 1 \in 1..Len(frames[c]) /\ frames'[c][i] = frames[c][i + 1]
      BY <1>3, <1>6
    <3>2. sent'[c] + i = sent[c] + (i + 1)
      BY <1>1
    <3> QED BY <1>2, <3>1, <3>2 DEF EntriesInOrder
  <2>2. CountsDown(c)'
    <3>1. sent'[c] + Len(frames'[c]) + nb_frames_left'[c]
            = sent[c] + Len(frames[c]) + nb_frames_left[c]
      BY <1>1, <1>3, <1>6 DEF IInv, TypeOK
    <3> QED BY <1>1, <1>2, <1>5, <3>1 DEF CountsDown, Alive
  <2> QED BY <1>4, <2>1, <2>2 DEF InCycle
<1>7. CASE Tail(frames[c]) = <<"none">> /\ Finally(c) /\ frames'[c] = <<>>
  <2>1. pc'[c] # "serving"
    BY <1>7, FinallyEffect DEF FinallyFx, IInv
  <2> QED BY <1>4, <1>5, <1>7, <2>1 DEF InCycle, EntriesInOrder, CountsDown, Alive
<1> QED BY <1>1, <1>6, <1>7 DEF NextFrames, IInv, TypeOK

-----------------------------------------------------------------------------
(* All connections *)

\* Every step keeps every queue in its cycle.
LEMMA CyclesNext == IInv /\ Accounts /\ CyclesInOrder /\ [Next]_vars => CyclesInOrder'
<1> SUFFICES ASSUME IInv, Accounts, CyclesInOrder, [Next]_vars, NEW e \in Conns PROVE InCycle(e)'
  BY DEF CyclesInOrder
<1>0. Account(e) /\ InCycle(e)
  BY DEF Accounts, CyclesInOrder
<1>1. CASE StartAndReadAll(e)
  <2>1. pc[e] = "new" /\ frames[e] = <<>> /\ frames'[e] = <<>> /\ task'[e] = "spawned"
    BY <1>0, <1>1 DEF StartAndReadAll, Account, IInv, TypeOK
  <2> QED BY <2>1 DEF InCycle, EntriesInOrder, CountsDown, Alive
<1>2. CASE TaskStep(e)
  BY <1>0, <1>2, TaskStartInCycle, ExposeInCycle, RestedInCycle DEF TaskStep
<1>3. CASE WriteFrames(e)
  BY <1>0, <1>3, WriteInCycle
<1>4. CASE LoseFrames(e) \/ WriteFails(e)
  <2>1. peer'[e] = "closed"
    BY <1>4 DEF LoseFrames, WriteFails, netVars
  <2> QED BY <2>1 DEF InCycle
<1>5. CASE EndOfFrames(e)
  <2>1. frames[e] = <<"none">> /\ frames'[e] = <<>> /\ Finally(e) /\ sent' = sent
    BY <1>5 DEF EndOfFrames, IInv, TypeOK
  <2>2. task[e] = "dead"
    BY <1>0, <2>1 DEF Account, NoneEnds
  <2>3. task'[e] = "dead"
    BY <2>1, <2>2, FinallyCutsLemma DEF FinallyCuts, IInv
  <2> QED BY <2>1, <2>3 DEF InCycle, EntriesInOrder, CountsDown, Alive
<1>6. ASSUME Kept(e) PROVE InCycle(e)'
  BY <1>0, <1>6, KeptInCycle
<1>7. ASSUME ~StartAndReadAll(e), ~TaskStep(e),
             ~(WriteFrames(e) \/ LoseFrames(e) \/ WriteFails(e) \/ EndOfFrames(e))
      PROVE  Kept(e)
  BY <1>0, <1>7, StepKeeps
<1> QED BY <1>1, <1>2, <1>3, <1>4, <1>5, <1>6, <1>7

\* No acquisition has started.
LEMMA CyclesInit == Init => CyclesInOrder
<1> SUFFICES ASSUME Init, NEW c \in Conns PROVE InCycle(c)
  BY DEF CyclesInOrder
<1>1. frames[c] = <<>> /\ task[c] = "none"
  BY DEF Init
<1> QED BY <1>1 DEF InCycle, EntriesInOrder, CountsDown, Alive

\* Every queue is in its cycle in every behaviour of the simulator.
LEMMA CyclesHold == Spec => [](IInv /\ Accounts /\ CyclesInOrder)
BY CyclesInit, CyclesNext, AccountsHold, PTL DEF Spec

\* FINISHED is sent with the last frame of each cycle and with no other frame.
THEOREM FinishedCorrect == Spec => FinishedClosesCycle
<1>1. IInv /\ Accounts /\ CyclesInOrder /\ [Next]_vars
        => [\A c \in Conns : sent'[c] # sent[c] =>
              (wire'[c][Len(wire'[c])] = "last" <=> sent'[c] % params[c].nb_frames = 0)]_vars
  <2> SUFFICES ASSUME IInv, Accounts, CyclesInOrder, Next, NEW c \in Conns, sent'[c] # sent[c]
               PROVE  wire'[c][Len(wire'[c])] = "last" <=> sent'[c] % params[c].nb_frames = 0
    BY DEF vars
  <2>1. WriteFrames(c)
    <3>1. PICK d \in Conns : WriteFrames(d)
      BY DEF Next, SetTimer, StartAndReadAll, TaskStep, TaskStart, Expose, Rested, HandlerStep,
             LoseFrames, WriteFails, EndOfFrames, FinallyKilled, CloseConn, SendFail, ClientStep,
             ClientReads, ClientCloses, StopAcquisition, StopKilled, history
    <3>2. sent' = [sent EXCEPT ![d] = sent[d] + 1]
      BY <3>1 DEF WriteFrames
    <3> QED BY <3>1, <3>2 DEF IInv, TypeOK
  <2>2. Head(frames[c]) = "last" <=> sent'[c] % params[c].nb_frames = 0
    BY <2>1, WriteInCycle DEF Accounts, CyclesInOrder
  <2>3. wire[c] \in Seq(Messages) /\ wire'[c] = Append(wire[c], Head(frames[c]))
    BY <2>1 DEF WriteFrames, IInv, TypeOK
  <2>4. Head(frames[c]) \in Messages
    BY <2>1, TakeEntry DEF WriteFrames, FrameReady, IInv, TypeOK, Items, Messages
  <2>5. wire'[c][Len(wire'[c])] = Head(frames[c])
    BY <2>3, <2>4, AppendProperties
  <2> QED BY <2>2, <2>5
<1> QED BY <1>1, CyclesHold, PTL DEF Spec, FinishedClosesCycle

-----------------------------------------------------------------------------
(* One acquisition at a time *)

\* At most one START is being served.
OneActive == \A c, d \in Conns : Active(c) /\ Active(d) => c = d

\* The handler that serves is the handler of the detector's acquisition.
ServesItsOwn == \A c \in Conns : pc[c] \in {"serving", "killing"} => acquisition = c

\* A finally clause only ever waits for the death of its own greenlet.
KillsItsOwn ==
  \A c \in Conns : pc[c] = "killing"
                     => victim[c] = c /\ task[c] \in {"exposing", "resting", "dead"}

\* A handler past its finally clause leaves no greenlet behind.
LeavesNothing ==
  \A c \in Conns : pc[c] \in {"closing", "done"} => task[c] \in {"dead", "cancelled"}

XInv == OneActive /\ ServesItsOwn /\ KillsItsOwn /\ LeavesNothing /\ NoFailReply

\* The finally clause of an exclusive handler finds its own acquisition.
FinallyOwnFx(c) ==
  /\ \A d \in Conns \ {c} : pc'[d] = pc[d] /\ task'[d] = task[d] /\ victim'[d] = victim[d]
  /\ \/ /\ pc'[c] = "closing" /\ acquisition' = None
        /\ task'[c] \in {"dead", "cancelled"}
     \/ /\ pc'[c] = "killing" /\ acquisition' = acquisition
        /\ victim'[c] = c /\ task'[c] = task[c] /\ Alive(c)

\* A finally clause finds its own acquisition in the slot.
LEMMA FinallyOwnEffect ==
  ASSUME IInv, XInv, NEW c \in Conns, pc[c] = "serving", Finally(c)
  PROVE  FinallyOwnFx(c)
<1>1. acquisition = c /\ acquisition # None /\ task[c] # "none"
  BY ConnsAssumption DEF XInv, ServesItsOwn, IInv, TaskStarted
<1>2. CASE KillReturns(c) /\ Release(c) /\ UNCHANGED victim
  <2>1. task'[c] \in {"dead", "cancelled"}
    BY <1>1, <1>2 DEF IInv, TypeOK, TaskStates, KillReturns, Alive
  <2>2. \A d \in Conns \ {c} : pc'[d] = pc[d] /\ task'[d] = task[d]
    BY <1>2 DEF IInv, TypeOK, KillReturns, Release
  <2>3. pc'[c] = "closing" /\ acquisition' = None
    BY <1>2 DEF IInv, TypeOK, Release
  <2> QED BY <1>2, <2>1, <2>2, <2>3 DEF FinallyOwnFx
<1>3. CASE /\ KillBlocks(c, c) /\ pc' = [pc EXCEPT ![c] = "killing"]
           /\ UNCHANGED <<acquisition, run_status, task, cut>>
  BY <1>3 DEF IInv, TypeOK, KillBlocks, FinallyOwnFx
<1> QED BY <1>1, <1>2, <1>3 DEF Finally

\* At the start nobody is served.
LEMMA InitExclusive == Init => XInv
BY DEF Init, XInv, OneActive, ServesItsOwn, KillsItsOwn, LeavesNothing, NoFailReply, Active

\* The finally clause keeps the invariant.
LEMMA FinallyExclusive ==
  ASSUME IInv, XInv, NEW c \in Conns, pc[c] = "serving", FinallyOwnFx(c)
  PROVE  XInv'
<1> USE DEF XInv
<1>0. Active(c) /\ acquisition = c /\ pc'[c] \in {"closing", "killing"}
  BY DEF Active, ServesItsOwn, FinallyOwnFx
<1>1. OneActive'
  BY <1>0 DEF OneActive, Active, FinallyOwnFx
<1>2. ServesItsOwn'
  <2> SUFFICES ASSUME NEW d \in Conns, pc'[d] \in {"serving", "killing"}
               PROVE  acquisition' = d
    BY DEF ServesItsOwn
  <2>1. d = c
    BY <1>0 DEF OneActive, Active, FinallyOwnFx
  <2> QED BY <1>0, <2>1 DEF FinallyOwnFx
<1>3. KillsItsOwn'
  BY DEF KillsItsOwn, FinallyOwnFx, Alive
<1>4. LeavesNothing'
  BY DEF LeavesNothing, FinallyOwnFx
<1>5. NoFailReply'
  BY DEF NoFailReply, FinallyOwnFx
<1> QED BY <1>1, <1>2, <1>3, <1>4, <1>5

\* So does a step that moves no control handler and at most ends greenlets that
\* were started, cancels one that was not, or lets the greenlets run.
LEMMA TasksExclusive ==
  ASSUME XInv, acquisition' = acquisition, pc' = pc,
         \A d \in Conns : victim'[d] = victim[d],
         \A d \in Conns :
           \/ task'[d] = task[d]
           \/ task[d] = "spawned" /\ task'[d] \in {"exposing", "cancelled"}
           \/ Alive(d) /\ task'[d] \in {"exposing", "resting", "dead"}
  PROVE  XInv'
<1>1. OneActive' /\ ServesItsOwn' /\ NoFailReply'
  BY DEF XInv, OneActive, ServesItsOwn, NoFailReply, Active
<1>2. KillsItsOwn'
  BY DEF XInv, KillsItsOwn, Alive
<1>3. LeavesNothing'
  BY DEF XInv, LeavesNothing, Alive
<1> QED BY <1>1, <1>2, <1>3 DEF XInv

\* Every step keeps the invariant when STARTs do not overlap, as they cannot with
\* one connection.
LEMMA NextExclusive ==
  ASSUME Overlap = FALSE \/ \A c, d \in Conns : c = d
  PROVE  IInv /\ XInv /\ [Next]_vars => XInv'
<1> SUFFICES ASSUME IInv, XInv, [Next]_vars PROVE XInv'
  OBVIOUS
<1> USE ConnsAssumption DEF detectorVars, taskVars, netVars, history
<1>0. TypeOK
  BY DEF IInv
<1>1. CASE SetTimer
  BY <1>1, TasksExclusive DEF SetTimer
<1>2. ASSUME NEW c \in Conns, StartAndReadAll(c) PROVE XInv'
  <2>1. /\ \A d \in Conns : ~Active(d)
        /\ pc'[c] = "serving" /\ acquisition' = c
        /\ \A d \in Conns \ {c} : pc'[d] = pc[d] /\ task'[d] = task[d]
    BY <1>2, <1>0 DEF StartAndReadAll, TypeOK, Active
  <2> QED BY <2>1 DEF XInv, OneActive, ServesItsOwn, KillsItsOwn, LeavesNothing, NoFailReply, Active
<1>3. ASSUME NEW c \in Conns, TaskStart(c) PROVE XInv'
  BY <1>3, <1>0, TasksExclusive DEF TaskStart, TypeOK
<1>4. ASSUME NEW c \in Conns, Expose(c) \/ Rested(c) PROVE XInv'
  <2>1. Alive(c) /\ UNCHANGED <<acquisition, pc, victim>>
    BY <1>4 DEF Expose, Rested, Alive
  <2>2. \/ task' = [task EXCEPT ![c] = "exposing"] \/ task' = [task EXCEPT ![c] = "resting"]
        \/ task' = [task EXCEPT ![c] = "dead"]
    BY <1>4 DEF Expose, Rested, NextExposure
  <2>3. \A d \in Conns : task'[d] = task[d] \/ (d = c /\ task'[c] \in {"exposing", "resting", "dead"})
    BY <2>2, <1>0 DEF TypeOK
  <2> QED BY <2>1, <2>3, TasksExclusive
<1>5. ASSUME NEW c \in Conns, pc[c] = "serving", NextFrames(c, Tail(frames[c])) PROVE XInv'
  <2>1. CASE Finally(c)
    BY <1>5, <2>1, FinallyOwnEffect, FinallyExclusive
  <2>2. CASE UNCHANGED <<acquisition, run_status, pc, victim, task, cut>>
    BY <2>2, TasksExclusive
  <2> QED BY <1>5, <2>1, <2>2 DEF NextFrames
<1>6. ASSUME NEW c \in Conns, WriteFrames(c) \/ LoseFrames(c) PROVE XInv'
  BY <1>5, <1>6 DEF WriteFrames, LoseFrames, FrameReady
<1>7. ASSUME NEW c \in Conns, WriteFails(c) \/ EndOfFrames(c) PROVE XInv'
  <2>1. pc[c] = "serving" /\ Finally(c)
    BY <1>7 DEF WriteFails, EndOfFrames, FrameReady
  <2> QED BY <2>1, FinallyOwnEffect, FinallyExclusive
<1>8. ASSUME NEW c \in Conns, FinallyKilled(c) PROVE XInv'
  <2>1. /\ pc[c] = "killing" /\ victim[c] = c /\ KillLands(c) /\ Active(c)
        /\ task[c] \in {"exposing", "resting", "dead"}
    BY <1>8 DEF FinallyKilled, XInv, KillsItsOwn, Active
  <2>2. /\ pc'[c] = "closing" /\ task'[c] = "dead"
        /\ \A d \in Conns \ {c} : /\ pc'[d] = pc[d] /\ task'[d] = task[d]
                                  /\ victim'[d] = victim[d]
    BY <1>8, <1>0, <2>1 DEF FinallyKilled, Release, KillLands, TypeOK, Alive
  <2>3. OneActive'
    BY <2>1, <2>2 DEF XInv, OneActive, Active
  <2>4. ServesItsOwn'
    BY <2>1, <2>2 DEF XInv, OneActive, ServesItsOwn, Active
  <2>5. KillsItsOwn' /\ LeavesNothing' /\ NoFailReply'
    BY <2>2 DEF XInv, KillsItsOwn, LeavesNothing, NoFailReply
  <2> QED BY <2>3, <2>4, <2>5 DEF XInv
<1>9. ASSUME NEW c \in Conns, CloseConn(c) PROVE XInv'
  <2>1. /\ pc[c] = "closing" /\ pc'[c] = "done" /\ Active(c)
        /\ \A d \in Conns \ {c} : pc'[d] = pc[d]
        /\ UNCHANGED <<acquisition, victim, task>>
    BY <1>9, <1>0 DEF CloseConn, TypeOK, Active
  <2> QED BY <2>1 DEF XInv, OneActive, ServesItsOwn, KillsItsOwn, LeavesNothing, NoFailReply, Active
<1>10. ASSUME NEW c \in Conns, SendFail(c) PROVE XInv'
  BY <1>10 DEF SendFail, XInv, NoFailReply
<1>11. ASSUME NEW s \in Stops, StopAcquisition(s) PROVE XInv'
  <2>1. UNCHANGED <<acquisition, pc>> /\ \A d \in Conns : victim'[d] = victim[d]
    BY <1>11, <1>0 DEF StopAcquisition, KillBlocks, TypeOK
  <2>2. \A d \in Conns : task'[d] = task[d] \/ (task[d] = "spawned" /\ task'[d] = "cancelled")
    BY <1>11, <1>0 DEF StopAcquisition, KillReturns, TypeOK
  <2> QED BY <2>1, <2>2, TasksExclusive
<1>12. ASSUME NEW s \in Stops, StopKilled(s) PROVE XInv'
  <2>1. UNCHANGED <<acquisition, pc>> /\ KillLands(s) /\ victim[s] \in Conns
    BY <1>12 DEF StopKilled, IInv, VictimKnown
  <2>2. KillLandsFx(s)
    BY <1>0, <2>1, KillLandsEffect
  <2>3. \A d \in Conns : victim'[d] = victim[d]
    BY <1>0, <2>2 DEF KillLandsFx, TypeOK
  <2>4. \A d \in Conns : task'[d] = task[d] \/ (Alive(d) /\ task'[d] = "dead")
    BY <2>2 DEF KillLandsFx
  <2> QED BY <2>1, <2>3, <2>4, TasksExclusive
<1>13. ASSUME NEW c \in Conns, ClientStep(c) PROVE XInv'
  BY <1>13, TasksExclusive DEF ClientStep, ClientReads, ClientCloses
<1>14. CASE UNCHANGED vars
  BY <1>14, TasksExclusive DEF vars
<1> QED
  BY <1>1, <1>2, <1>3, <1>4, <1>6, <1>7, <1>8, <1>9, <1>10, <1>11, <1>12, <1>13, <1>14
     DEF Next, TaskStep, HandlerStep

-----------------------------------------------------------------------------

\* The exclusive invariant holds in every reachable state.
THEOREM ExclusiveHolds ==
  ASSUME Overlap = FALSE
  PROVE  Spec => [](IInv /\ XInv)
<1>1. Init => IInv /\ XInv
  BY InitInv, InitExclusive
<1>2. IInv /\ XInv /\ [Next]_vars => (IInv /\ XInv)'
  BY NextInv, NextExclusive
<1> QED BY <1>1, <1>2, PTL DEF Spec

\* A detector that reports IDLE has no greenlet producing frames or about to:
\* it is ready to start an acquisition, whatever stops, write errors and clients
\* that leave came before.
THEOREM IdleCorrect ==
  ASSUME Overlap = FALSE
  PROVE  Spec => []IdleMeansQuiescent
<1>1. IInv /\ XInv => IdleMeansQuiescent
  <2> SUFFICES ASSUME IInv, XInv, run_status = "IDLE", NEW c \in Conns
               PROVE  ~Alive(c) /\ task[c] # "spawned"
    BY DEF IdleMeansQuiescent
  <2>1. acquisition # c
    BY ConnsAssumption DEF IInv, StatusTracksAcquisition
  <2>2. pc[c] \in {"new", "closing", "done"}
    BY <2>1 DEF IInv, TypeOK, PcStates, XInv, ServesItsOwn, NoFailReply
  <2>3. CASE pc[c] = "new"
    BY <2>3 DEF IInv, TaskStarted, Alive
  <2>4. CASE pc[c] \in {"closing", "done"}
    BY <2>4 DEF XInv, LeavesNothing, Alive
  <2> QED BY <2>2, <2>3, <2>4
<1> QED BY <1>1, ExclusiveHolds, PTL

\* A handler whose START was the only one so far owns the slot until its finally
\* clause gives it back.
LoneOwns(c) ==
  (\A d \in Conns \ {c} : pc[d] = "new")
    => /\ pc[c] # "failing"
       /\ pc[c] \in {"serving", "killing"} => acquisition = c

\* No step takes the slot from it.
LEMMA LoneNext ==
  ASSUME IInv, [Next]_vars, NEW c \in Conns, LoneOwns(c)
  PROVE  LoneOwns(c)'
<1> SUFFICES ASSUME \A d \in Conns \ {c} : pc'[d] = "new"
             PROVE  /\ pc'[c] # "failing"
                    /\ pc'[c] \in {"serving", "killing"} => acquisition' = c
  BY DEF LoneOwns
<1> USE ConnsAssumption DEF IInv, TypeOK, detectorVars, taskVars, netVars, history
<1>1. ASSUME NEW d \in Conns, pc'[d] # "new", d # c PROVE FALSE
  BY <1>1
<1>2. ASSUME UNCHANGED <<acquisition, pc>>
      PROVE  /\ pc'[c] # "failing"
             /\ pc'[c] \in {"serving", "killing"} => acquisition' = c
  BY <1>2 DEF LoneOwns
<1>3. ASSUME NEW d \in Conns, StartAndReadAll(d)
      PROVE  pc'[c] = "serving" /\ acquisition' = c
  BY <1>1, <1>3 DEF StartAndReadAll
<1>4. ASSUME NEW d \in Conns, HandlerStep(d)
      PROVE  d = c /\ (\A e \in Conns \ {c} : pc[e] = "new")
  <2>1. pc[d] # "new" /\ pc'[d] # "new" /\ \A e \in Conns \ {d} : pc'[e] = pc[e]
    BY <1>4 DEF HandlerStep, WriteFrames, LoseFrames, WriteFails, EndOfFrames, FrameReady, NextFrames,
           Finally, Release, FinallyKilled, CloseConn, SendFail
  <2> QED BY <1>1, <2>1
<1>5. ASSUME Finally(c), acquisition = c
      PROVE  /\ pc'[c] # "failing"
             /\ pc'[c] \in {"serving", "killing"} => acquisition' = c
  BY <1>5 DEF Finally, Release
<1>6. ASSUME HandlerStep(c), \A e \in Conns \ {c} : pc[e] = "new"
      PROVE  /\ pc'[c] # "failing"
             /\ pc'[c] \in {"serving", "killing"} => acquisition' = c
  <2>1. pc[c] # "failing" /\ (pc[c] \in {"serving", "killing"} => acquisition = c)
    BY <1>6 DEF LoneOwns
  <2>2. CASE WriteFrames(c) \/ LoseFrames(c) \/ WriteFails(c) \/ EndOfFrames(c)
    <3>1. pc[c] = "serving" /\ (Finally(c) \/ UNCHANGED <<acquisition, pc>>)
      BY <2>2 DEF WriteFrames, LoseFrames, WriteFails, EndOfFrames, FrameReady, NextFrames
    <3> QED BY <1>2, <1>5, <2>1, <3>1
  <2>3. CASE FinallyKilled(c) \/ CloseConn(c) \/ SendFail(c)
    BY <2>1, <2>3 DEF FinallyKilled, Release, CloseConn, SendFail
  <2> QED BY <1>6, <2>2, <2>3 DEF HandlerStep
<1>7. ASSUME NEW d \in Conns, TaskStep(d) \/ ClientStep(d) PROVE UNCHANGED <<acquisition, pc>>
  BY <1>7 DEF TaskStep, TaskStart, Expose, Rested, ClientStep, ClientReads, ClientCloses
<1>8. ASSUME NEW s \in Stops, StopAcquisition(s) \/ StopKilled(s)
      PROVE  UNCHANGED <<acquisition, pc>>
  BY <1>8 DEF StopAcquisition, StopKilled
<1>9. SetTimer \/ UNCHANGED vars => UNCHANGED <<acquisition, pc>>
  BY DEF SetTimer, vars
<1> QED BY <1>2, <1>3, <1>4, <1>6, <1>7, <1>8, <1>9 DEF Next

\* However many connections, and whether their STARTs overlap or not, an
\* acquisition is answered with FAIL only when another one was started.
THEOREM FailNeedsOtherCorrect == Spec => []FailNeedsOther
<1> DEFINE Lone == \A c \in Conns : LoneOwns(c)
<1>1. Init => IInv /\ Lone
  BY InitInv DEF Init, LoneOwns
<1>2. IInv /\ Lone /\ [Next]_vars => (IInv /\ Lone)'
  BY NextInv, LoneNext
<1>3. Lone => FailNeedsOther
  BY DEF LoneOwns, FailNeedsOther
<1> HIDE DEF Lone
<1> QED BY <1>1, <1>2, <1>3, PTL DEF Spec

-----------------------------------------------------------------------------
(* The refinement of DetectorService: every step is a step of the service  *)
(* or leaves the service as it is; the accounts say that the detector is   *)
(* only given back when it may be.                                         *)

RInv == IInv /\ XInv /\ Accounts

-----------------------------------------------------------------------------
(* Steps of the service, in terms of the simulator *)

\* The requests stay while no acquisition starts.
LEMMA AskedKept ==
  ASSUME params' = params, \A c \in Conns : task'[c] = "none" <=> task[c] = "none"
  PROVE  Asked' = Asked
BY DEF Asked, Total

\* A step the service does not see.
LEMMA StutterMaps ==
  ASSUME Asked' = Asked, UNCHANGED <<acquisition, sent, cut>>
  PROVE  UNCHANGED Service!vars
BY DEF Service!vars

\* The detector starts to work for c.
LEMMA BeginMaps ==
  ASSUME NEW c \in Conns, acquisition = None, task[c] = "none", acquisition' = c,
         NEW n \in NbFrames, NEW m \in NbCycles,
         Asked' = [Asked EXCEPT ![c] = AtLeastOne(n) * AtLeastOne(m)],
         UNCHANGED <<sent, cut>>
  PROVE  Service!Next
<1>1. Asked[c] = 0
  BY DEF Asked
<1>2. AtLeastOne(n) * AtLeastOne(m) \in Requests
  BY DEF Requests
<1> QED BY <1>1, <1>2 DEF Service!Next, Service!Begin

\* A frame is delivered, and the detector is given back when c is served.
LEMMA DeliverMaps ==
  ASSUME NEW c \in Conns, acquisition = c, task[c] # "none", sent[c] < Total(c),
         sent' = [sent EXCEPT ![c] = @ + 1], Asked' = Asked, cut' = cut,
         \/ acquisition' = acquisition
         \/ acquisition' = None /\ (sent[c] + 1 = Total(c) \/ c \in cut)
  PROVE  Service!Next
<1>1. Asked[c] = Total(c)
  BY DEF Asked
<1> QED BY <1>1 DEF Service!Next, Service!Deliver, Service!Served

\* An acquisition that has started is cut short.
LEMMA InterruptMaps ==
  ASSUME NEW c \in Conns, task[c] # "none", Total(c) > 0, cut' = cut \cup {c},
         Asked' = Asked, UNCHANGED <<acquisition, sent>>
  PROVE  Service!Next
<1>1. Asked[c] = Total(c)
  BY DEF Asked
<1> QED BY <1>1 DEF Service!Next, Service!Interrupt

\* The detector is given back.
LEMMA EndMaps ==
  ASSUME NEW c \in Conns, acquisition = c, task[c] # "none", acquisition' = None,
         sent[c] = Total(c) \/ c \in cut, Asked' = Asked, UNCHANGED <<sent, cut>>
  PROVE  Service!Next
<1>1. Asked[c] = Total(c)
  BY DEF Asked
<1> QED BY <1>1 DEF Service!Next, Service!End, Service!Served

-----------------------------------------------------------------------------
(* The steps of the simulator *)

\* An acquisition asks for at least one frame.
LEMMA TotalPositive ==
  ASSUME TypeOK, NEW c \in Conns
  PROVE  Total(c) > 0
<1>1. params[c].nb_frames \in Nat \ {0} /\ params[c].nb_cycles \in Nat \ {0}
  BY DEF TypeOK, Params
<1>2. \A a, b \in Nat \ {0} : a * b > 0
  OBVIOUS
<1> QED BY <1>1, <1>2 DEF Total

\* A free detector begins to work for a connection whose START it accepts.
LEMMA StartMaps ==
  ASSUME Overlap = FALSE, RInv, NEW c \in Conns, StartAndReadAll(c)
  PROVE  Service!Next
<1>1. acquisition = None
  BY DEF StartAndReadAll, RInv, IInv, TypeOK, OwnerIsServing, Active
<1>2. task[c] = "none" /\ config \in Configs
  BY DEF StartAndReadAll, RInv, IInv, TypeOK, TaskStarted
<1>3. /\ acquisition' = c /\ UNCHANGED <<sent, cut>>
      /\ task'[c] = "spawned" /\ params'[c] = Prepared
      /\ \A d \in Conns \ {c} : task'[d] = task[d] /\ params'[d] = params[d]
  BY DEF StartAndReadAll, RInv, IInv, TypeOK, history
<1>4. Asked' = [Asked EXCEPT ![c] = Prepared.nb_frames * Prepared.nb_cycles]
  BY <1>3 DEF Asked, Total
<1>5. config.nb_frames \in NbFrames /\ config.nb_cycles \in NbCycles
  BY <1>2 DEF Configs
<1>6. Asked' = [Asked EXCEPT ![c] = AtLeastOne(config.nb_frames) * AtLeastOne(config.nb_cycles)]
  BY <1>4 DEF Prepared
<1> QED BY <1>1, <1>2, <1>3, <1>5, <1>6, BeginMaps

\* The finally clause of a handler whose queue was not empty kills nothing that
\* has not run, so it changes nothing but the slot.
LEMMA FinallyMaps ==
  ASSUME RInv, NEW c \in Conns, pc[c] = "serving", frames[c] # <<>>, Finally(c)
  PROVE  task' = task /\ cut' = cut /\ (acquisition' = None \/ acquisition' = acquisition)
<1>1. acquisition = c /\ acquisition # None /\ task[c] # "spawned"
  BY ConnsAssumption DEF RInv, XInv, ServesItsOwn, Accounts, Account, StartsWhole
<1>2. CASE KillReturns(c) /\ Release(c)
  BY <1>1, <1>2 DEF KillReturns, Release, RInv, IInv, TypeOK
<1>3. CASE UNCHANGED <<acquisition, task, cut>>
  BY <1>3
<1> QED BY <1>1, <1>2, <1>3 DEF Finally

\* A frame at the head of the queue is one that the client may still get.
LEMMA FrameIsDue ==
  ASSUME IInv, NEW c \in Conns, Account(c), FrameReady(c)
  PROVE  sent[c] < Total(c)
<1>1. /\ frames[c] \in Seq(Items) /\ frames[c] # <<>> /\ Head(frames[c]) # "none"
      /\ task[c] # "none"
  BY DEF FrameReady, IInv, TypeOK, TaskStarted
<1>2. Len(frames[c]) \in Nat /\ Len(frames[c]) >= 1 /\ frames[c][1] # "none"
  BY <1>1, EmptySeq, HeadTailProperties
<1>3. Queued(c) >= 1
  BY <1>2 DEF Queued
<1>4. Accounted(c) <= Total(c)
  BY <1>1 DEF Account
<1> QED BY <1>3, <1>4, AccountTypes DEF Accounted

\* A write is a delivery; the last one may give the detector back.
LEMMA WriteMaps ==
  ASSUME RInv, NEW c \in Conns, WriteFrames(c)
  PROVE  Service!Next
<1>1. /\ FrameReady(c) /\ NextFrames(c, Tail(frames[c])) /\ pc[c] = "serving"
      /\ frames[c] # <<>> /\ params' = params
      /\ sent' = [sent EXCEPT ![c] = @ + 1] /\ sent[c] \in Nat
      /\ IInv /\ Account(c)
  BY DEF WriteFrames, FrameReady, RInv, IInv, TypeOK, Accounts
<1>2. acquisition = c /\ task[c] # "none" /\ sent[c] < Total(c)
  BY <1>1, FrameIsDue DEF RInv, XInv, ServesItsOwn, IInv, TaskStarted
<1>3. CASE Finally(c)
  <2>1. task' = task /\ cut' = cut /\ (acquisition' = None \/ acquisition' = acquisition)
    BY <1>1, <1>3, FinallyMaps
  <2>2. Asked' = Asked
    BY <1>1, <2>1, AskedKept
  <2>3. sent[c] + 1 = Total(c) \/ c \in cut
    <3> SUFFICES ASSUME c \notin cut PROVE sent[c] + 1 = Total(c)
      OBVIOUS
    <3>1. pc'[c] # "serving"
      BY <1>1, <1>3, FinallyEffect DEF FinallyFx, IInv
    <3>2. /\ task[c] = "dead" /\ frames'[c] = <<>>
          /\ Queued(c) \in Int /\ Queued(c)' = Queued(c) - 1
      BY <1>1, <3>1, FrameTaken
    <3>3. Queued(c)' = 0 /\ ToProduce(c) = 0
      BY <3>2 DEF Queued, ToProduce, Alive
    <3>4. Accounted(c) = Total(c)
      BY <1>1, <1>2 DEF Account, Whole
    <3> QED BY <1>1, <3>2, <3>3, <3>4 DEF Accounted
  <2> QED BY <1>1, <1>2, <2>1, <2>2, <2>3, DeliverMaps
<1>4. CASE UNCHANGED <<acquisition, run_status, pc, victim, task, cut>>
  <2>1. Asked' = Asked
    BY <1>1, <1>4, AskedKept
  <2> QED BY <1>1, <1>2, <1>4, <2>1, DeliverMaps
<1> QED BY <1>1, <1>3, <1>4 DEF NextFrames

\* The other ways out of the loop give the detector back, at once or later.
LEMMA LeaveMaps ==
  ASSUME RInv, NEW c \in Conns, LoseFrames(c) \/ WriteFails(c) \/ EndOfFrames(c)
  PROVE  Service!Next \/ UNCHANGED Service!vars
<1>1. /\ pc[c] = "serving" /\ frames[c] # <<>> /\ params' = params /\ sent' = sent
      /\ sent[c] \in Nat /\ Account(c)
  <2>1. <<"none">> # <<>>
    OBVIOUS
  <2>2. pc[c] = "serving" /\ frames[c] # <<>>
    BY <2>1 DEF LoseFrames, WriteFails, EndOfFrames, FrameReady
  <2>3. params' = params /\ sent' = sent
    BY DEF LoseFrames, WriteFails, EndOfFrames
  <2> QED BY <2>2, <2>3 DEF RInv, IInv, TypeOK, Accounts
<1>2. acquisition = c /\ task[c] # "none"
  BY <1>1 DEF RInv, XInv, ServesItsOwn, IInv, TaskStarted
<1>3. sent[c] = Total(c) \/ c \in cut
  <2>1. CASE LoseFrames(c) \/ WriteFails(c)
    BY <1>1, <2>1 DEF LoseFrames, WriteFails, Account
  <2>2. CASE EndOfFrames(c) /\ c \notin cut
    <3>1. frames[c] = <<"none">>
      BY <2>2 DEF EndOfFrames
    <3>2. task[c] = "dead"
      BY <1>1, <3>1 DEF Account, NoneEnds
    <3>3. Queued(c) = 0 /\ ToProduce(c) = 0
      BY <3>1, <3>2 DEF Queued, ToProduce, Alive
    <3>4. Accounted(c) = Total(c)
      BY <1>1, <1>2, <2>2 DEF Account, Whole
    <3> QED BY <1>1, <3>3, <3>4 DEF Accounted
  <2> QED BY <2>1, <2>2
<1>4. CASE Finally(c)
  <2>1. task' = task /\ cut' = cut /\ (acquisition' = None \/ acquisition' = acquisition)
    BY <1>1, <1>4, FinallyMaps
  <2>2. Asked' = Asked
    BY <1>1, <2>1, AskedKept
  <2> QED BY <1>1, <1>2, <1>3, <2>1, <2>2, EndMaps, StutterMaps
<1>5. CASE UNCHANGED <<acquisition, run_status, pc, victim, task, cut>>
  <2>1. Asked' = Asked
    BY <1>1, <1>5, AskedKept
  <2> QED BY <1>1, <1>5, <2>1, StutterMaps
<1> QED BY <1>4, <1>5 DEF LoseFrames, WriteFails, EndOfFrames, NextFrames

\* The kill of the finally clause lands on a greenlet that was cut, or that had
\* ended by itself: the detector is given back.
LEMMA KilledMaps ==
  ASSUME RInv, NEW c \in Conns, FinallyKilled(c)
  PROVE  Service!Next
<1>1. /\ pc[c] = "killing" /\ victim[c] = c /\ KillLands(c)
      /\ task[c] \in {"exposing", "resting", "dead"} /\ acquisition = c
      /\ acquisition' = None /\ params' = params /\ sent' = sent /\ sent[c] \in Nat
      /\ Account(c)
  BY DEF FinallyKilled, Release, RInv, IInv, TypeOK, XInv, KillsItsOwn, ServesItsOwn, Accounts
<1>2. KillCuts
  BY <1>1, KillLandsCuts DEF RInv, IInv
<1>3. Asked' = Asked
  BY <1>1, <1>2, AskedKept DEF KillCuts, Alive
<1>4. c \notin cut => task[c] = "dead" /\ frames[c] = <<>> /\ Accounted(c) = Total(c)
  BY <1>1 DEF Account, Whole
<1>5. cut' = cut
  BY ZenonT(60), <1>1, <1>4 DEF KillLands, Alive
<1>6. sent[c] = Total(c) \/ c \in cut
  <2>1. task[c] = "dead" /\ frames[c] = <<>> => ToProduce(c) = 0 /\ Queued(c) = 0
    BY DEF ToProduce, Queued, Alive
  <2> QED BY <1>1, <1>4, <2>1 DEF Accounted
<1> QED BY <1>1, <1>3, <1>5, <1>6, EndMaps

\* A stop that cancels a greenlet interrupts its acquisition.
LEMMA StopMaps ==
  ASSUME RInv, NEW s \in Stops, StopAcquisition(s)
  PROVE  Service!Next \/ UNCHANGED Service!vars
<1>1. UNCHANGED <<acquisition, sent, params>> /\ TypeOK
  BY DEF StopAcquisition, detectorVars, RInv, IInv
<1>2. CASE UNCHANGED <<task, cut>>
  <2>1. Asked' = Asked
    BY <1>1, <1>2, AskedKept
  <2> QED BY <1>1, <1>2, <2>1, StutterMaps
<1>3. CASE acquisition # None /\ KillReturns(acquisition)
  <2>1. acquisition \in Conns
    BY <1>1, <1>3 DEF TypeOK
  <2>2. Asked' = Asked
    BY <1>1, <1>3, <2>1, AskedKept DEF KillReturns, TypeOK
  <2>3. CASE task[acquisition] = "spawned"
    BY <1>1, <1>3, <2>1, <2>2, <2>3, TotalPositive, InterruptMaps DEF KillReturns
  <2>4. CASE task[acquisition] # "spawned"
    BY <1>1, <1>3, <2>2, <2>4, StutterMaps DEF KillReturns
  <2> QED BY <2>3, <2>4
<1> QED BY <1>2, <1>3 DEF StopAcquisition

\* So does a kill that lands for a stop.
LEMMA StopKilledMaps ==
  ASSUME RInv, NEW s \in Stops, StopKilled(s)
  PROVE  Service!Next \/ UNCHANGED Service!vars
<1>1. /\ UNCHANGED <<acquisition, sent, params>> /\ TypeOK
      /\ victim[s] \in Conns /\ KillLands(s)
  BY DEF StopKilled, detectorVars, RInv, IInv, VictimKnown
<1>2. KillCuts
  BY <1>1, KillLandsCuts
<1>3. Asked' = Asked
  BY <1>1, <1>2, AskedKept DEF KillCuts, Alive
<1>4. CASE Alive(victim[s])
  <2>1. cut' = cut \cup {victim[s]} /\ task[victim[s]] # "none"
    BY <1>1, <1>4 DEF KillLands, Alive
  <2> QED BY <1>1, <1>3, <2>1, TotalPositive, InterruptMaps
<1>5. CASE ~Alive(victim[s])
  BY <1>1, <1>3, <1>5, StutterMaps DEF KillLands
<1> QED BY <1>4, <1>5

\* A client that leaves interrupts its acquisition.
LEMMA ClosesMaps ==
  ASSUME RInv, NEW c \in Conns, ClientCloses(c)
  PROVE  Service!Next
<1>1. /\ UNCHANGED <<acquisition, sent, params, task>> /\ cut' = cut \cup {c}
      /\ TypeOK /\ task[c] # "none"
  BY DEF ClientCloses, detectorVars, taskVars, RInv, IInv, TaskStarted
<1>2. Asked' = Asked
  BY <1>1, AskedKept
<1> QED BY <1>1, <1>2, TotalPositive, InterruptMaps

\* The steps that only the simulator sees.
LEMMA HiddenMaps ==
  ASSUME RInv,
         \/ SetTimer \/ UNCHANGED vars
         \/ \E c \in Conns : TaskStep(c) \/ CloseConn(c) \/ SendFail(c) \/ ClientReads(c)
  PROVE  UNCHANGED Service!vars
<1>1. TypeOK
  BY DEF RInv, IInv
<1>2. UNCHANGED <<acquisition, sent, cut, params>>
  BY DEF SetTimer, vars, TaskStep, TaskStart, Expose, Rested, CloseConn, SendFail, ClientReads,
         detectorVars, taskVars, history
<1>3. \A d \in Conns : task'[d] = "none" <=> task[d] = "none"
  <2>1. CASE UNCHANGED task
    BY <2>1
  <2>2. ASSUME NEW c \in Conns, TaskStep(c)
        PROVE  \A d \in Conns : task'[d] = "none" <=> task[d] = "none"
    <3>1. task[c] # "none"
      BY <2>2 DEF TaskStep, TaskStart, Expose, Rested
    <3>2. \E t \in {"exposing", "resting", "dead"} : task' = [task EXCEPT ![c] = t]
      BY <2>2 DEF TaskStep, TaskStart, Expose, Rested, NextExposure
    <3> QED BY <1>1, <3>1, <3>2 DEF TypeOK
  <2> QED
    BY <2>1, <2>2 DEF SetTimer, vars, CloseConn, SendFail, ClientReads, taskVars
<1> QED BY <1>2, <1>3, AskedKept, StutterMaps

-----------------------------------------------------------------------------

\* Every step of an exclusive simulator is a step of the service or a stutter.
LEMMA NextMaps ==
  ASSUME Overlap = FALSE
  PROVE  RInv /\ [Next]_vars => [Service!Next]_(Service!vars)
<1> SUFFICES ASSUME RInv, [Next]_vars PROVE Service!Next \/ UNCHANGED Service!vars
  OBVIOUS
<1>1. CASE SetTimer \/ UNCHANGED vars
  BY <1>1, HiddenMaps
<1>2. ASSUME NEW c \in Conns, StartAndReadAll(c) \/ TaskStep(c) \/ HandlerStep(c) \/ ClientStep(c)
      PROVE  Service!Next \/ UNCHANGED Service!vars
  <2>1. CASE StartAndReadAll(c)
    BY <2>1, StartMaps
  <2>2. CASE TaskStep(c) \/ CloseConn(c) \/ SendFail(c) \/ ClientReads(c)
    BY <2>2, HiddenMaps
  <2>3. CASE WriteFrames(c) \/ LoseFrames(c) \/ WriteFails(c) \/ EndOfFrames(c)
    BY <2>3, WriteMaps, LeaveMaps
  <2>4. CASE FinallyKilled(c) \/ ClientCloses(c)
    BY <2>4, KilledMaps, ClosesMaps
  <2> QED BY <1>2, <2>1, <2>2, <2>3, <2>4 DEF HandlerStep, ClientStep
<1>3. ASSUME NEW s \in Stops, StopAcquisition(s) \/ StopKilled(s)
      PROVE  Service!Next \/ UNCHANGED Service!vars
  BY <1>3, StopMaps, StopKilledMaps
<1> QED BY <1>1, <1>2, <1>3 DEF Next

\* The simulator implements DetectorService: a detector is never taken from an
\* acquisition that was not interrupted and still has frames to send, and
\* frames only go to its owner, never more than it asked for.
THEOREM ImplementsCorrect ==
  ASSUME Overlap = FALSE
  PROVE  Spec => Implements
<1>1. Init => Service!Init
  BY DEF Init, Asked, Service!Init
<1>2. RInv /\ [Next]_vars => [Service!Next]_(Service!vars)
  BY NextMaps
<1>3. Spec => []RInv
  BY ExclusiveHolds, AccountsHold, PTL DEF RInv
<1> QED BY <1>1, <1>2, <1>3, PTL DEF Spec, Implements, Service!Spec
=============================================================================
