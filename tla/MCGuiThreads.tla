---------------------------- MODULE MCGuiThreads ----------------------------
(* GuiThreads for TLC.                                                      *)
EXTENDS GuiThreads

CONSTANTS m1

MCTags == Threads \cup 1..Runs

\* After two blocks used a Connection at once the stop of another program is not
\* explored, and after either of them the last acquisition is not; nor is the
\* stop of another program together with one of this.
Crossings == /\ IF runs = Runs THEN crossed = {} /\ foreign = 0 ELSE crossed = {} \/ foreign = 0
             /\ foreign + presses <= 1
=============================================================================
