------------------------------ MODULE MCSardana ------------------------------
(* SardanaController for TLC.                                               *)
EXTENDS SardanaController

MCThreads == {Pool} \cup Acqs

\* After two blocks used the stop Connection at once, no stop of another program,
\* no parameter and no second acquisition is explored; after the control
\* Connection, only the load or start it disturbs.  A parameter goes with one
\* acquisition, and not together with the stop of another program.
Crossings ==
  \/ crossed = {} /\ spent["pars"] = 0
  \/ crossed = {} /\ foreign = 0 /\ spent["loads"] <= 1
  \/ /\ foreign = 0 /\ spent["pars"] = 0
     /\ \/ crossed = {"stop"} /\ spent["loads"] <= 1
        \/ method \in {"LoadOne", "StartOne"}
        \/ phase = "broken"
=============================================================================
