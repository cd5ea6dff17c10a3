-------------------------------- MODULE MCLima --------------------------------
(* LimaInterface for TLC.                                                   *)
EXTENDS LimaInterface

MCThreads == {Ctl} \cup Acqs

\* After two blocks used a Connection at once, neither a further acquisition
\* nor the stop of another program is explored.
Crossings == crossed = {} \/ (prepares < Prepares /\ foreign = 0)
=============================================================================
