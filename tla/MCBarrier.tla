------------------------------ MODULE MCBarrier ------------------------------
(* Barrier slot with three participants and one process the coloring      *)
(* excludes, each calling barrier_wait three times: enough for a fast     *)
(* process to lap into the next use while a slow one is still spinning.   *)
EXTENDS Barrier

MCProcs == 0..3
MCColor == [p \in MCProcs |-> IF p = 3 THEN 0 ELSE 1]
MCMaxWaits == 3
=============================================================================
