-------------------------------- MODULE MCReload --------------------------------
(* Instances of Reload.tla for TLC: the first reload removes the job, the   *)
(* second one brings it back.                                              *)
EXTENDS Reload

CONSTANT j1

MCJobsOf == [v \in Version |-> IF v = 1 THEN <<>> ELSE <<j1>>]
================================================================================
