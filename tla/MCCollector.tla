------------------------------ MODULE MCCollector ------------------------------
(***************************************************************************)
(* Instances of Collector.tla for TLC.  Tasks of one kind, and the slots of *)
(* one pool, are interchangeable in runs that check safety only.            *)
(***************************************************************************)
EXTENDS Collector, TLC

Symmetry ==
    Permutations(Task \ (Scheduled \cup Patient))
        \cup Permutations(Scheduled \ Patient)
        \cup Permutations(StdWorker)
        \cup Permutations(BgWorker)
================================================================================
