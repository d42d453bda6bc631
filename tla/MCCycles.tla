------------------------------- MODULE MCCycles --------------------------------
(* Instances of Cycles for TLC.                                            *)
EXTENDS Cycles, TLC

CONSTANTS p, q, v, w

PathRank == (p :> 1) @@ (q :> 2)

OneVolume == [path \in Path |-> v]
===============================================================================
