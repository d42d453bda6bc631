------------------------------ MODULE MCResolver -------------------------------
(* Instances of Resolver for TLC.                                          *)
EXTENDS Resolver, TLC

CONSTANTS p, q

Paths == Permutations(Path)
===============================================================================
