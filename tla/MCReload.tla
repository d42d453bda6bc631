------------------------------- MODULE MCReload --------------------------------
(* Instances of Reload for TLC.                                            *)
EXTENDS Reload

CONSTANT r1
===============================================================================
