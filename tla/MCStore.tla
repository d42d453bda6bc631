-------------------------------- MODULE MCStore --------------------------------
(* Instances of Store and Pipeline for TLC. *)
EXTENDS Pipeline, TLC

CONSTANTS p, q, f, g

\* A file f of one byte, and a file g of two.
Tree  == [path \in Path |-> File]
Bytes == [files \in SUBSET File |->
            (IF f \in files THEN 1 ELSE 0) + (IF g \in files THEN 2 ELSE 0)]
===============================================================================
