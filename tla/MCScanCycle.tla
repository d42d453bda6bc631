------------------------------ MODULE MCScanCycle ------------------------------
(* Instances of ScanCycle for TLC.                                         *)
EXTENDS ScanCycle, TLC

CONSTANTS w1, w2, t1, t2, r1, r2, a, b, c, d, f, fa, fb, s

\* t1 is a root with two directories, one of which has two more: they come when
\* the other may still be in the queue, which then has no place.  They hold three
\* files and a symbolic link.
DeepTree == [x \in {r1, a, b, c, d} |->
               CASE x = r1 -> {a, b}
                 [] x = a -> {c, d}
                 [] x = b -> {fb}
                 [] x = c -> {f, fa}
                 [] x = d -> {s}]
OneRoot   == [t \in {t1} |-> r1]
DeepOwner == [x \in {r1, a, b, c, d} |-> t1]

\* Rotation removes one of two links, or the root with everything.
RootRotations == {{fa}, {r1, a, b, c, d, f, fa, fb, s}}

\* fa and fb are links to one inode, which room for one inode is enough for; a
\* further link of f is elsewhere.
OnePair == [g \in {f, fa, fb} |-> IF g = f THEN "other" ELSE "pair"]

\* t1 has a root with a file and a directory, which holds another link to it; the
\* root of t2 has a third.
LinkedTrees == [x \in {r1, r2, a} |->
                  IF x = r1 THEN {a, fa} ELSE IF x = a THEN {fb} ELSE {f}]
OneInode    == [g \in {f, fa, fb} |-> "one"]
LinkRotations == {{r2, f}}

\* t1 has a root with one directory, which holds a file; t2 an empty root.
LeanTrees == [x \in {r1, r2, a} |->
                IF x = r1 THEN {a} ELSE IF x = a THEN {f} ELSE {}]
Unlinked  == [g \in {f} |-> "single"]
TwoRoots  == [t \in {t1, t2} |-> IF t = t1 THEN r1 ELSE r2]
TwoOwners == [x \in {r1, r2, a} |-> IF x = r2 THEN t2 ELSE t1]

Workers == Permutations(Worker)
===============================================================================
