------------------------- MODULE MCDocumentRelease -------------------------
(* Instances of DocumentRelease for TLC. *)
EXTENDS DocumentRelease, TLC

CONSTANTS a, b, c

\* a and b are approved on the empty target, c on the first release.
Heads == [o \in Intent |-> IF o = c THEN 1 ELSE 0]

OneUnit == [o \in Intent |-> 1]
=============================================================================
