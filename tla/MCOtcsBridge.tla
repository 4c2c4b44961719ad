---------------------------- MODULE MCOtcsBridge ----------------------------
(***************************************************************************)
(* Instances of OtcsBridge for TLC.                                        *)
(***************************************************************************)
EXTENDS OtcsBridge, TLC

CONSTANTS a, b, w1, w2

\* All operations expect the head that the project starts with.
SameHead == [o \in Intent |-> 0]

OneUnit == [o \in Intent |-> 1]

\* Operations with one head and one cost are alike, and so are workers.  For
\* invariants only.
Alike == Permutations(Intent) \cup Permutations(Worker)
=============================================================================
