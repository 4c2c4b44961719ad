----------------------------- MODULE MCStateStore -----------------------------
(* Processes over one file: they, the permits and the keys are alike.       *)
EXTENDS StateStore

Alike == Permutations(Process) \cup Permutations(Permit) \cup Permutations(Key)
=============================================================================
