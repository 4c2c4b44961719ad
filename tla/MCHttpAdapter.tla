--------------------------- MODULE MCHttpAdapter ---------------------------
(* Instances of HttpAdapter for TLC. *)
EXTENDS HttpAdapter, TLC

CONSTANTS i1, i2, k1, g1, t1, t2

\* Both submissions carry one key, under one grant.
OneKey == [i \in Submission |-> k1]
OneGrant == [i \in Submission |-> g1]

\* Nothing; or the scope, with something that an earlier and a later check finds.
Unscoping == {{}, {"no route", "scope absent"}, {"scope wrong", "not json"}}

Alike == Permutations(Thread) \cup Permutations(Version) \cup Permutations(Submission)
=============================================================================
