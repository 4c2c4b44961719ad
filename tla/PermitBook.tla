----------------------------- MODULE PermitBook -----------------------------
(***************************************************************************)
(* What the engine promises about permits and the structural budget, with  *)
(* time, grants, keys, windows and replays left out: a permit lives once,  *)
(* ends once, and the live permits never promise more than is left.        *)
(* PermitLedger implements it (PermitLedger!Implements).                   *)
(***************************************************************************)
EXTENDS UnitSums

CONSTANTS
  Intent,   \* submissions, a permit each
  Cost,     \* Cost[i]: structural units a commit of i takes
  Capacity  \* the budget

\* A life is NONE, LIVE, SPENT (committed), CLOSED (failed or aborted) or DEAD
\* (expired, revoked or invalidated by a refusal).
VARIABLES
  life,  \* per submission, where its permit stands
  left   \* what remains of the budget

bookVars == <<life, left>>

Live == {i \in Intent : life[i] = "LIVE"}

BookInit ==
  /\ life = [i \in Intent |-> "NONE"]
  /\ left = Capacity

\* The permits of K end as a call settles what has lapsed or been revoked.
Ended(K) == [i \in Intent |-> IF i \in K THEN "DEAD" ELSE life[i]]

Promise(i, K) ==
  /\ life[i] = "NONE"
  /\ K \subseteq Live
  /\ SumOver(Live \ K, Cost) + Cost[i] <= left
  /\ life' = [Ended(K) EXCEPT ![i] = "LIVE"]
  /\ UNCHANGED left

Spend(i) ==
  /\ life[i] = "LIVE"
  /\ life' = [life EXCEPT ![i] = "SPENT"]
  /\ left' = left - Cost[i]

Close(i) ==
  /\ life[i] = "LIVE"
  /\ life' = [life EXCEPT ![i] = "CLOSED"]
  /\ UNCHANGED left

End(K) ==
  /\ K \subseteq Live
  /\ life' = Ended(K)
  /\ UNCHANGED left

BookNext ==
  \/ \E K \in SUBSET Live : End(K)
  \/ \E i \in Intent : Spend(i) \/ Close(i)
  \/ \E K \in SUBSET Live, i \in Intent : Promise(i, K)

BookSpec == BookInit /\ [][BookNext]_bookVars
=============================================================================
