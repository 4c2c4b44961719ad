--------------------------- MODULE MCPermitLedger ---------------------------
(***************************************************************************)
(* Instances of PermitLedger for TLC.  Each configuration takes the        *)
(* definitions that its question needs.                                    *)
(***************************************************************************)
EXTENDS PermitLedger, TLC

LOCAL INSTANCE FiniteSetsExt

CONSTANTS a, b, c, g, h, ka, kb, kc, fee, quota, s1, s2

\* The sums of UnitSums are the folds that sum() computes.
ASSUME SumsAreFolds ==
  \A S \in SUBSET {1, 2, 3} : \A w \in [{1, 2, 3} -> 0 .. 3] :
    LET weight(x) == w[x] IN SumOver(S, w) = MapThenSumSet(weight, S)

\* One grant that outlasts the run.
OneGrant == [i \in Intent |-> g]
FromStart == [x \in Grant |-> 0]
BeyondEnd == [x \in Grant |-> 9]

OwnKey == [i \in Intent |-> CASE i = a -> ka [] i = b -> kb [] i = c -> kc]

\* No resource is claimed.
NoNeeds == [i \in Intent |-> {}]
NoClaim == [r \in Resource |-> [i \in Intent |-> 0]]
NoLimit == [r \in Resource |-> 0]

\* budget: a and b compete for a capacity of 3, and c reuses the key of a.
SharedKey == a :> ka @@ b :> kb @@ c :> ka
RivalCost == a :> 2 @@ b :> 2 @@ c :> 1

\* authority: two grants, one that starts late and one that ends early.
TwoGrants == [i \in Intent |-> IF i = a THEN g ELSE h]
LateStart == g :> 2 @@ h :> 1
EarlyEnd == g :> 9 @@ h :> 3
UnitCost == [i \in Intent |-> 1]

\* budget: the fee is not reserved, so permits race, and two claims do not fit.
FeeNeeds == [i \in Intent |-> {fee}]
FeeClaim == fee :> (a :> 2 @@ b :> 1 @@ c :> 2)

\* authority: the quota is reserved, and one of two claims fits.
QuotaNeeds == [i \in Intent |-> {quota}]
QuotaClaim == quota :> (a :> 1 @@ b :> 1)

OneUnit == [r \in Resource |-> 1]
OneSecond == [r \in Resource |-> 1]
TwoUnits == [r \in Resource |-> 2]
=============================================================================
