------------------------------ MODULE UnitSums ------------------------------
(***************************************************************************)
(* Sums of natural numbers over finite sets, as the cardinality of a set   *)
(* of units: x contributes the units <<x, 1>> .. <<x, w[x]>>.  The value   *)
(* is that of Python's sum(w[x] for x in S).  Written this way a sum obeys *)
(* the cardinality laws of the library, which a fold does not give a       *)
(* prover; MCPermitLedger compares it with the fold on small sets.         *)
(***************************************************************************)
EXTENDS Integers, FiniteSets

\* The units that the members of S contribute under the weights w.
Units(S, w) == UNION {{x} \X (1 .. w[x]) : x \in S}

SumOver(S, w) == Cardinality(Units(S, w))
=============================================================================
