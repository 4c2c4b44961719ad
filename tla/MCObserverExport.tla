-------------------------- MODULE MCObserverExport --------------------------
(* Instances of ObserverExport for TLC. *)
EXTENDS ObserverExport, TLC

\* The code computes a chain, and a projection, one event after the other.
Linked(links, what) == Append(links, Link(Len(links), HeadOf(links).hash, what))

ASSUME ChainsAreFolds ==
  \A n \in 0 .. 3 : \A contents \in [1 .. n -> {1, 2}] :
    Rechained(contents) = FoldLeft(Linked, <<>>, contents)

Projected(rows, what) == IF Surfaces(what) THEN Append(rows, PublicRecord(what)) ELSE rows

ASSUME ProjectionsAreFolds ==
  \A n \in 0 .. 3 : \A events \in [1 .. n -> Says] :
    Projection(events) = FoldLeft(Projected, <<>>, events)

\* Two decisions on one intent.
Shared == [d \in Decision |-> "s"]
=============================================================================
