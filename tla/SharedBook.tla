------------------------------ MODULE SharedBook ------------------------------
(***************************************************************************)
(* What the engines that share one SQLite file promise together: the file  *)
(* behaves as one serial engine.  A permit is issued once, under a key not *)
(* revoked; it is executed once, or it dies for one reason, and a key that *)
(* is revoked is dead, with every permit that was live under it.           *)
(***************************************************************************)
CONSTANTS Permit, Key, None

VARIABLES fate,     \* per permit
          sealed,   \* per permit, the key that signed it
          revoked   \* the revoked keys

Live == {k \in Permit : fate[k] = "live"}

BookInit ==
  /\ fate = [k \in Permit |-> "absent"]
  /\ sealed = [k \in Permit |-> None]
  /\ revoked = {}

\* The permits of S ran out of time.
Lapse(S) ==
  [k \in Permit |-> IF k \in S \cap Live THEN "PERMIT_EXPIRED" ELSE fate[k]]

Issue(k, key, S) ==
  /\ fate[k] = "absent"
  /\ key \notin revoked
  /\ fate' = [Lapse(S) EXCEPT ![k] = "live"]
  /\ sealed' = [sealed EXCEPT ![k] = key]
  /\ UNCHANGED revoked

Execute(k) ==
  /\ fate[k] = "live"
  /\ sealed[k] \notin revoked
  /\ fate' = [fate EXCEPT ![k] = "consumed"]
  /\ UNCHANGED <<sealed, revoked>>

Expire(S) ==
  /\ fate' = Lapse(S)
  /\ UNCHANGED <<sealed, revoked>>

Revoke(key, S) ==
  /\ revoked' = revoked \cup {key}
  /\ fate' = [k \in Permit |->
                IF Lapse(S)[k] = "live" /\ sealed[k] = key
                THEN "PERMIT_KEY_REVOKED" ELSE Lapse(S)[k]]
  /\ UNCHANGED sealed

BookNext ==
  \E S \in SUBSET Permit :
    \/ \E k \in Permit, key \in Key : Issue(k, key, S)
    \/ \E k \in Permit : Execute(k)
    \/ Expire(S)
    \/ \E key \in Key : Revoke(key, S)

BookSpec == BookInit /\ [][BookNext]_<<fate, sealed, revoked>>
=============================================================================
