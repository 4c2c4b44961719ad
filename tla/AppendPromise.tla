---------------------------- MODULE AppendPromise ----------------------------
(***************************************************************************)
(* What a governed append promises: at most one external effect for each   *)
(* operation; one verdict, given once, that tells whether the effect took  *)
(* place and whether it was charged; and no effect once the verdict says   *)
(* that there is none.  What nobody can tell is handed over to an operator *)
(* and is never charged.  OtcsBridge and DocumentRelease implement it      *)
(* (their KeepsPromise).                                                   *)
(***************************************************************************)
CONSTANT Intent  \* the operations

VARIABLES
  verdict,  \* OPEN, COMMITTED, FAILED, NOT_EXECUTED or HANDED_OVER
  effects,  \* the operations that took effect outside
  debited   \* the operations charged to the ledger

promiseVars == <<verdict, effects, debited>>

PromiseInit ==
  /\ verdict = [o \in Intent |-> "OPEN"]
  /\ effects = {}
  /\ debited = {}

\* An effect may also follow a handover: a request that was sent may arrive late.
TakeEffect(o) ==
  /\ verdict[o] \in {"OPEN", "HANDED_OVER"}
  /\ o \notin effects
  /\ effects' = effects \cup {o}
  /\ UNCHANGED <<verdict, debited>>

Debit(o) ==
  /\ verdict[o] = "OPEN"
  /\ o \in effects \ debited
  /\ debited' = debited \cup {o}
  /\ UNCHANGED <<verdict, effects>>

Conclude(o, v) ==
  /\ verdict[o] = "OPEN"
  /\ \/ v = "COMMITTED" /\ o \in debited
     \/ v \in {"FAILED", "NOT_EXECUTED"} /\ o \notin effects
     \/ v = "HANDED_OVER" /\ o \notin debited
  /\ verdict' = [verdict EXCEPT ![o] = v]
  /\ UNCHANGED <<effects, debited>>

PromiseNext ==
  \E o \in Intent :
    \/ TakeEffect(o)
    \/ Debit(o)
    \/ \E v \in {"COMMITTED", "FAILED", "NOT_EXECUTED", "HANDED_OVER"} :
         Conclude(o, v)

PromiseSpec == PromiseInit /\ [][PromiseNext]_promiseVars
=============================================================================
