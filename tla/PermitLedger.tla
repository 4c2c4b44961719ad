---------------------------- MODULE PermitLedger ----------------------------
(***************************************************************************)
(* UniversalConnectionLedger in memory: one declaration, its grants, its   *)
(* single-use permits, the finite structural budget, the sliding resource  *)
(* windows, the permit-signing keys and the event chain.                   *)
(*                                                                         *)
(* A public call holds the engine's lock from its first statement to its   *)
(* last, so a call is one action.  A call reads the clock several times,   *)
(* and the clock moves while it runs: an action starts at `now' and takes  *)
(* its later readings as parameters.  A call that is refused, or that only *)
(* repeats what is recorded, and changes nothing is a ClockStep.           *)
(*                                                                         *)
(* An Intent stands for one submission (an intent with its evidence, one   *)
(* canonical hash); a permit is issued for at most one intent, so permits, *)
(* decisions and receipts are indexed by it.  Time is in whole seconds.    *)
(***************************************************************************)
EXTENDS UnitSums, Sequences

CONSTANTS
  Intent,              \* submissions that may arrive
  Key, KeyOf,          \* idempotency keys, and the one each submission carries
  Grant, GrantOf,      \* authority grants, and the one each submission names
  ValidFrom,           \* first instant of a grant
  ValidUntil,          \* first instant after a grant
  Cost,                \* structural_cost of the action of a submission
  Resource,            \* resource_catalog
  Needs,               \* resource ids an action claims
  Claim,               \* Claim[r][i]: the amount of r that i claims
  Reserving,           \* resources with reservation_required
  Limit, Window,       \* max_committed_per_window and window_seconds
  Capacity,            \* structural_budget.capacity
  TTL,                 \* permit_ttl_seconds
  EffectiveFrom,       \* validity of the declaration, as [from, until)
  ExpiresAt,
  Signer, FirstSigner, \* permit signing keys; the one of the constructor
  Instant,             \* readings the clock may give
  MayStepBack,         \* whether the wall clock may be set back
  Stamp,               \* caller-supplied timestamps
  Skew                 \* tolerated future of a caller's timestamp, 5 s in code

None == "none"

ASSUME IntentAssumption ==
  /\ IsFiniteSet(Intent)
  /\ None \notin Intent
  /\ KeyOf \in [Intent -> Key]
  /\ GrantOf \in [Intent -> Grant]
  /\ Cost \in [Intent -> Nat]
  /\ Needs \in [Intent -> SUBSET Resource]
  /\ Claim \in [Resource -> [Intent -> Nat]]
  /\ \A i \in Intent : \A r \in Resource \ Needs[i] : Claim[r][i] = 0

ASSUME DeclarationAssumption ==
  /\ ValidFrom \in [Grant -> Int]
  /\ ValidUntil \in [Grant -> Int]
  /\ Reserving \subseteq Resource
  /\ Limit \in [Resource -> Nat]
  /\ Window \in [Resource -> Nat \ {0}]
  /\ Capacity \in Nat
  /\ TTL \in Nat \ {0}
  /\ EffectiveFrom \in Int
  /\ ExpiresAt \in Int

ASSUME EnvironmentAssumption ==
  /\ FirstSigner \in Signer
  /\ Instant \subseteq Int
  /\ Stamp \subseteq Int
  /\ Skew \in Nat
  /\ MayStepBack \in BOOLEAN

VARIABLES
  now,           \* the clock
  status,        \* DRAFT or ACTIVE
  grants,        \* grants issued
  revokedGrants,
  idempotency,   \* per key, the submission that took it
  decisions,     \* per submission, the disposition recorded
  permits,       \* per submission, its PermitRecord
  remaining,     \* structural_remaining
  committed,     \* committed_resources, a list of debits with their instants
  receipts,      \* execution_replays: the request each receipt answers
  signer,        \* key id of the active permit signer
  verifiers,     \* key ids the engine can verify
  revokedKeys,
  events,        \* the event chain
  reply          \* the operator result of the call that just ended, if any

stateVars == <<status, grants, revokedGrants, idempotency, decisions, permits,
               remaining, committed, receipts, signer, verifiers, revokedKeys,
               events>>
vars == <<now, stateVars, reply>>

Dispositions == {None, "ALLOW", "REFUSAL", "MANUAL_REVIEW"}
Outcomes == {"COMMITTED", "FAILED", "ABORTED"}
AuthorityFaults == {"AUTHORITY_UNKNOWN", "AUTHORITY_REVOKED",
                    "AUTHORITY_NOT_YET_VALID", "AUTHORITY_EXPIRED"}
Reasons == AuthorityFaults \cup {"PERMIT_EXPIRED", "PERMIT_KEY_REVOKED",
                                 "STATE_ANCHOR_CHANGED", "RESOURCE_WINDOW_LIMIT"}

PermitRecord ==
  [issuedAt: Int, expiresAt: Int, ttl: 1 .. TTL, key: Signer, consumed: BOOLEAN,
   active: BOOLEAN, reason: Reasons \cup {None}]

NoPermit ==
  [issuedAt |-> 0, expiresAt |-> 0, ttl |-> 1, key |-> FirstSigner,
   consumed |-> FALSE, active |-> FALSE, reason |-> None]

\* An execution request for a known permit.  bound: it carries the permit's
\* connector and binding; anchored: it carries the permit's state anchor.
Request == [outcome: Outcomes, stamp: Stamp, bound: BOOLEAN, anchored: BOOLEAN]
NoRequest ==
  [outcome |-> None, stamp |-> 0, bound |-> FALSE, anchored |-> FALSE]

Issued(i) == decisions[i] = "ALLOW"
Debit == [intent: Intent, at: Int]
EventTypes == {"DECLARATION_ACTIVATED", "AUTHORITY_GRANTED", "AUTHORITY_REVOKED",
               "INTENT_NON_EXECUTABLE", "PERMIT_ISSUED", "EXECUTION_RECORDED"}
Event == [type: EventTypes, subject: Intent \cup Grant \cup {None}]

\* An operator result, and the absence of one.
Answer(i, disposition) == [intent |-> i, disposition |-> disposition]
Silence == Answer(None, None)

-----------------------------------------------------------------------------
(* Clock and validity *)

\* A reading u that may follow the reading t.
Follows(t, u) == MayStepBack \/ t <= u

InForce(t) == EffectiveFrom <= t /\ t < ExpiresAt
Active(t) == status = "ACTIVE" /\ InForce(t)

GrantFault(g, t) ==
  IF g \notin grants THEN "AUTHORITY_UNKNOWN"
  ELSE IF g \in revokedGrants THEN "AUTHORITY_REVOKED"
  ELSE IF t < ValidFrom[g] THEN "AUTHORITY_NOT_YET_VALID"
  ELSE IF t >= ValidUntil[g] THEN "AUTHORITY_EXPIRED"
  ELSE None

-----------------------------------------------------------------------------
(* Reservations and windows *)

Invalidated(record, reason) ==
  [record EXCEPT !.active = FALSE, !.reason = reason]

\* The permits ps whose reservations hold capacity.
Held(ps) == {i \in Intent : ps[i].active /\ ~ps[i].consumed}

\* _purge_expired_reservations: every read of capacity starts with it.
Purged(ps, t) ==
  [i \in Intent |-> IF i \in Held(ps) /\ ps[i].expiresAt <= t
                    THEN Invalidated(ps[i], "PERMIT_EXPIRED")
                    ELSE ps[i]]

\* Mutation: a revocation leaves the outstanding permits alone.
ReleasedNone(ps, S, reason, t) == Purged(ps, t)

\* Mutation: a revocation rewrites permits that ended before it.
ReleasedAll(ps, S, reason, t) ==
  [i \in Intent |-> IF i \in S /\ decisions[i] = "ALLOW"
                    THEN Invalidated(Purged(ps, t)[i], reason)
                    ELSE Purged(ps, t)[i]]

\* _release_reservations: expiry is settled first, then the live permits of S
\* die of the reason given.
Released(ps, S, reason, t) ==
  LET settled == Purged(ps, t) IN
  [i \in Intent |-> IF i \in S \cap Held(settled)
                    THEN Invalidated(settled[i], reason)
                    ELSE settled[i]]

StructuralReserved(ps) == SumOver(Held(ps), Cost)

ResourceReserved(ps, r) ==
  IF r \in Reserving THEN SumOver(Held(ps), Claim[r]) ELSE 0

\* Mutation: a debit later than t is not counted.
CommittedUpTo(r, t) ==
  SumOver({k \in DOMAIN committed : t - committed[k].at \in 0 .. Window[r]},
          [k \in DOMAIN committed |-> Claim[r][committed[k].intent]])

\* Debits made at or after t - Window[r]; the lower bound counts, and so does
\* a debit later than t, which a clock set back leaves behind.
CommittedInWindow(r, t) ==
  SumOver({k \in DOMAIN committed : t - committed[k].at <= Window[r]},
          [k \in DOMAIN committed |-> Claim[r][committed[k].intent]])

\* Mutation: the gate forgets what is reserved.
StructuralGateOfRemaining(i, ps) == remaining >= Cost[i]

StructuralGate(i, ps) == remaining - StructuralReserved(ps) >= Cost[i]

\* Mutation: the gate counts what is committed only.
WindowGateOfCommitted(i, ps, t) ==
  \A r \in Needs[i] : CommittedInWindow(r, t) + Claim[r][i] <= Limit[r]

WindowGate(i, ps, t) ==
  \A r \in Needs[i] :
    CommittedInWindow(r, t) + ResourceReserved(ps, r) + Claim[r][i] <= Limit[r]

-----------------------------------------------------------------------------
(* What every call shares *)

\* The call started at `now' and t is its last reading of the clock.
EndsAt(t) == t \in Instant /\ Follows(now, t) /\ now' = t

Appended(type, subject) ==
  events' = Append(events, [type |-> type, subject |-> subject])

ClockStep(t) ==
  /\ EndsAt(t)
  /\ reply' = Silence
  /\ UNCHANGED stateVars

-----------------------------------------------------------------------------
(* activate *)

Activate(t) ==
  /\ EndsAt(t)
  /\ status = "DRAFT"
  /\ InForce(t)
  /\ status' = "ACTIVE"
  /\ Appended("DECLARATION_ACTIVATED", None)
  /\ reply' = Silence
  /\ UNCHANGED <<grants, revokedGrants, idempotency, decisions, permits,
                 remaining, committed, receipts, signer, verifiers, revokedKeys>>

-----------------------------------------------------------------------------
(* issue_grant and revoke_grant *)

\* A grant may start in the future, and is recorded once under its identifier:
\* an exact repeat replays, a changed or revoked one is refused.
IssueGrant(g, t) ==
  /\ EndsAt(t)
  /\ Active(now)
  /\ t < ValidUntil[g]
  /\ g \notin grants
  /\ grants' = grants \cup {g}
  /\ Appended("AUTHORITY_GRANTED", g)
  /\ reply' = Silence
  /\ UNCHANGED <<status, revokedGrants, idempotency, decisions, permits,
                 remaining, committed, receipts, signer, verifiers, revokedKeys>>

\* A revocation needs no active declaration, and a repeat records nothing.
RevokeGrant(g, stamp, t) ==
  /\ EndsAt(t)
  /\ g \in grants \ revokedGrants
  /\ stamp - now <= Skew
  /\ revokedGrants' = revokedGrants \cup {g}
  /\ permits' =
       Released(permits, {i \in Intent : GrantOf[i] = g}, "AUTHORITY_REVOKED", t)
  /\ Appended("AUTHORITY_REVOKED", g)
  /\ reply' = Silence
  /\ UNCHANGED <<status, grants, idempotency, decisions, remaining, committed,
                 receipts, signer, verifiers, revokedKeys>>

-----------------------------------------------------------------------------
(* evaluate_intent, first submission under its key *)

\* What the content of a submission, the declared flags and the resolvers lead
\* to.  UNBOUND: another binding or connector.  OUT_OF_SCOPE: another subject,
\* or an action, target, effect or scope value outside the declaration.
\* DENIED and REVIEW: evidence, resolvers, flags.  OVERCLAIM: a claim that the
\* effect gate refuses whatever was spent before.  A submission is evaluated
\* afresh at most once, so its finding is chosen as it is evaluated.
Findings == {"FIT", "UNBOUND", "OUT_OF_SCOPE", "DENIED", "REVIEW", "OVERCLAIM"}

\* The stages that precede the gate, in their order.
Screening(i, finding, t) ==
  IF finding = "UNBOUND" THEN "BINDING_MISMATCH"
  ELSE IF GrantFault(GrantOf[i], t) # None THEN GrantFault(GrantOf[i], t)
  ELSE IF finding \in {"OUT_OF_SCOPE", "DENIED", "REVIEW"} THEN finding
  ELSE None

\* _effect_gate, on the permits left by the purge it starts with.
Gate(i, finding, ps, t) ==
  IF ~StructuralGate(i, ps) THEN "STRUCTURAL_BUDGET_EXHAUSTED"
  ELSE IF finding = "OVERCLAIM" THEN "RESOURCE_CLAIM"
  ELSE IF ~WindowGate(i, ps, t) THEN "RESOURCE_WINDOW_LIMIT"
  ELSE None

\* Mutation: the submission is looked up instead of its key.
FreshSubmission(i) == Active(now) /\ decisions[i] = None

Fresh(i) == Active(now) /\ idempotency[KeyOf[i]] = None

Earlier(x, y) == IF x <= y THEN x ELSE y

\* Mutation: the end of the declaration does not cap a permit.
LapsesOfGrant(i, t) == Earlier(t + TTL, ValidUntil[GrantOf[i]])

Lapses(i, t) == Earlier(t + TTL, Earlier(ValidUntil[GrantOf[i]], ExpiresAt))

\* Mutation: the remaining lifetime as it comes.
LifetimeUnclamped(i, t) == Lapses(i, t) - t

\* ttl_seconds: the clock may pass the end of the declaration inside the call,
\* and the lifetime is sealed as one second at least.
Lifetime(i, t) == IF Lapses(i, t) - t >= 1 THEN Lapses(i, t) - t ELSE 1

NewPermit(i, t) ==
  [issuedAt |-> t, expiresAt |-> Lapses(i, t), ttl |-> Lifetime(i, t),
   key |-> signer, consumed |-> FALSE, active |-> TRUE, reason |-> None]

\* The disposition is recorded and the key is taken.
Finishes(i, disposition) ==
  /\ decisions' = [decisions EXCEPT ![i] = disposition]
  /\ idempotency' = [idempotency EXCEPT ![KeyOf[i]] = i]
  /\ reply' = Answer(i, disposition)
  /\ UNCHANGED <<status, grants, revokedGrants, remaining, committed, receipts,
                 signer, verifiers, revokedKeys>>

\* Refused before the gate: no reservation is touched.
ScreenOut(i, finding, t) ==
  /\ EndsAt(t)
  /\ Fresh(i)
  /\ LET code == Screening(i, finding, t) IN
     /\ code # None
     /\ Finishes(i, IF code = "REVIEW" THEN "MANUAL_REVIEW" ELSE "REFUSAL")
  /\ Appended("INTENT_NON_EXECUTABLE", i)
  /\ UNCHANGED permits

RefuseAtGate(i, finding, t) ==
  /\ EndsAt(t)
  /\ Fresh(i)
  /\ Screening(i, finding, t) = None
  /\ permits' = Purged(permits, t)
  /\ Gate(i, finding, Purged(permits, t), t) # None
  /\ Finishes(i, "REFUSAL")
  /\ Appended("INTENT_NON_EXECUTABLE", i)

IssuePermit(i, t) ==
  /\ EndsAt(t)
  /\ Fresh(i)
  /\ Screening(i, "FIT", t) = None
  /\ Gate(i, "FIT", Purged(permits, t), t) = None
  /\ permits' = [Purged(permits, t) EXCEPT ![i] = NewPermit(i, t)]
  /\ Finishes(i, "ALLOW")
  /\ Appended("PERMIT_ISSUED", i)

-----------------------------------------------------------------------------
(* evaluate_intent, resubmission or conflict *)

Replays(i) == Active(now) /\ idempotency[KeyOf[i]] = i

\* A recorded refusal is answered again as it was.
ReplayRefusal(i, t) ==
  /\ EndsAt(t)
  /\ Replays(i)
  /\ ~Issued(i)
  /\ reply' = Answer(i, decisions[i])
  /\ UNCHANGED stateVars

\* Mutation: a revoked key answers first.
ReplayVerdictOfKey(i, ps, u) ==
  IF ps[i].key \in revokedKeys THEN "REFUSAL"
  ELSE IF ps[i].consumed THEN "PERMIT_ALREADY_CONSUMED"
  ELSE IF ps[i].reason = "PERMIT_EXPIRED" THEN "PERMIT_EXPIRED"
  ELSE IF ps[i].reason # None THEN "REFUSAL"
  ELSE IF GrantFault(GrantOf[i], u) # None THEN "REFUSAL"
  ELSE "ALLOW"

\* Mutation: a replay does not read the grant again.
ReplayVerdictOfRecord(i, ps, u) ==
  IF ps[i].consumed THEN "PERMIT_ALREADY_CONSUMED"
  ELSE IF ps[i].reason = "PERMIT_EXPIRED" THEN "PERMIT_EXPIRED"
  ELSE IF ps[i].key \in revokedKeys \/ ps[i].reason # None THEN "REFUSAL"
  ELSE "ALLOW"

\* What the permit of i answers once its key has been looked up.
ReplayVerdict(i, ps, u) ==
  IF ps[i].consumed THEN "PERMIT_ALREADY_CONSUMED"
  ELSE IF ps[i].reason = "PERMIT_EXPIRED" THEN "PERMIT_EXPIRED"
  ELSE IF ps[i].key \in revokedKeys THEN "REFUSAL"
  ELSE IF ps[i].reason # None THEN "REFUSAL"
  ELSE IF GrantFault(GrantOf[i], u) # None THEN "REFUSAL"
  ELSE "ALLOW"

\* No event is appended.  Expired reservations are purged at the reading t
\* unless the key of the permit was revoked; the grant is read again at u,
\* and a grant that lapsed in between kills the permit.
ReplayAllow(i, t, u) ==
  /\ t \in Instant /\ Follows(now, t) /\ Follows(t, u)
  /\ u \in Instant /\ now' = u
  /\ Replays(i)
  /\ Issued(i)
  /\ LET ps == IF permits[i].key \in revokedKeys THEN permits
               ELSE Purged(permits, t)
         lapsed == /\ ps[i].key \notin revokedKeys
                   /\ ~ps[i].consumed /\ ps[i].reason = None
                   /\ GrantFault(GrantOf[i], u) # None
     IN /\ permits' = IF lapsed
                      THEN [ps EXCEPT ![i] =
                              Invalidated(ps[i], GrantFault(GrantOf[i], u))]
                      ELSE ps
        /\ reply' = IF ReplayVerdict(i, ps, u) \in Dispositions
                    THEN Answer(i, ReplayVerdict(i, ps, u)) ELSE Silence
  /\ UNCHANGED <<status, grants, revokedGrants, idempotency, decisions, remaining,
                 committed, receipts, signer, verifiers, revokedKeys, events>>

-----------------------------------------------------------------------------
(* commit_execution *)

\* Refusals that also invalidate the permit.
Killing == AuthorityFaults \cup
             {"PERMIT_EXPIRED", "STATE_ANCHOR_CHANGED", "RESOURCE_WINDOW_LIMIT"}

WindowAdmits(i, t) ==
  \A r \in Needs[i] : CommittedInWindow(r, t) + Claim[r][i] <= Limit[r]

\* The checks on a permit that is not consumed, in their order.
CommitVerdict(i, req, t) ==
  IF ~Active(now) THEN "DECLARATION_NOT_ACTIVE"
  ELSE IF ~Issued(i) THEN "PERMIT_UNKNOWN"
  ELSE IF permits[i].reason # None THEN permits[i].reason
  ELSE IF ~permits[i].active THEN "RESERVATION_INACTIVE"
  ELSE IF GrantFault(GrantOf[i], t) # None THEN GrantFault(GrantOf[i], t)
  ELSE IF t >= permits[i].expiresAt THEN "PERMIT_EXPIRED"
  ELSE IF permits[i].key \in revokedKeys THEN "PERMIT_KEY_REVOKED"
  ELSE IF ~req.bound THEN "EXECUTION_BINDING_MISMATCH"
  ELSE IF ~req.anchored THEN "STATE_ANCHOR_CHANGED"
  ELSE IF req.stamp - t > Skew THEN "EXECUTION_TIME_IN_FUTURE"
  ELSE IF permits[i].issuedAt - req.stamp > Skew
       THEN "EXECUTION_TIME_PRECEDES_PERMIT"
  ELSE IF req.outcome = "COMMITTED" /\ Cost[i] > remaining
       THEN "STRUCTURAL_DEBIT_UNAVAILABLE"
  ELSE IF req.outcome = "COMMITTED" /\ ~WindowAdmits(i, t)
       THEN "RESOURCE_WINDOW_LIMIT"
  ELSE None

\* Mutation: a failed or aborted execution debits too.
DebitsAlways(req) == TRUE

\* Only a committed outcome is charged.
Debits(req) == req.outcome = "COMMITTED"

\* Mutation: the reservation is released and the permit is not consumed.
ReleasedOnly(record) == [record EXCEPT !.active = FALSE]

Consumed(record) == [record EXCEPT !.consumed = TRUE, !.active = FALSE]

\* The event, the debit, the consumption and the receipt are one step: an
\* exception on the way restores what the call found.
RecordExecution(i, req, t) ==
  /\ EndsAt(t)
  /\ ~permits[i].consumed
  /\ CommitVerdict(i, req, t) = None
  /\ permits' = [permits EXCEPT ![i] = Consumed(permits[i])]
  /\ receipts' = [receipts EXCEPT ![i] = req]
  /\ IF Debits(req)
     THEN /\ remaining' = remaining - Cost[i]
          /\ committed' = Append(committed, [intent |-> i, at |-> t])
     ELSE UNCHANGED <<remaining, committed>>
  /\ Appended("EXECUTION_RECORDED", i)
  /\ reply' = Silence
  /\ UNCHANGED <<status, grants, revokedGrants, idempotency, decisions, signer,
                 verifiers, revokedKeys>>

RefuseExecution(i, req, t) ==
  /\ EndsAt(t)
  /\ ~permits[i].consumed
  /\ LET code == CommitVerdict(i, req, t) IN
     /\ code # None
     /\ permits' = IF permits[i].active /\ code \in Killing
                   THEN [permits EXCEPT ![i] = Invalidated(permits[i], code)]
                   ELSE permits
     /\ reply' = Silence
  /\ UNCHANGED <<status, grants, revokedGrants, idempotency, decisions, remaining,
                 committed, receipts, signer, verifiers, revokedKeys, events>>

-----------------------------------------------------------------------------
(* rotate_permit_signer and revoke_permit_key *)

\* A key identifier names one key for good.
NewKey(k) == k \notin revokedKeys \cup verifiers

RotateSigner(k, t) ==
  /\ EndsAt(t)
  /\ NewKey(k)
  /\ verifiers' = verifiers \cup {k}
  /\ signer' = k
  /\ reply' = Silence
  /\ UNCHANGED <<status, grants, revokedGrants, idempotency, decisions, permits,
                 remaining, committed, receipts, revokedKeys, events>>

\* Custody appends no event.
RevokeKey(k, t) ==
  /\ EndsAt(t)
  /\ k \in verifiers \ {signer}
  /\ verifiers' = verifiers \ {k}
  /\ revokedKeys' = revokedKeys \cup {k}
  /\ permits' = Released(permits, {i \in Intent : permits[i].key = k},
                         "PERMIT_KEY_REVOKED", t)
  /\ reply' = Silence
  /\ UNCHANGED <<status, grants, revokedGrants, idempotency, decisions, remaining,
                 committed, receipts, signer, events>>

-----------------------------------------------------------------------------
Init ==
  /\ now \in Instant
  /\ status = "DRAFT"
  /\ grants = {}
  /\ revokedGrants = {}
  /\ idempotency = [k \in Key |-> None]
  /\ decisions = [i \in Intent |-> None]
  /\ permits = [i \in Intent |-> NoPermit]
  /\ remaining = Capacity
  /\ committed = <<>>
  /\ receipts = [i \in Intent |-> NoRequest]
  /\ signer = FirstSigner
  /\ verifiers = {FirstSigner}
  /\ revokedKeys = {}
  /\ events = <<>>
  /\ reply = Silence

Governs(t) ==
  \/ Activate(t)
  \/ \E g \in Grant : IssueGrant(g, t)
  \/ \E g \in Grant, stamp \in Stamp : RevokeGrant(g, stamp, t)
  \/ \E k \in Signer : RotateSigner(k, t)
  \/ \E k \in Signer : RevokeKey(k, t)

Evaluates(i, t) ==
  \/ \E finding \in Findings : ScreenOut(i, finding, t)
  \/ \E finding \in Findings : RefuseAtGate(i, finding, t)
  \/ IssuePermit(i, t)
  \/ ReplayRefusal(i, t)
  \/ \E u \in Instant : ReplayAllow(i, t, u)

Executes(i, t) ==
  \E req \in Request :
    \/ RecordExecution(i, req, t)
    \/ RefuseExecution(i, req, t)

Next ==
  \E t \in Instant :
    \/ ClockStep(t)
    \/ Governs(t)
    \/ \E i \in Intent : Evaluates(i, t)
    \/ \E i \in Intent : Executes(i, t)

Spec == Init /\ [][Next]_vars

-----------------------------------------------------------------------------
(* Properties *)

\* Every variable keeps its type; the chain and the debit list are sequences.
TypeOK ==
  /\ now \in Instant
  /\ status \in {"DRAFT", "ACTIVE"}
  /\ grants \subseteq Grant
  /\ revokedGrants \subseteq grants
  /\ idempotency \in [Key -> Intent \cup {None}]
  /\ decisions \in [Intent -> Dispositions]
  /\ permits \in [Intent -> PermitRecord]
  /\ remaining \in Int
  /\ committed \in Seq(Debit)
  /\ receipts \in [Intent -> Request \cup {NoRequest}]
  /\ signer \in Signer
  /\ verifiers \subseteq Signer
  /\ revokedKeys \subseteq Signer
  /\ events \in Seq(Event)

\* The permits that were committed.
Spent == {i \in Intent : permits[i].consumed /\ receipts[i].outcome = "COMMITTED"}

\* The budget is a monotone counter of committed actions: what is gone from
\* the capacity is exactly the cost of the permits committed, whatever was
\* reserved, released, failed, expired or replayed on the way; and the debits
\* the windows count are those permits, each once.
BudgetConserved ==
  /\ remaining + SumOver(Spent, Cost) = Capacity
  /\ {committed[k].intent : k \in DOMAIN committed} = Spent
  /\ Len(committed) = Cardinality(Spent)

\* Live reservations never promise more than is left, so the integrity halt
\* STRUCTURAL_DEBIT_UNAVAILABLE of commit_execution cannot be reached.
ReservationsCovered == StructuralReserved(permits) <= remaining

\* The resource window: in every closed interval of the window's length the
\* committed amounts stay within the limit, even when permits for a resource
\* without reservations raced and even when the clock was set back.
WindowHolds ==
  \A r \in Resource, t \in Instant :
    SumOver({k \in DOMAIN committed :
               committed[k].at \in (t - Window[r]) .. t},
            [k \in DOMAIN committed |-> Claim[r][committed[k].intent]])
      <= Limit[r]

\* A reservation is a promise: for a resource with reservation_required and a
\* clock that is not set back, the live claims fit on top of what the window
\* already holds, so a commit under them is never refused for the window.
ReservationIsAPromise ==
  \A r \in Reserving :
    CommittedInWindow(r, now) + ResourceReserved(permits, r) <= Limit[r]

\* With a clock that is not set back, every debit was made while its permit, its grant
\* and the declaration were in force, though commit_execution holds the declaration
\* against one reading of it and the permit and the grant against a later one.
DebitsUnderAuthority ==
  \A k \in DOMAIN committed :
    LET i == committed[k].intent
        t == committed[k].at
    IN /\ Issued(i) /\ permits[i].consumed
       /\ InForce(t) /\ t < permits[i].expiresAt
       /\ ValidFrom[GrantOf[i]] <= t /\ t < ValidUntil[GrantOf[i]]

\* A reservation ends for exactly one reason: a live permit has none, a
\* consumed one has none, and any other issued permit names its cause, so
\* RESERVATION_INACTIVE is never the answer.
OneCause ==
  \A i \in Intent :
    /\ permits[i].active => Issued(i) /\ ~permits[i].consumed
    /\ permits[i].consumed => Issued(i) /\ permits[i].reason = None
    /\ Issued(i) /\ ~permits[i].consumed =>
         (permits[i].active <=> permits[i].reason = None)

\* Revoking a grant or a signing key leaves no live permit under it, and no
\* later call brings one back.
RevocationReleases ==
  \A i \in Held(permits) :
    GrantOf[i] \notin revokedGrants /\ permits[i].key \notin revokedKeys

\* The engine can always verify what it signed or will sign: the active key is
\* registered, no revoked key is, a live permit verifies, and any other one was
\* signed by a key on record, so PERMIT_KEY_UNKNOWN is never the answer.
CustodySound ==
  /\ signer \in verifiers
  /\ verifiers \cap revokedKeys = {}
  /\ \A i \in Intent :
       /\ i \in Held(permits) => permits[i].key \in verifiers
       /\ Issued(i) => permits[i].key \in verifiers \cup revokedKeys

Positions(type, subject) ==
  {n \in DOMAIN events : events[n].type = type /\ events[n].subject = subject}

\* The chain tells the executions: a permit is consumed exactly when one
\* EXECUTION_RECORDED names it, after its PERMIT_ISSUED, and never after the
\* revocation of its grant.
ChainTellsExecutions ==
  \A i \in Intent :
    /\ Cardinality(Positions("EXECUTION_RECORDED", i))
         = IF permits[i].consumed THEN 1 ELSE 0
    /\ \A n \in Positions("EXECUTION_RECORDED", i) :
         /\ \E m \in Positions("PERMIT_ISSUED", i) : m < n
         /\ \A m \in Positions("AUTHORITY_REVOKED", GrantOf[i]) : n < m

\* One verdict per submission and per key: the chain holds at most one
\* verdict event for the submissions that share a key.
OneVerdictPerKey ==
  \A n, m \in DOMAIN events :
    /\ {events[n].type, events[m].type}
         \subseteq {"PERMIT_ISSUED", "INTENT_NON_EXECUTABLE"}
    /\ KeyOf[events[n].subject] = KeyOf[events[m].subject]
    => n = m

\* An ALLOW, first answer or replay, names a permit that could commit when the
\* call came in: live, unexpired, under a key the engine still verifies and a
\* grant not revoked, which is in force at the last reading of the clock too.
AllowIsUsable ==
  [][reply'.disposition = "ALLOW" =>
       LET i == reply'.intent IN
       /\ i \in Held(permits')
       /\ permits'[i].key \in verifiers'
       /\ GrantOf[i] \in grants' \ revokedGrants'
       /\ now < permits'[i].expiresAt
       /\ ValidFrom[GrantOf[i]] <= now' /\ now' < ValidUntil[GrantOf[i]]]_vars

\* A consumed or expired permit is never replayed as a REFUSAL, which would
\* invite the operator to submit a committed action again.
ReplayTellsLifecycle ==
  reply.disposition = "REFUSAL" =>
    /\ ~permits[reply.intent].consumed
    /\ permits[reply.intent].reason # "PERMIT_EXPIRED"

\* What ended a permit ends it for good: no call, no later grant and no clock
\* movement revives it or rewrites its cause, its receipt or its debit.
EndsForGood ==
  [][\A i \in Intent :
       Issued(i) /\ ~permits[i].active =>
         permits'[i] = permits[i] /\ receipts'[i] = receipts[i]]_vars

\* The life of each permit as PermitBook sees it.
LifeOf(i) ==
  IF i \in Held(permits) THEN "LIVE"
  ELSE IF i \in Spent THEN "SPENT"
  ELSE IF permits[i].consumed THEN "CLOSED"
  ELSE IF Issued(i) THEN "DEAD"
  ELSE "NONE"

Book == INSTANCE PermitBook WITH life <- [i \in Intent |-> LifeOf(i)],
                                 left <- remaining

\* Every call is one step of the book, or none: nothing that the engine does
\* about time, grants, keys, windows or replays breaks the promise.
Implements == Book!BookSpec

\* issued_at + ttl_seconds equals expires_at, as README.md:397 states.
SealedLifetime ==
  \A i \in Intent :
    Issued(i) => permits[i].issuedAt + permits[i].ttl = permits[i].expiresAt
=============================================================================
