------------------------- MODULE PermitLedgerProofs -------------------------
(***************************************************************************)
(* PermitLedger for every value of its constants: the laws of sums, what   *)
(* its operators on permits do (Purged, Released, NewPermit), types, safety*)
(* invariants by one inductive invariant (Safe), and that every call is    *)
(* one step of PermitBook or none.  Then that what the engine has recorded *)
(* is right: the debits and their windows, the authority each was made     *)
(* under, the reservations as promises, the events of the chain, and the   *)
(* answers to those who ask again.                                         *)
(*                                                                         *)
(* Every step is of one of three kinds: quiet (some live permits end, and  *)
(* neither the budget nor what is issued changes), one permit is issued,   *)
(* or one execution is recorded.  StepKinds shows it once; most conjuncts  *)
(* of the invariant are then preserved by three cases instead of fourteen. *)
(* The properties of what is recorded are invariants over these, each about*)
(* one or two of the actions (StepActions).                                *)
(***************************************************************************)
EXTENDS PermitLedger, FiniteSetTheorems, TLAPS

-----------------------------------------------------------------------------
(* Sums: the laws of UnitSums *)

\* A member of a sum is a unit of one element.
LEMMA UnitsMember ==
  ASSUME NEW S, NEW w, NEW x
  PROVE  Units(S \cup {x}, w) = Units(S, w) \cup ({x} \X (1 .. w[x]))
BY DEF Units

\* A sum of natural numbers over a finite set is a natural number.
LEMMA SumType ==
  ASSUME NEW S, IsFiniteSet(S), NEW w, \A x \in S : w[x] \in Nat
  PROVE  IsFiniteSet(Units(S, w)) /\ SumOver(S, w) \in Nat
<1> DEFINE bag(x) == {x} \X (1 .. w[x])
           bags   == {bag(x) : x \in S}
           f      == [x \in S |-> bag(x)]
<1>1. f \in Surjection(S, bags)
  BY DEF Surjection
<1>2. IsFiniteSet(bags)
  BY <1>1, FS_Surjection
<1>3. \A T \in bags : IsFiniteSet(T)
  <2> SUFFICES ASSUME NEW x \in S PROVE IsFiniteSet(bag(x))
    OBVIOUS
  <2>1. IsFiniteSet({x})
    BY FS_Singleton
  <2>2. w[x] \in Int
    OBVIOUS
  <2>3. IsFiniteSet(1 .. w[x])
    BY <2>2, FS_Interval
  <2> QED
    BY <2>1, <2>3, FS_Product
<1>4. IsFiniteSet(UNION bags)
  BY <1>2, <1>3, FS_UNION
<1>5. Units(S, w) = UNION bags
  BY DEF Units
<1> QED
  BY <1>4, <1>5, FS_CardinalityType DEF SumOver

LEMMA SumEmpty ==
  ASSUME NEW w
  PROVE  SumOver({}, w) = 0
<1>1. Units({}, w) = {}
  BY DEF Units
<1> QED
  BY <1>1, FS_EmptySet DEF SumOver

\* One more element adds its weight.
LEMMA SumAdd ==
  ASSUME NEW S, IsFiniteSet(S), NEW w, \A y \in S : w[y] \in Nat,
         NEW x, x \notin S, w[x] \in Nat
  PROVE  SumOver(S \cup {x}, w) = SumOver(S, w) + w[x]
<1> DEFINE bag == {x} \X (1 .. w[x])
<1>1. IsFiniteSet(Units(S, w)) /\ Cardinality(Units(S, w)) \in Nat
  BY SumType DEF SumOver
<1>2. IsFiniteSet(bag) /\ Cardinality(bag) = w[x]
  <2>1. IsFiniteSet({x}) /\ Cardinality({x}) = 1
    BY FS_Singleton
  <2>2. IsFiniteSet(1 .. w[x]) /\ Cardinality(1 .. w[x]) = w[x]
    BY FS_Interval
  <2>3. /\ IsFiniteSet(bag)
        /\ Cardinality(bag) = Cardinality({x}) * Cardinality(1 .. w[x])
    BY <2>1, <2>2, FS_Product
  <2> QED
    BY <2>1, <2>2, <2>3
<1>3. Units(S, w) \cap bag = {}
  BY DEF Units
<1>4. Cardinality(Units(S, w) \cup bag)
        = Cardinality(Units(S, w)) + Cardinality(bag)
  <2>1. Cardinality(Units(S, w) \cap bag) = 0
    BY <1>3, FS_EmptySet
  <2>2. Cardinality(Units(S, w) \cup bag)
          = Cardinality(Units(S, w)) + Cardinality(bag)
              - Cardinality(Units(S, w) \cap bag)
    BY <1>1, <1>2, FS_Union
  <2> QED
    BY <1>1, <1>2, <2>1, <2>2
<1>5. Units(S \cup {x}, w) = Units(S, w) \cup bag
  BY UnitsMember
<1> QED
  BY <1>2, <1>4, <1>5 DEF SumOver

\* Fewer elements never weigh more.
LEMMA SumSubset ==
  ASSUME NEW T, IsFiniteSet(T), NEW w, \A y \in T : w[y] \in Nat,
         NEW S, S \subseteq T
  PROVE  SumOver(S, w) <= SumOver(T, w)
<1>1. IsFiniteSet(Units(T, w))
  BY SumType
<1>2. Units(S, w) \in SUBSET Units(T, w)
  BY DEF Units
<1> QED
  BY <1>1, <1>2, FS_Subset DEF SumOver

\* The weights matter on the summed set only.
LEMMA SumSameWeights ==
  ASSUME NEW S, NEW w, NEW v, \A x \in S : w[x] = v[x]
  PROVE  SumOver(S, w) = SumOver(S, v)
<1>1. Units(S, w) = Units(S, v)
  BY DEF Units
<1> QED
  BY <1>1 DEF SumOver

-----------------------------------------------------------------------------
(* Permits that end *)

\* qs is ps with some live permits ended, each for a reason.
Settles(ps, qs) ==
  \A i \in Intent :
    \/ qs[i] = ps[i]
    \/ /\ i \in Held(ps)
       /\ \E reason \in Reasons : qs[i] = Invalidated(ps[i], reason)

LEMMA InvalidatedFields ==
  ASSUME NEW record \in PermitRecord, NEW reason \in Reasons
  PROVE  /\ Invalidated(record, reason) \in PermitRecord
         /\ ~Invalidated(record, reason).active
         /\ Invalidated(record, reason).reason = reason
         /\ (Invalidated(record, reason).consumed <=> record.consumed)
         /\ Invalidated(record, reason).key = record.key
         /\ Invalidated(record, reason).expiresAt = record.expiresAt
BY DEF Invalidated, PermitRecord

\* No reason is the absence of a reason.
LEMMA ReasonsAreNamed == None \notin Reasons
BY DEF None, Reasons, AuthorityFaults

\* The purge ends expired permits and does nothing else.
LEMMA PurgedSettles ==
  ASSUME NEW ps \in [Intent -> PermitRecord], NEW t
  PROVE  /\ Purged(ps, t) \in [Intent -> PermitRecord]
         /\ Settles(ps, Purged(ps, t))
<1>1. "PERMIT_EXPIRED" \in Reasons
  BY DEF Reasons
<1> QED
  BY <1>1, InvalidatedFields DEF Purged, Settles

\* A revocation ends live permits and does nothing else.
LEMMA ReleasedSettles ==
  ASSUME NEW ps \in [Intent -> PermitRecord], NEW t, NEW S, NEW reason \in Reasons
  PROVE  /\ Released(ps, S, reason, t) \in [Intent -> PermitRecord]
         /\ Settles(ps, Released(ps, S, reason, t))
<1> DEFINE qs == Purged(ps, t)
<1>1. qs \in [Intent -> PermitRecord] /\ Settles(ps, qs)
  BY PurgedSettles
<1>2. \A i \in Intent : i \in Held(qs) => i \in Held(ps) /\ qs[i] = ps[i]
  BY <1>1, InvalidatedFields DEF Settles, Held
<1>3. Released(ps, S, reason, t)
        = [i \in Intent |-> IF i \in S \cap Held(qs)
                            THEN Invalidated(qs[i], reason) ELSE qs[i]]
  BY DEF Released
<1> HIDE DEF qs
<1>4. Released(ps, S, reason, t) \in [Intent -> PermitRecord]
  BY <1>1, <1>3, InvalidatedFields
<1>5. Settles(ps, Released(ps, S, reason, t))
  BY <1>1, <1>2, <1>3 DEF Settles
<1> QED
  BY <1>4, <1>5

\* The permits that a settlement leaves live were live and are unchanged.
LEMMA SettlesHeld ==
  ASSUME NEW ps \in [Intent -> PermitRecord], NEW qs, Settles(ps, qs)
  PROVE  \A i \in Held(qs) : i \in Held(ps) /\ qs[i] = ps[i]
BY InvalidatedFields DEF Settles, Held

\* A settlement consumes nothing and keeps every permit's key and its end.
LEMMA SettlesKeeps ==
  ASSUME NEW ps \in [Intent -> PermitRecord], NEW qs, Settles(ps, qs), NEW i \in Intent
  PROVE  /\ (qs[i].consumed <=> ps[i].consumed)
         /\ qs[i].key = ps[i].key /\ qs[i].expiresAt = ps[i].expiresAt
<1>1. CASE qs[i] = ps[i]
  BY <1>1
<1>2. ASSUME NEW reason \in Reasons, qs[i] = Invalidated(ps[i], reason)
      PROVE  /\ (qs[i].consumed <=> ps[i].consumed)
             /\ qs[i].key = ps[i].key /\ qs[i].expiresAt = ps[i].expiresAt
  BY <1>2, InvalidatedFields
<1> QED
  BY <1>1, <1>2 DEF Settles

\* A revocation ends every live permit it selects.
LEMMA ReleasedEnds ==
  ASSUME NEW ps \in [Intent -> PermitRecord], NEW t, NEW S, NEW reason \in Reasons
  PROVE  Held(Released(ps, S, reason, t)) \cap S = {}
<1> DEFINE qs == Purged(ps, t)
<1>1. qs \in [Intent -> PermitRecord]
  BY PurgedSettles
<1>2. Released(ps, S, reason, t)
        = [i \in Intent |-> IF i \in S \cap Held(qs)
                            THEN Invalidated(qs[i], reason) ELSE qs[i]]
  BY DEF Released
<1> HIDE DEF qs
<1> QED
  BY <1>1, <1>2, InvalidatedFields DEF Held

-----------------------------------------------------------------------------
(* Types *)

LEMMA EarlierType ==
  ASSUME NEW x \in Int, NEW y \in Int
  PROVE  Earlier(x, y) \in Int /\ Earlier(x, y) <= x /\ Earlier(x, y) <= y
BY DEF Earlier

\* A new permit is well formed whenever the clock is read: the clamp keeps its
\* lifetime within 1 .. TTL.
LEMMA NewPermitType ==
  ASSUME TypeOK, NEW i \in Intent, NEW t \in Instant
  PROVE  /\ NewPermit(i, t) \in PermitRecord
         /\ NewPermit(i, t).active /\ ~NewPermit(i, t).consumed
         /\ NewPermit(i, t).reason = None
         /\ NewPermit(i, t).key = signer
<1>1. /\ t \in Int /\ TTL \in Nat \ {0} /\ t + TTL \in Int
      /\ ValidUntil[GrantOf[i]] \in Int /\ ExpiresAt \in Int
  BY IntentAssumption, DeclarationAssumption, EnvironmentAssumption
<1>2. Lapses(i, t) \in Int /\ Lapses(i, t) <= t + TTL
  <2> DEFINE cap == Earlier(ValidUntil[GrantOf[i]], ExpiresAt)
  <2>1. cap \in Int
    BY <1>1, EarlierType
  <2>2. Lapses(i, t) = Earlier(t + TTL, cap)
    BY DEF Lapses
  <2> HIDE DEF cap
  <2> QED
    BY <1>1, <2>1, <2>2, EarlierType
<1>3. Lifetime(i, t) \in 1 .. TTL
  BY <1>1, <1>2 DEF Lifetime
<1>4. signer \in Signer
  BY DEF TypeOK
<1> QED
  BY <1>1, <1>2, <1>3, <1>4 DEF NewPermit, PermitRecord

LEMMA AppendedType ==
  ASSUME TypeOK, NEW type \in EventTypes, NEW subject \in Intent \cup Grant \cup {None}
  PROVE  Append(events, [type |-> type, subject |-> subject]) \in Seq(Event)
BY DEF TypeOK, Event

LEMMA FinishesType ==
  ASSUME TypeOK, NEW i \in Intent, NEW disposition \in Dispositions,
         Finishes(i, disposition)
  PROVE  /\ decisions' \in [Intent -> Dispositions]
         /\ idempotency' \in [Key -> Intent \cup {None}]
         /\ UNCHANGED <<status, grants, revokedGrants, remaining, committed,
                        receipts, signer, verifiers, revokedKeys>>
BY IntentAssumption DEF TypeOK, Finishes

\* The reasons a refused execution leaves behind are reasons.
LEMMA KillingReasons == Killing \subseteq Reasons
BY DEF Killing, Reasons

LEMMA GrantFaultType ==
  ASSUME NEW g, NEW t
  PROVE  GrantFault(g, t) \in AuthorityFaults \cup {None}
BY DEF GrantFault, AuthorityFaults

LEMMA ReplayType ==
  ASSUME TypeOK, NEW i \in Intent, NEW t, NEW u, ReplayAllow(i, t, u)
  PROVE  permits' \in [Intent -> PermitRecord]
<1> DEFINE ps == IF permits[i].key \in revokedKeys THEN permits
                 ELSE Purged(permits, t)
<1>1. ps \in [Intent -> PermitRecord]
  BY PurgedSettles DEF TypeOK
<1>2. GrantFault(GrantOf[i], u) # None => GrantFault(GrantOf[i], u) \in Reasons
  BY GrantFaultType DEF Reasons
<1>3. \/ permits' = ps
      \/ /\ GrantFault(GrantOf[i], u) # None
         /\ permits' = [ps EXCEPT ![i] =
                          Invalidated(ps[i], GrantFault(GrantOf[i], u))]
  BY DEF ReplayAllow
<1> HIDE DEF ps
<1> QED
  BY <1>1, <1>2, <1>3, InvalidatedFields

LEMMA RefusalType ==
  ASSUME TypeOK, NEW i \in Intent, NEW req, NEW t, RefuseExecution(i, req, t)
  PROVE  permits' \in [Intent -> PermitRecord]
<1>1. \/ permits' = permits
      \/ \E code \in Killing :
           permits' = [permits EXCEPT ![i] = Invalidated(permits[i], code)]
  BY DEF RefuseExecution
<1> QED
  BY <1>1, KillingReasons, InvalidatedFields DEF TypeOK

LEMMA TypeInit == Init => TypeOK
<1> SUFFICES ASSUME Init PROVE TypeOK
  OBVIOUS
<1>1. TTL \in Nat \ {0} /\ FirstSigner \in Signer /\ Capacity \in Nat
  BY DeclarationAssumption, EnvironmentAssumption
<1>2. NoPermit \in PermitRecord
  BY <1>1 DEF NoPermit, PermitRecord
<1>3. None \in Dispositions
  BY DEF Dispositions
<1> QED
  BY <1>1, <1>2, <1>3 DEF Init, TypeOK

\* Governance keeps the types.
LEMMA TypeGoverns ==
  ASSUME TypeOK, NEW t \in Instant, Governs(t)
  PROVE  TypeOK'
<1>1. now' \in Instant
  BY DEF Governs, Activate, IssueGrant, RevokeGrant, RotateSigner, RevokeKey, EndsAt
<1>2. CASE Activate(t)
  <2>1. events' \in Seq(Event)
    BY <1>2, AppendedType DEF Activate, Appended, EventTypes
  <2> QED
    BY <1>1, <1>2, <2>1 DEF TypeOK, Activate
<1>3. ASSUME NEW g \in Grant, IssueGrant(g, t) PROVE TypeOK'
  <2>1. events' \in Seq(Event)
    BY <1>3, AppendedType DEF IssueGrant, Appended, EventTypes
  <2> QED
    BY <1>1, <1>3, <2>1 DEF TypeOK, IssueGrant
<1>4. ASSUME NEW g \in Grant, NEW stamp \in Stamp, RevokeGrant(g, stamp, t)
      PROVE  TypeOK'
  <2>1. events' \in Seq(Event)
    BY <1>4, AppendedType DEF RevokeGrant, Appended, EventTypes
  <2>2. "AUTHORITY_REVOKED" \in Reasons
    BY DEF Reasons, AuthorityFaults
  <2>3. permits' \in [Intent -> PermitRecord]
    BY <1>4, <2>2, ReleasedSettles DEF RevokeGrant, TypeOK
  <2> QED
    BY <1>1, <1>4, <2>1, <2>3 DEF TypeOK, RevokeGrant
<1>5. ASSUME NEW k \in Signer, RotateSigner(k, t) PROVE TypeOK'
  BY <1>1, <1>5 DEF TypeOK, RotateSigner
<1>6. ASSUME NEW k \in Signer, RevokeKey(k, t) PROVE TypeOK'
  <2>1. "PERMIT_KEY_REVOKED" \in Reasons
    BY DEF Reasons
  <2>2. permits' \in [Intent -> PermitRecord]
    BY <1>6, <2>1, ReleasedSettles DEF RevokeKey, TypeOK
  <2> QED
    BY <1>1, <1>6, <2>2 DEF TypeOK, RevokeKey
<1> QED
  BY <1>2, <1>3, <1>4, <1>5, <1>6 DEF Governs

\* An evaluation keeps the types.
LEMMA TypeEvaluates ==
  ASSUME TypeOK, NEW i \in Intent, NEW t \in Instant, Evaluates(i, t)
  PROVE  TypeOK'
<1> USE DEF Dispositions
<1>1. now' \in Instant
  BY DEF Evaluates, ScreenOut, RefuseAtGate, IssuePermit, ReplayRefusal,
         ReplayAllow, EndsAt
<1>2. ASSUME NEW finding \in Findings, ScreenOut(i, finding, t) PROVE TypeOK'
  <2>1. PICK disposition \in Dispositions : Finishes(i, disposition)
    BY <1>2 DEF ScreenOut
  <2>2. events' \in Seq(Event)
    BY <1>2, AppendedType DEF ScreenOut, Appended, EventTypes
  <2> QED
    BY <1>1, <1>2, <2>1, <2>2, FinishesType DEF TypeOK, ScreenOut
<1>3. ASSUME NEW finding \in Findings, RefuseAtGate(i, finding, t) PROVE TypeOK'
  <2>1. events' \in Seq(Event)
    BY <1>3, AppendedType DEF RefuseAtGate, Appended, EventTypes
  <2>2. permits' \in [Intent -> PermitRecord]
    BY <1>3, PurgedSettles DEF RefuseAtGate, TypeOK
  <2>3. Finishes(i, "REFUSAL")
    BY <1>3 DEF RefuseAtGate
  <2> QED
    BY <1>1, <2>1, <2>2, <2>3, FinishesType DEF TypeOK
<1>4. CASE IssuePermit(i, t)
  <2>1. events' \in Seq(Event)
    BY <1>4, AppendedType DEF IssuePermit, Appended, EventTypes
  <2>2. permits' \in [Intent -> PermitRecord]
    BY <1>4, PurgedSettles, NewPermitType DEF IssuePermit, TypeOK
  <2>3. Finishes(i, "ALLOW")
    BY <1>4 DEF IssuePermit
  <2> QED
    BY <1>1, <2>1, <2>2, <2>3, FinishesType DEF TypeOK
<1>5. CASE ReplayRefusal(i, t)
  BY <1>1, <1>5 DEF TypeOK, ReplayRefusal, stateVars
<1>6. ASSUME NEW u \in Instant, ReplayAllow(i, t, u) PROVE TypeOK'
  <2>1. permits' \in [Intent -> PermitRecord]
    BY <1>6, ReplayType
  <2> QED
    BY <1>1, <1>6, <2>1 DEF TypeOK, ReplayAllow
<1> QED
  BY <1>2, <1>3, <1>4, <1>5, <1>6 DEF Evaluates

\* An execution keeps the types.
LEMMA TypeExecutes ==
  ASSUME TypeOK, NEW i \in Intent, NEW t \in Instant, Executes(i, t)
  PROVE  TypeOK'
<1>1. PICK req \in Request : RecordExecution(i, req, t) \/ RefuseExecution(i, req, t)
  BY DEF Executes
<1>2. now' \in Instant
  BY <1>1 DEF RecordExecution, RefuseExecution, EndsAt
<1>3. CASE RecordExecution(i, req, t)
  <2>1. events' \in Seq(Event)
    BY <1>3, AppendedType DEF RecordExecution, Appended, EventTypes
  <2>2. permits' \in [Intent -> PermitRecord]
    <3>1. permits' = [permits EXCEPT ![i] = Consumed(permits[i])]
      BY <1>3 DEF RecordExecution
    <3>2. Consumed(permits[i]) \in PermitRecord
      BY DEF TypeOK, PermitRecord, Consumed
    <3> QED
      BY <3>1, <3>2 DEF TypeOK
  <2>3. remaining' \in Int /\ committed' \in Seq(Debit)
    <3>1. Cost[i] \in Nat /\ t \in Int
      BY IntentAssumption, EnvironmentAssumption
    <3>2. CASE Debits(req)
      <4>1. [intent |-> i, at |-> t] \in Debit
        BY <3>1 DEF Debit
      <4>2. /\ remaining' = remaining - Cost[i]
            /\ committed' = Append(committed, [intent |-> i, at |-> t])
        BY <1>3, <3>2 DEF RecordExecution
      <4> QED
        BY <3>1, <4>1, <4>2 DEF TypeOK
    <3>3. CASE ~Debits(req)
      BY <1>3, <3>3 DEF RecordExecution, TypeOK
    <3> QED
      BY <3>2, <3>3
  <2>4. receipts' \in [Intent -> Request \cup {NoRequest}]
    BY <1>3 DEF RecordExecution, TypeOK
  <2> QED
    BY <1>2, <1>3, <2>1, <2>2, <2>3, <2>4 DEF TypeOK, RecordExecution
<1>4. CASE RefuseExecution(i, req, t)
  <2>1. permits' \in [Intent -> PermitRecord]
    BY <1>1, <1>4, RefusalType
  <2> QED
    BY <1>2, <1>4, <2>1 DEF TypeOK, RefuseExecution
<1> QED
  BY <1>1, <1>3, <1>4

LEMMA TypeStep == TypeOK /\ [Next]_vars => TypeOK'
<1> SUFFICES ASSUME TypeOK, [Next]_vars PROVE TypeOK'
  OBVIOUS
<1>1. CASE UNCHANGED vars
  BY <1>1 DEF TypeOK, vars, stateVars
<1>2. ASSUME NEW t \in Instant, ClockStep(t) PROVE TypeOK'
  BY <1>2 DEF TypeOK, ClockStep, EndsAt, stateVars
<1>3. ASSUME NEW t \in Instant, Governs(t) PROVE TypeOK'
  BY <1>3, TypeGoverns
<1>4. ASSUME NEW t \in Instant, NEW i \in Intent, Evaluates(i, t) PROVE TypeOK'
  BY <1>4, TypeEvaluates
<1>5. ASSUME NEW t \in Instant, NEW i \in Intent, Executes(i, t) PROVE TypeOK'
  BY <1>5, TypeExecutes
<1> QED
  BY <1>1, <1>2, <1>3, <1>4, <1>5 DEF Next

\* Every variable keeps its type; the lifetime sealed in a permit stays within
\* 1 .. TTL whatever the clock does inside the call that issues it.
THEOREM TypeCorrect == Spec => []TypeOK
  BY TypeInit, TypeStep, PTL DEF Spec

-----------------------------------------------------------------------------
(* The three kinds of step *)

Quiet ==
  /\ Settles(permits, permits')
  /\ UNCHANGED <<remaining, committed, receipts>>
  /\ \A i \in Intent : Issued(i)' <=> Issued(i)

Issues(i) ==
  /\ decisions[i] = None
  /\ decisions' = [decisions EXCEPT ![i] = "ALLOW"]
  /\ GrantOf[i] \notin revokedGrants
  /\ \E t \in Instant :
       /\ StructuralGate(i, Purged(permits, t))
       /\ permits' = [Purged(permits, t) EXCEPT ![i] = NewPermit(i, t)]
  /\ UNCHANGED <<remaining, committed, receipts, revokedGrants, signer,
                 verifiers, revokedKeys>>

Records(i) ==
  /\ Issued(i)
  /\ i \in Held(permits)
  /\ permits[i].reason = None
  /\ permits' = [permits EXCEPT ![i] = Consumed(permits[i])]
  /\ \E req \in Request, t \in Instant :
       /\ receipts' = [receipts EXCEPT ![i] = req]
       /\ Debits(req) => /\ remaining' = remaining - Cost[i]
                         /\ committed' = Append(committed, [intent |-> i, at |-> t])
       /\ ~Debits(req) => UNCHANGED <<remaining, committed>>
  /\ UNCHANGED decisions

\* A submission that was answered took its key, so a fresh one has no verdict.
KeyTaken ==
  \A i \in Intent : decisions[i] # None => idempotency[KeyOf[i]] # None

LEMMA FreshHasNoVerdict ==
  ASSUME KeyTaken, NEW i \in Intent, Fresh(i)
  PROVE  decisions[i] = None /\ ~Issued(i)
BY DEF KeyTaken, Fresh, Issued, None

\* A refusal or a review is recorded without issuing anything.
LEMMA FinishIssuesNothing ==
  ASSUME TypeOK, KeyTaken, NEW i \in Intent, Fresh(i), NEW disposition,
         disposition # "ALLOW", Finishes(i, disposition)
  PROVE  \A j \in Intent : Issued(j)' <=> Issued(j)
<1>1. ~Issued(i)
  BY FreshHasNoVerdict
<1> QED
  BY <1>1 DEF Finishes, Issued, TypeOK

LEMMA NothingSettles ==
  ASSUME permits' = permits
  PROVE  Settles(permits, permits')
BY DEF Settles

\* A replay ends expired permits, and the live one whose grant has lapsed.
LEMMA ReplaySettles ==
  ASSUME TypeOK, OneCause, NEW i \in Intent, NEW t, NEW u, ReplayAllow(i, t, u)
  PROVE  Settles(permits, permits')
<1> DEFINE ps == IF permits[i].key \in revokedKeys THEN permits
                 ELSE Purged(permits, t)
<1>1. ps \in [Intent -> PermitRecord] /\ Settles(permits, ps)
  BY PurgedSettles DEF TypeOK, Settles
<1>2. CASE permits' = ps
  BY <1>1, <1>2
<1>3. CASE /\ ~ps[i].consumed /\ ps[i].reason = None
           /\ GrantFault(GrantOf[i], u) # None
           /\ permits' = [ps EXCEPT ![i] =
                            Invalidated(ps[i], GrantFault(GrantOf[i], u))]
  <2>1. GrantFault(GrantOf[i], u) \in Reasons
    BY <1>3, GrantFaultType DEF Reasons
  <2>2. permits[i] \in PermitRecord
    BY DEF TypeOK
  <2>3. ps[i] = permits[i]
    BY <1>1, <1>3, <2>2, InvalidatedFields, ReasonsAreNamed DEF Settles
  <2>4. Issued(i)
    BY DEF ReplayAllow
  <2>5. i \in Held(permits)
    BY <1>3, <2>3, <2>4 DEF OneCause, Held
  <2> HIDE DEF ps
  <2> QED
    BY <1>1, <1>3, <2>1, <2>3, <2>5 DEF Settles
<1>4. \/ permits' = ps
      \/ /\ ~ps[i].consumed /\ ps[i].reason = None
         /\ GrantFault(GrantOf[i], u) # None
         /\ permits' = [ps EXCEPT ![i] =
                          Invalidated(ps[i], GrantFault(GrantOf[i], u))]
  BY DEF ReplayAllow
<1> QED
  BY <1>2, <1>3, <1>4

\* A refused execution ends its own permit at most, and only a live one.
LEMMA RefusalSettles ==
  ASSUME TypeOK, NEW i \in Intent, NEW req, NEW t, RefuseExecution(i, req, t)
  PROVE  Settles(permits, permits')
<1>1. \/ permits' = permits
      \/ /\ i \in Held(permits)
         /\ \E code \in Killing :
              permits' = [permits EXCEPT ![i] = Invalidated(permits[i], code)]
  BY DEF RefuseExecution, Held
<1> QED
  BY <1>1, KillingReasons DEF Settles, TypeOK

LEMMA QuietGoverns ==
  ASSUME TypeOK, NEW t \in Instant, Governs(t)
  PROVE  Quiet
<1>1. CASE Activate(t)
  BY <1>1, NothingSettles DEF Activate, Quiet, Issued
<1>2. ASSUME NEW g \in Grant, IssueGrant(g, t) PROVE Quiet
  BY <1>2, NothingSettles DEF IssueGrant, Quiet, Issued
<1>3. ASSUME NEW g \in Grant, NEW stamp \in Stamp, RevokeGrant(g, stamp, t)
      PROVE  Quiet
  <2>1. "AUTHORITY_REVOKED" \in Reasons
    BY DEF Reasons, AuthorityFaults
  <2>2. Settles(permits, permits')
    BY <1>3, <2>1, ReleasedSettles DEF RevokeGrant, TypeOK
  <2> QED
    BY <1>3, <2>2 DEF RevokeGrant, Quiet, Issued
<1>4. ASSUME NEW k \in Signer, RotateSigner(k, t) PROVE Quiet
  BY <1>4, NothingSettles DEF RotateSigner, Quiet, Issued
<1>5. ASSUME NEW k \in Signer, RevokeKey(k, t) PROVE Quiet
  <2>1. "PERMIT_KEY_REVOKED" \in Reasons
    BY DEF Reasons
  <2>2. Settles(permits, permits')
    BY <1>5, <2>1, ReleasedSettles DEF RevokeKey, TypeOK
  <2> QED
    BY <1>5, <2>2 DEF RevokeKey, Quiet, Issued
<1> QED
  BY <1>1, <1>2, <1>3, <1>4, <1>5 DEF Governs

LEMMA KindOfEvaluation ==
  ASSUME TypeOK, KeyTaken, OneCause, NEW i \in Intent, NEW t \in Instant,
         Evaluates(i, t)
  PROVE  Quiet \/ (Issues(i) /\ IssuePermit(i, t))
<1>1. ASSUME NEW finding \in Findings, ScreenOut(i, finding, t) PROVE Quiet
  <2>1. PICK disposition \in {"REFUSAL", "MANUAL_REVIEW"} : Finishes(i, disposition)
    BY <1>1 DEF ScreenOut
  <2>2. Fresh(i) /\ permits' = permits
    BY <1>1 DEF ScreenOut
  <2>3. \A j \in Intent : Issued(j)' <=> Issued(j)
    BY <2>1, <2>2, FinishIssuesNothing
  <2> QED
    BY <2>1, <2>2, <2>3, NothingSettles DEF Quiet, Finishes
<1>2. ASSUME NEW finding \in Findings, RefuseAtGate(i, finding, t) PROVE Quiet
  <2>1. Finishes(i, "REFUSAL") /\ Fresh(i) /\ permits' = Purged(permits, t)
    BY <1>2 DEF RefuseAtGate
  <2>2. \A j \in Intent : Issued(j)' <=> Issued(j)
    BY <2>1, FinishIssuesNothing
  <2>3. Settles(permits, permits')
    BY <2>1, PurgedSettles DEF TypeOK
  <2> QED
    BY <2>1, <2>2, <2>3 DEF Quiet, Finishes
<1>3. CASE IssuePermit(i, t)
  <2>1. Finishes(i, "ALLOW") /\ decisions[i] = None
    BY <1>3, FreshHasNoVerdict DEF IssuePermit
  <2>2. StructuralGate(i, Purged(permits, t))
    BY <1>3 DEF IssuePermit, Gate, None
  <2>3. GrantOf[i] \notin revokedGrants
    BY <1>3 DEF IssuePermit, Screening, GrantFault, None
  <2>4. permits' = [Purged(permits, t) EXCEPT ![i] = NewPermit(i, t)]
    BY <1>3 DEF IssuePermit
  <2> QED
    BY <1>3, <2>1, <2>2, <2>3, <2>4 DEF Issues, Finishes
<1>4. CASE ReplayRefusal(i, t)
  BY <1>4, NothingSettles DEF ReplayRefusal, stateVars, Quiet, Issued
<1>5. ASSUME NEW u \in Instant, ReplayAllow(i, t, u) PROVE Quiet
  BY <1>5, ReplaySettles DEF ReplayAllow, Quiet, Issued
<1> QED
  BY <1>1, <1>2, <1>3, <1>4, <1>5 DEF Evaluates

LEMMA KindOfExecution ==
  ASSUME TypeOK, NEW i \in Intent, NEW t \in Instant, Executes(i, t)
  PROVE  Quiet \/ (Records(i) /\ \E req \in Request : RecordExecution(i, req, t))
<1>1. PICK req \in Request : RecordExecution(i, req, t) \/ RefuseExecution(i, req, t)
  BY DEF Executes
<1>2. CASE RecordExecution(i, req, t)
  <2>1. CommitVerdict(i, req, t) = None /\ ~permits[i].consumed
    BY <1>2 DEF RecordExecution
  <2>2. permits[i].reason = None
    BY <2>1 DEF CommitVerdict, None
  <2>3. Issued(i) /\ permits[i].active
    BY <2>1, <2>2 DEF CommitVerdict, None
  <2>4. Records(i)
    BY <1>2, <2>1, <2>2, <2>3 DEF RecordExecution, Records, Held
  <2> QED
    BY <1>2, <2>4
<1>3. CASE RefuseExecution(i, req, t)
  BY <1>3, RefusalSettles DEF RefuseExecution, Quiet, Issued
<1> QED
  BY <1>1, <1>2, <1>3

\* Every step is quiet, or the action that issues, or the one that records.
LEMMA StepActions ==
  ASSUME TypeOK, KeyTaken, OneCause, [Next]_vars
  PROVE  \/ Quiet
         \/ \E i \in Intent, t \in Instant : Issues(i) /\ IssuePermit(i, t)
         \/ \E i \in Intent, t \in Instant :
              Records(i) /\ \E req \in Request : RecordExecution(i, req, t)
<1>1. CASE UNCHANGED vars
  BY <1>1, NothingSettles DEF vars, stateVars, Quiet, Issued
<1>2. ASSUME NEW t \in Instant, ClockStep(t) PROVE Quiet
  BY <1>2, NothingSettles DEF ClockStep, stateVars, Quiet, Issued
<1>3. ASSUME NEW t \in Instant, Governs(t) PROVE Quiet
  BY <1>3, QuietGoverns
<1>4. ASSUME NEW t \in Instant, NEW i \in Intent, Evaluates(i, t)
      PROVE  Quiet \/ (Issues(i) /\ IssuePermit(i, t))
  BY <1>4, KindOfEvaluation
<1>5. ASSUME NEW t \in Instant, NEW i \in Intent, Executes(i, t)
      PROVE  Quiet \/ (Records(i) /\ \E req \in Request : RecordExecution(i, req, t))
  BY <1>5, KindOfExecution
<1> QED
  BY <1>1, <1>2, <1>3, <1>4, <1>5 DEF Next

\* Every step is of one of the three kinds.
LEMMA StepKinds ==
  ASSUME TypeOK, KeyTaken, OneCause, [Next]_vars
  PROVE  Quiet \/ \E i \in Intent : Issues(i) \/ Records(i)
BY StepActions

-----------------------------------------------------------------------------
(* One reservation, one cause *)

LEMMA KeyTakenStep ==
  ASSUME TypeOK, KeyTaken, [Next]_vars
  PROVE  KeyTaken'
<1>1. CASE UNCHANGED <<decisions, idempotency>>
  BY <1>1 DEF KeyTaken
<1>2. ASSUME NEW i \in Intent, NEW disposition, Fresh(i), Finishes(i, disposition)
      PROVE  KeyTaken'
  BY <1>2, IntentAssumption DEF KeyTaken, Finishes, TypeOK
<1>3. ASSUME NEW t \in Instant, Governs(t) PROVE UNCHANGED <<decisions, idempotency>>
  BY <1>3 DEF Governs, Activate, IssueGrant, RevokeGrant, RotateSigner, RevokeKey
<1>4. ASSUME NEW t \in Instant, NEW i \in Intent, Evaluates(i, t)
      PROVE  \/ UNCHANGED <<decisions, idempotency>>
             \/ Fresh(i) /\ \E disposition \in Dispositions : Finishes(i, disposition)
  BY <1>4 DEF Evaluates, ScreenOut, RefuseAtGate, IssuePermit, ReplayRefusal,
              ReplayAllow, stateVars, Dispositions
<1>5. ASSUME NEW t \in Instant, NEW i \in Intent, Executes(i, t)
      PROVE  UNCHANGED <<decisions, idempotency>>
  BY <1>5 DEF Executes, RecordExecution, RefuseExecution
<1>6. ASSUME NEW t \in Instant, ClockStep(t)
      PROVE  UNCHANGED <<decisions, idempotency>>
  BY <1>6 DEF ClockStep, stateVars
<1>7. CASE UNCHANGED vars
  BY <1>1, <1>7 DEF vars, stateVars
<1> QED
  BY <1>1, <1>2, <1>3, <1>4, <1>5, <1>6, <1>7 DEF Next

\* A settlement keeps every permit's cause.
LEMMA SettlesKeepsCause ==
  ASSUME TypeOK, OneCause, NEW qs \in [Intent -> PermitRecord], Settles(permits, qs),
         NEW i \in Intent
  PROVE  /\ qs[i].active => Issued(i) /\ ~qs[i].consumed
         /\ qs[i].consumed => Issued(i) /\ qs[i].reason = None
         /\ Issued(i) /\ ~qs[i].consumed => (qs[i].active <=> qs[i].reason = None)
<1>1. permits[i] \in PermitRecord
  BY DEF TypeOK
<1>2. CASE qs[i] = permits[i]
  BY <1>2 DEF OneCause
<1>3. CASE /\ i \in Held(permits)
           /\ \E reason \in Reasons : qs[i] = Invalidated(permits[i], reason)
  BY <1>1, <1>3, InvalidatedFields, ReasonsAreNamed DEF OneCause, Held
<1> QED
  BY <1>2, <1>3 DEF Settles

LEMMA OneCauseStep ==
  ASSUME TypeOK, TypeOK', KeyTaken, OneCause, [Next]_vars
  PROVE  OneCause'
<1>1. CASE Quiet
  BY <1>1, SettlesKeepsCause DEF Quiet, OneCause, TypeOK
<1>2. ASSUME NEW i \in Intent, Issues(i) PROVE OneCause'
  <2>1. PICK t \in Instant :
          permits' = [Purged(permits, t) EXCEPT ![i] = NewPermit(i, t)]
    BY <1>2 DEF Issues
  <2>2. /\ Purged(permits, t) \in [Intent -> PermitRecord]
        /\ Settles(permits, Purged(permits, t))
    BY PurgedSettles DEF TypeOK
  <2>3. /\ permits'[i].active /\ ~permits'[i].consumed /\ permits'[i].reason = None
        /\ Issued(i)'
    BY <1>2, <2>1, <2>2, NewPermitType DEF Issues, Issued, TypeOK
  <2>4. ASSUME NEW j \in Intent, j # i
        PROVE  permits'[j] = Purged(permits, t)[j] /\ (Issued(j)' <=> Issued(j))
    BY <1>2, <2>1, <2>2, <2>4 DEF Issues, Issued, TypeOK
  <2> QED
    BY <2>2, <2>3, <2>4, SettlesKeepsCause DEF OneCause
<1>3. ASSUME NEW i \in Intent, Records(i) PROVE OneCause'
  <2>1. permits[i] \in PermitRecord
    BY DEF TypeOK
  <2>2. /\ permits'[i] = Consumed(permits[i])
        /\ \A j \in Intent \ {i} : permits'[j] = permits[j]
        /\ \A j \in Intent : Issued(j)' <=> Issued(j)
    BY <1>3 DEF Records, TypeOK, Issued
  <2>3. /\ Consumed(permits[i]).consumed /\ ~Consumed(permits[i]).active
        /\ Consumed(permits[i]).reason = None
    BY <1>3, <2>1 DEF Consumed, PermitRecord, Records
  <2> QED
    BY <1>3, <2>2, <2>3 DEF OneCause, Records
<1> QED
  BY <1>1, <1>2, <1>3, StepKinds

-----------------------------------------------------------------------------
(* Reservations and the budget *)

LEMMA HeldFinite ==
  ASSUME NEW ps
  PROVE  IsFiniteSet(Held(ps)) /\ Held(ps) \subseteq Intent
BY IntentAssumption, FS_Subset DEF Held

LEMMA CostType == \A i \in Intent : Cost[i] \in Nat
BY IntentAssumption

\* A settlement frees capacity and never takes any.
LEMMA SettlesFrees ==
  ASSUME NEW ps \in [Intent -> PermitRecord], NEW qs, Settles(ps, qs)
  PROVE  /\ StructuralReserved(qs) \in Nat
         /\ StructuralReserved(ps) \in Nat
         /\ StructuralReserved(qs) <= StructuralReserved(ps)
<1>1. Held(qs) \subseteq Held(ps)
  BY SettlesHeld
<1>2. StructuralReserved(qs) \in Nat /\ StructuralReserved(ps) \in Nat
  BY HeldFinite, CostType, SumType DEF StructuralReserved
<1>3. StructuralReserved(qs) <= StructuralReserved(ps)
  BY <1>1, HeldFinite, CostType, SumSubset DEF StructuralReserved
<1> QED
  BY <1>2, <1>3

LEMMA CoveredStep ==
  ASSUME TypeOK, TypeOK', KeyTaken, OneCause, ReservationsCovered, [Next]_vars
  PROVE  ReservationsCovered'
<1> USE DEF ReservationsCovered
<1>1. CASE Quiet
  BY <1>1, SettlesFrees DEF Quiet, TypeOK
<1>2. ASSUME NEW i \in Intent, Issues(i) PROVE ReservationsCovered'
  <2>1. PICK t \in Instant :
          /\ StructuralGate(i, Purged(permits, t))
          /\ permits' = [Purged(permits, t) EXCEPT ![i] = NewPermit(i, t)]
    BY <1>2 DEF Issues
  <2> DEFINE ps == Purged(permits, t)
  <2>2. ps \in [Intent -> PermitRecord] /\ Settles(permits, ps)
    BY PurgedSettles DEF TypeOK
  <2>3. i \notin Held(ps)
    BY <1>2, <2>2, SettlesHeld DEF Issues, OneCause, Held, TypeOK, Issued, None
  <2>4. Held(permits') = Held(ps) \cup {i}
    BY <2>1, <2>2, NewPermitType DEF Held
  <2>5. remaining - StructuralReserved(ps) >= Cost[i]
    BY <2>1 DEF StructuralGate
  <2> HIDE DEF ps
  <2>6. SumOver(Held(ps) \cup {i}, Cost) = SumOver(Held(ps), Cost) + Cost[i]
    BY <2>3, HeldFinite, CostType, SumAdd
  <2>7. SumOver(Held(ps), Cost) \in Nat
    BY HeldFinite, CostType, SumType
  <2>8. SumOver(Held(ps), Cost) + Cost[i] <= remaining
    BY <2>5, <2>7, CostType DEF StructuralReserved, TypeOK
  <2>9. SumOver(Held(permits'), Cost) <= remaining'
    BY <1>2, <2>4, <2>6, <2>8 DEF Issues
  <2> QED
    BY <2>9 DEF StructuralReserved
<1>3. ASSUME NEW i \in Intent, Records(i) PROVE ReservationsCovered'
  <2>1. i \in Held(permits) /\ permits[i] \in PermitRecord
    BY <1>3 DEF Records, TypeOK
  <2>2. Held(permits') = Held(permits) \ {i}
    BY <1>3, <2>1 DEF Records, Held, Consumed, TypeOK, PermitRecord
  <2> DEFINE H == Held(permits) \ {i}
  <2>3. IsFiniteSet(H) /\ H \subseteq Intent /\ i \notin H
        /\ Held(permits) = H \cup {i}
    BY <2>1, HeldFinite, FS_Subset
  <2> HIDE DEF H
  <2>4. SumOver(Held(permits), Cost) = SumOver(H, Cost) + Cost[i]
    BY <2>3, CostType, SumAdd
  <2>5. SumOver(H, Cost) \in Nat /\ Cost[i] \in Nat
    BY <2>3, CostType, SumType
  <2>6. remaining' = remaining - Cost[i] \/ remaining' = remaining
    BY <1>3 DEF Records
  <2>7. SumOver(Held(permits'), Cost) = SumOver(H, Cost)
    BY <2>2 DEF H
  <2>8. SumOver(H, Cost) + Cost[i] <= remaining
    BY <2>4 DEF StructuralReserved
  <2>9. SumOver(Held(permits'), Cost) <= remaining'
    BY <2>5, <2>6, <2>7, <2>8 DEF TypeOK
  <2> QED
    BY <2>9 DEF StructuralReserved
<1> QED
  BY <1>1, <1>2, <1>3, StepKinds

LEMMA SpentFinite == IsFiniteSet(Spent) /\ Spent \subseteq Intent
BY IntentAssumption, FS_Subset DEF Spent

LEMMA ConservedStep ==
  ASSUME TypeOK, TypeOK', KeyTaken, OneCause, BudgetConserved, [Next]_vars
  PROVE  BudgetConserved'
<1>1. ASSUME Spent' = Spent, UNCHANGED <<remaining, committed>> PROVE BudgetConserved'
  BY <1>1 DEF BudgetConserved
<1>2. CASE Quiet
  <2>1. \A i \in Intent : permits'[i].consumed <=> permits[i].consumed
    BY <1>2, SettlesKeeps DEF Quiet, TypeOK
  <2>2. Spent' = Spent
    BY <1>2, <2>1 DEF Spent, Quiet
  <2> QED
    BY <1>1, <1>2, <2>2 DEF Quiet
<1>3. ASSUME NEW i \in Intent, Issues(i) PROVE BudgetConserved'
  <2>1. PICK t \in Instant :
          permits' = [Purged(permits, t) EXCEPT ![i] = NewPermit(i, t)]
    BY <1>3 DEF Issues
  <2>2. /\ Purged(permits, t) \in [Intent -> PermitRecord]
        /\ Settles(permits, Purged(permits, t))
    BY PurgedSettles DEF TypeOK
  <2>3. \A j \in Intent : Purged(permits, t)[j].consumed <=> permits[j].consumed
    BY <2>2, SettlesKeeps DEF TypeOK
  <2>4. ~permits[i].consumed /\ ~permits'[i].consumed
    BY <1>3, <2>1, <2>2, NewPermitType DEF Issues, OneCause, Issued, None
  <2>5. \A j \in Intent : permits'[j].consumed <=> permits[j].consumed
    BY <2>1, <2>2, <2>3, <2>4
  <2>6. Spent' = Spent
    BY <1>3, <2>5 DEF Spent, Issues
  <2> QED
    BY <1>1, <1>3, <2>6 DEF Issues
<1>4. ASSUME NEW i \in Intent, Records(i) PROVE BudgetConserved'
  <2>1. PICK req \in Request, t \in Instant :
          /\ receipts' = [receipts EXCEPT ![i] = req]
          /\ Debits(req) => /\ remaining' = remaining - Cost[i]
                            /\ committed' = Append(committed, [intent |-> i, at |-> t])
          /\ ~Debits(req) => UNCHANGED <<remaining, committed>>
    BY <1>4 DEF Records
  <2>2. i \notin Spent
    BY <1>4 DEF Records, Held, Spent
  <2>3. /\ permits'[i].consumed
        /\ \A j \in Intent \ {i} : permits'[j] = permits[j]
        /\ receipts'[i] = req
        /\ \A j \in Intent \ {i} : receipts'[j] = receipts[j]
    BY <1>4, <2>1 DEF Records, Consumed, TypeOK, PermitRecord
  <2>4. CASE ~Debits(req)
    <3>1. Spent' = Spent
      BY <2>2, <2>3, <2>4 DEF Spent, Debits
    <3> QED
      BY <1>1, <2>1, <2>4, <3>1
  <2>5. CASE Debits(req)
    <3>1. Spent' = Spent \cup {i}
      BY <2>2, <2>3, <2>5 DEF Spent, Debits
    <3>2. SumOver(Spent \cup {i}, Cost) = SumOver(Spent, Cost) + Cost[i]
      BY <2>2, SpentFinite, CostType, SumAdd
    <3>3. SumOver(Spent, Cost) \in Nat /\ Cost[i] \in Nat
      BY SpentFinite, CostType, SumType
    <3>4. remaining' + SumOver(Spent', Cost) = Capacity
      BY <2>1, <2>5, <3>1, <3>2, <3>3 DEF BudgetConserved, TypeOK
    <3>5. /\ Len(committed') = Len(committed) + 1
          /\ {committed'[k].intent : k \in DOMAIN committed'}
               = {committed[k].intent : k \in DOMAIN committed} \cup {i}
      <4> DEFINE n == Len(committed)
                 debit == [intent |-> i, at |-> t]
      <4>1. /\ n \in Nat /\ DOMAIN committed = 1 .. n
            /\ committed' = Append(committed, debit)
        BY <2>1, <2>5 DEF TypeOK
      <4>2. /\ Len(committed') = n + 1 /\ DOMAIN committed' = 1 .. n + 1
            /\ \A k \in 1 .. n : committed'[k] = committed[k]
            /\ committed'[n + 1] = debit
        BY <4>1 DEF TypeOK
      <4>3. debit.intent = i
        OBVIOUS
      <4> HIDE DEF n, debit
      <4>4. 1 .. n + 1 = (1 .. n) \cup {n + 1}
        BY <4>1
      <4>5. {committed'[k].intent : k \in 1 .. n + 1}
              = {committed[k].intent : k \in 1 .. n} \cup {i}
        BY <4>2, <4>3, <4>4
      <4> QED
        BY <4>1, <4>2, <4>5 DEF n
    <3>6. Cardinality(Spent \cup {i}) = Cardinality(Spent) + 1
      BY <2>2, SpentFinite, FS_AddElement
    <3> QED
      BY <3>1, <3>4, <3>5, <3>6 DEF BudgetConserved
  <2> QED
    BY <2>4, <2>5
<1> QED
  BY <1>2, <1>3, <1>4, StepKinds

-----------------------------------------------------------------------------
(* Revocation and custody *)

\* A step that revokes a grant or a key leaves no live permit under it.
LEMMA RevocationEnds ==
  ASSUME TypeOK, [Next]_vars, NEW i \in Held(permits')
  PROVE  /\ GrantOf[i] \in revokedGrants' => GrantOf[i] \in revokedGrants
         /\ permits'[i].key \in revokedKeys' => permits'[i].key \in revokedKeys
<1> DEFINE kept == UNCHANGED <<revokedGrants, revokedKeys>>
           goal == /\ GrantOf[i] \in revokedGrants' => GrantOf[i] \in revokedGrants
                   /\ permits'[i].key \in revokedKeys' => permits'[i].key \in revokedKeys
<1>1. kept => goal
  OBVIOUS
<1>2. CASE UNCHANGED vars
  BY <1>1, <1>2 DEF vars, stateVars
<1>3. ASSUME NEW t \in Instant, ClockStep(t) PROVE kept
  BY <1>3 DEF ClockStep, stateVars
<1>4. ASSUME NEW t \in Instant, NEW j \in Intent, Evaluates(j, t) PROVE kept
  BY <1>4 DEF Evaluates, ScreenOut, RefuseAtGate, IssuePermit, ReplayRefusal,
              ReplayAllow, Finishes, stateVars
<1>5. ASSUME NEW t \in Instant, NEW j \in Intent, Executes(j, t) PROVE kept
  BY <1>5 DEF Executes, RecordExecution, RefuseExecution
<1>6. ASSUME NEW t \in Instant, Governs(t) PROVE goal
  <2>1. ASSUME NEW g \in Grant, NEW stamp \in Stamp, RevokeGrant(g, stamp, t)
        PROVE  goal
    <3> DEFINE S == {j \in Intent : GrantOf[j] = g}
    <3>1. "AUTHORITY_REVOKED" \in Reasons
      BY DEF Reasons, AuthorityFaults
    <3>2. permits' = Released(permits, S, "AUTHORITY_REVOKED", t)
      BY <2>1 DEF RevokeGrant
    <3>3. i \notin S
      BY <3>1, <3>2, ReleasedEnds DEF TypeOK
    <3>4. i \in Intent
      BY DEF Held
    <3> QED
      BY <2>1, <3>3, <3>4 DEF RevokeGrant
  <2>2. ASSUME NEW k \in Signer, RevokeKey(k, t) PROVE goal
    <3> DEFINE S == {j \in Intent : permits[j].key = k}
    <3>1. "PERMIT_KEY_REVOKED" \in Reasons
      BY DEF Reasons
    <3>2. permits' = Released(permits, S, "PERMIT_KEY_REVOKED", t)
      BY <2>2 DEF RevokeKey
    <3>3. i \notin S /\ i \in Intent
      BY <3>1, <3>2, ReleasedEnds DEF TypeOK, Held
    <3>4. permits'[i].key = permits[i].key
      BY <3>1, <3>2, <3>3, ReleasedSettles, SettlesKeeps DEF TypeOK
    <3> QED
      BY <2>2, <3>3, <3>4 DEF RevokeKey
  <2>3. CASE Activate(t)
    BY <1>1, <2>3 DEF Activate
  <2>4. ASSUME NEW g \in Grant, IssueGrant(g, t) PROVE goal
    BY <1>1, <2>4 DEF IssueGrant
  <2>5. ASSUME NEW k \in Signer, RotateSigner(k, t) PROVE goal
    BY <1>1, <2>5 DEF RotateSigner
  <2> QED
    BY <1>6, <2>1, <2>2, <2>3, <2>4, <2>5 DEF Governs
<1> QED
  BY <1>1, <1>2, <1>3, <1>4, <1>5, <1>6 DEF Next

\* Keys are registered and then revoked, and never forgotten.
LEMMA KeysStep ==
  ASSUME TypeOK, signer \in verifiers, verifiers \cap revokedKeys = {}, [Next]_vars
  PROVE  /\ signer' \in verifiers' /\ verifiers' \cap revokedKeys' = {}
         /\ verifiers \cup revokedKeys \subseteq verifiers' \cup revokedKeys'
<1> DEFINE kept == UNCHANGED <<signer, verifiers, revokedKeys>>
<1>1. CASE kept
  BY <1>1
<1>2. ASSUME NEW k \in Signer, NEW t, RotateSigner(k, t)
      PROVE  /\ signer' \in verifiers' /\ verifiers' \cap revokedKeys' = {}
             /\ verifiers \cup revokedKeys \subseteq verifiers' \cup revokedKeys'
  BY <1>2 DEF RotateSigner, NewKey
<1>3. ASSUME NEW k \in Signer, NEW t, RevokeKey(k, t)
      PROVE  /\ signer' \in verifiers' /\ verifiers' \cap revokedKeys' = {}
             /\ verifiers \cup revokedKeys \subseteq verifiers' \cup revokedKeys'
  BY <1>3 DEF RevokeKey
<1>4. ASSUME NEW t \in Instant, Governs(t)
      PROVE  kept \/ \E k \in Signer : RotateSigner(k, t) \/ RevokeKey(k, t)
  BY <1>4 DEF Governs, Activate, IssueGrant, RevokeGrant
<1>5. ASSUME NEW t \in Instant, NEW i \in Intent, Evaluates(i, t) PROVE kept
  BY <1>5 DEF Evaluates, ScreenOut, RefuseAtGate, IssuePermit, ReplayRefusal,
              ReplayAllow, Finishes, stateVars
<1>6. ASSUME NEW t \in Instant, NEW i \in Intent, Executes(i, t) PROVE kept
  BY <1>6 DEF Executes, RecordExecution, RefuseExecution
<1>7. ASSUME NEW t \in Instant, ClockStep(t) PROVE kept
  BY <1>7 DEF ClockStep, stateVars
<1>8. CASE UNCHANGED vars
  BY <1>1, <1>8 DEF vars, stateVars
<1> QED
  BY <1>1, <1>2, <1>3, <1>4, <1>5, <1>6, <1>7, <1>8 DEF Next

\* What is live after a step was live before, unless the step issued it under
\* a grant that is not revoked and the active key.
LEMMA HeldAfterStep ==
  ASSUME TypeOK, KeyTaken, OneCause, [Next]_vars, NEW i \in Held(permits')
  PROVE  \/ i \in Held(permits) /\ permits'[i].key = permits[i].key
         \/ /\ GrantOf[i] \notin revokedGrants
            /\ permits'[i].key = signer
<1>0. i \in Intent
  BY DEF Held
<1>1. CASE Quiet
  BY <1>1, SettlesHeld DEF Quiet, TypeOK
<1>2. ASSUME NEW j \in Intent, Issues(j)
      PROVE  \/ i \in Held(permits) /\ permits'[i].key = permits[i].key
             \/ GrantOf[i] \notin revokedGrants /\ permits'[i].key = signer
  <2>1. PICK t \in Instant :
          permits' = [Purged(permits, t) EXCEPT ![j] = NewPermit(j, t)]
    BY <1>2 DEF Issues
  <2>2. /\ Purged(permits, t) \in [Intent -> PermitRecord]
        /\ Settles(permits, Purged(permits, t))
    BY PurgedSettles DEF TypeOK
  <2>3. CASE i = j
    BY <1>2, <2>1, <2>2, <2>3, NewPermitType DEF Issues
  <2>4. CASE i # j
    <3>1. permits'[i] = Purged(permits, t)[i] /\ i \in Held(Purged(permits, t))
      BY <1>0, <2>1, <2>2, <2>4 DEF Held
    <3> QED
      BY <2>2, <3>1, SettlesHeld DEF TypeOK
  <2> QED
    BY <2>3, <2>4
<1>3. ASSUME NEW j \in Intent, Records(j)
      PROVE  i \in Held(permits) /\ permits'[i].key = permits[i].key
  <2>1. permits[j] \in PermitRecord /\ permits' = [permits EXCEPT ![j] = Consumed(permits[j])]
    BY <1>3 DEF Records, TypeOK
  <2>2. i # j
    BY <2>1 DEF Held, Consumed, PermitRecord, TypeOK
  <2> QED
    BY <1>0, <2>1, <2>2 DEF Held, TypeOK
<1> QED
  BY <1>1, <1>2, <1>3, StepKinds

LEMMA ReleasesStep ==
  ASSUME TypeOK, KeyTaken, OneCause, CustodySound, RevocationReleases, [Next]_vars
  PROVE  RevocationReleases'
<1> SUFFICES ASSUME NEW i \in Held(permits')
             PROVE  GrantOf[i] \notin revokedGrants' /\ permits'[i].key \notin revokedKeys'
  BY DEF RevocationReleases
<1>1. GrantOf[i] \notin revokedGrants /\ permits'[i].key \notin revokedKeys
  BY HeldAfterStep DEF RevocationReleases, CustodySound
<1> QED
  BY <1>1, RevocationEnds

LEMMA IssuedAfterStep ==
  ASSUME TypeOK, KeyTaken, OneCause, [Next]_vars, NEW i \in Intent, Issued(i)'
  PROVE  \/ Issued(i) /\ permits'[i].key = permits[i].key
         \/ permits'[i].key = signer
<1>1. CASE Quiet
  BY <1>1, SettlesKeeps DEF Quiet, TypeOK
<1>2. ASSUME NEW j \in Intent, Issues(j)
      PROVE  \/ Issued(i) /\ permits'[i].key = permits[i].key
             \/ permits'[i].key = signer
  <2>1. PICK t \in Instant :
          permits' = [Purged(permits, t) EXCEPT ![j] = NewPermit(j, t)]
    BY <1>2 DEF Issues
  <2>2. /\ Purged(permits, t) \in [Intent -> PermitRecord]
        /\ Settles(permits, Purged(permits, t))
    BY PurgedSettles DEF TypeOK
  <2>3. CASE i = j
    BY <2>1, <2>2, <2>3, NewPermitType
  <2>4. CASE i # j
    BY <1>2, <2>1, <2>2, <2>4, SettlesKeeps DEF Issues, Issued, TypeOK
  <2> QED
    BY <2>3, <2>4
<1>3. ASSUME NEW j \in Intent, Records(j)
      PROVE  Issued(i) /\ permits'[i].key = permits[i].key
  BY <1>3 DEF Records, Consumed, Issued, TypeOK, PermitRecord
<1> QED
  BY <1>1, <1>2, <1>3, StepKinds

LEMMA CustodyStep ==
  ASSUME TypeOK, TypeOK', KeyTaken, OneCause, OneCause', CustodySound,
         RevocationReleases, [Next]_vars
  PROVE  CustodySound'
<1>1. /\ signer' \in verifiers' /\ verifiers' \cap revokedKeys' = {}
      /\ verifiers \cup revokedKeys \subseteq verifiers' \cup revokedKeys'
  BY KeysStep DEF CustodySound
<1>2. ASSUME NEW i \in Intent, Issued(i)'
      PROVE  permits'[i].key \in verifiers' \cup revokedKeys'
  BY <1>1, <1>2, IssuedAfterStep DEF CustodySound
<1>3. ASSUME NEW i \in Intent, i \in Held(permits')
      PROVE  permits'[i].key \in verifiers'
  <2>1. Issued(i)'
    BY <1>3 DEF OneCause, Held
  <2>2. permits'[i].key \notin revokedKeys'
    BY <1>3, ReleasesStep DEF RevocationReleases
  <2> QED
    BY <1>2, <2>1, <2>2
<1> QED
  BY <1>1, <1>2, <1>3 DEF CustodySound

-----------------------------------------------------------------------------
(* The inductive invariant and the theorems *)

Safe ==
  /\ TypeOK
  /\ KeyTaken
  /\ OneCause
  /\ ReservationsCovered
  /\ BudgetConserved
  /\ CustodySound
  /\ RevocationReleases

LEMMA SafeInit == Init => Safe
<1> SUFFICES ASSUME Init PROVE Safe
  OBVIOUS
<1>1. TypeOK
  BY TypeInit
<1>2. /\ \A i \in Intent : decisions[i] = None /\ permits[i] = NoPermit
      /\ remaining = Capacity /\ committed = <<>>
      /\ Capacity \in Nat
  BY DeclarationAssumption DEF Init
<1>3. ~NoPermit.active /\ ~NoPermit.consumed
  BY DEF NoPermit
<1>4. KeyTaken /\ OneCause
  BY <1>2, <1>3 DEF KeyTaken, OneCause, Issued, None
<1>5. Held(permits) = {} /\ Spent = {}
  BY <1>2, <1>3 DEF Held, Spent
<1>6. ReservationsCovered
  BY <1>2, <1>5, SumEmpty DEF ReservationsCovered, StructuralReserved
<1>7. BudgetConserved
  <2>1. Len(<<>>) = 0 /\ DOMAIN committed = {}
    BY <1>2
  <2> QED
    BY <1>2, <1>5, <2>1, SumEmpty, FS_EmptySet DEF BudgetConserved
<1>8. CustodySound /\ RevocationReleases
  BY <1>2, <1>5 DEF Init, CustodySound, RevocationReleases, Issued, None
<1> QED
  BY <1>1, <1>4, <1>6, <1>7, <1>8 DEF Safe

LEMMA SafeStep == Safe /\ [Next]_vars => Safe'
<1> SUFFICES ASSUME Safe, [Next]_vars PROVE Safe'
  OBVIOUS
<1>1. TypeOK'
  BY TypeStep DEF Safe
<1>2. KeyTaken' /\ OneCause'
  BY <1>1, KeyTakenStep, OneCauseStep DEF Safe
<1>3. ReservationsCovered' /\ BudgetConserved'
  BY <1>1, CoveredStep, ConservedStep DEF Safe
<1>4. RevocationReleases'
  BY ReleasesStep DEF Safe
<1>5. CustodySound'
  BY <1>1, <1>2, CustodyStep DEF Safe
<1> QED
  BY <1>1, <1>2, <1>3, <1>4, <1>5 DEF Safe

\* All of the invariant holds in every reachable state.
THEOREM Safety == Spec => []Safe
  BY SafeInit, SafeStep, PTL DEF Spec

\* Live reservations never promise more than is left of the budget, so the
\* integrity halt STRUCTURAL_DEBIT_UNAVAILABLE of commit_execution is out of reach.
THEOREM Covered == Spec => []ReservationsCovered
<1>1. Safe => ReservationsCovered
  BY DEF Safe
<1> QED
  BY <1>1, Safety, PTL

\* The budget is exactly the capacity less the cost of what was committed once.
THEOREM Conserved == Spec => []BudgetConserved
<1>1. Safe => BudgetConserved
  BY DEF Safe
<1> QED
  BY <1>1, Safety, PTL

\* A reservation ends for exactly one reason.
THEOREM SingleCause == Spec => []OneCause
<1>1. Safe => OneCause
  BY DEF Safe
<1> QED
  BY <1>1, Safety, PTL

\* No permit is live under a revoked grant or a revoked key.
THEOREM Releases == Spec => []RevocationReleases
<1>1. Safe => RevocationReleases
  BY DEF Safe
<1> QED
  BY <1>1, Safety, PTL

\* Every permit the engine signed is verifiable or signed by a revoked key.
THEOREM Custody == Spec => []CustodySound
<1>1. Safe => CustodySound
  BY DEF Safe
<1> QED
  BY <1>1, Safety, PTL

-----------------------------------------------------------------------------
(* What ended stays ended *)

LEMMA EndedStays ==
  ASSUME Safe, [Next]_vars, NEW i \in Intent, Issued(i), ~permits[i].active
  PROVE  permits'[i] = permits[i] /\ receipts'[i] = receipts[i]
<1>0. i \notin Held(permits)
  BY DEF Held
<1>1. CASE Quiet
  BY <1>0, <1>1 DEF Quiet, Settles
<1>2. ASSUME NEW j \in Intent, Issues(j)
      PROVE  permits'[i] = permits[i] /\ receipts'[i] = receipts[i]
  <2>1. PICK t \in Instant :
          permits' = [Purged(permits, t) EXCEPT ![j] = NewPermit(j, t)]
    BY <1>2 DEF Issues
  <2>2. Settles(permits, Purged(permits, t)) /\ Purged(permits, t) \in [Intent -> PermitRecord]
    BY PurgedSettles DEF TypeOK, Safe
  <2>3. i # j
    BY <1>2 DEF Issues, Issued, None
  <2> QED
    BY <1>0, <1>2, <2>1, <2>2, <2>3 DEF Issues, Settles
<1>3. ASSUME NEW j \in Intent, Records(j)
      PROVE  permits'[i] = permits[i] /\ receipts'[i] = receipts[i]
  <2>1. i # j
    BY <1>0, <1>3 DEF Records
  <2> QED
    BY <1>3, <2>1 DEF Records, Safe, TypeOK
<1> QED
  BY <1>1, <1>2, <1>3, StepKinds DEF Safe

\* No call, no later grant and no movement of the clock revives a permit that
\* ended, or rewrites its cause or its receipt.
THEOREM Permanence == Spec => EndsForGood
<1>1. Safe /\ [Next]_vars =>
        [\A i \in Intent :
           Issued(i) /\ ~permits[i].active =>
             permits'[i] = permits[i] /\ receipts'[i] = receipts[i]]_vars
  BY EndedStays
<1> QED
  BY <1>1, Safety, PTL DEF Spec, EndsForGood

-----------------------------------------------------------------------------
(* The book *)

\* LifeOf as a function, under the name that the book gives it.
Lives == [i \in Intent |-> LifeOf(i)]

LEMMA SameSums == \A S, w : Book!SumOver(S, w) = SumOver(S, w)
BY DEF Book!SumOver, Book!Units, Book!Cardinality, SumOver, Units, Cardinality

LEMMA LiveIsHeld == Book!Live = Held(permits)
BY DEF Book!Live, LifeOf, Held

\* Permits that only end are the book's End.
LEMMA QuietEnds ==
  ASSUME TypeOK, TypeOK', OneCause, Quiet
  PROVE  Book!End(Held(permits) \ Held(permits'))
<1> DEFINE K == Held(permits) \ Held(permits')
<1>1. \A i \in Held(permits') : i \in Held(permits) /\ permits'[i] = permits[i]
  BY SettlesHeld DEF Quiet, TypeOK
<1>2. ASSUME NEW i \in Intent
      PROVE  LifeOf(i)' = IF i \in K THEN "DEAD" ELSE LifeOf(i)
  <2>1. (Issued(i)' <=> Issued(i)) /\ receipts'[i] = receipts[i]
    BY DEF Quiet
  <2>2. CASE permits'[i] = permits[i]
    BY <2>1, <2>2 DEF LifeOf, Held, Spent
  <2>3. ASSUME i \in Held(permits), NEW reason \in Reasons,
               permits'[i] = Invalidated(permits[i], reason)
        PROVE  LifeOf(i)' = IF i \in K THEN "DEAD" ELSE LifeOf(i)
    <3>1. ~permits'[i].active /\ ~permits'[i].consumed
      BY <2>3, InvalidatedFields DEF Held, TypeOK
    <3>2. Issued(i)'
      BY <2>1, <2>3 DEF OneCause, Held
    <3>3. LifeOf(i)' = "DEAD" /\ i \in K
      BY <2>3, <3>1, <3>2 DEF LifeOf, Held, Spent
    <3> QED
      BY <3>3
  <2> QED
    BY <2>2, <2>3 DEF Quiet, Settles
<1> HIDE DEF K
<1>3. Lives' = [i \in Intent |-> IF i \in K THEN "DEAD" ELSE Lives[i]]
  BY <1>2 DEF Lives
<1>4. K \subseteq Book!Live
  BY LiveIsHeld DEF K
<1>5. remaining' = remaining
  BY DEF Quiet
<1> QED
  BY <1>3, <1>4, <1>5 DEF Book!End, Book!Ended, K, Lives

\* A permit that is issued is the book's Promise, after the permits that the
\* purge ended.
LEMMA IssuePromises ==
  ASSUME TypeOK, TypeOK', OneCause, NEW i \in Intent, Issues(i)
  PROVE  \E K \in SUBSET Book!Live : Book!Promise(i, K)
<1>1. PICK t \in Instant :
        /\ StructuralGate(i, Purged(permits, t))
        /\ permits' = [Purged(permits, t) EXCEPT ![i] = NewPermit(i, t)]
  BY DEF Issues
<1> DEFINE ps == Purged(permits, t)
           K == Held(permits) \ Held(ps)
<1>2. ps \in [Intent -> PermitRecord] /\ Settles(permits, ps)
  BY PurgedSettles DEF TypeOK
<1>3. remaining - SumOver(Held(ps), Cost) >= Cost[i]
  BY <1>1 DEF StructuralGate, StructuralReserved
<1>4. permits' = [ps EXCEPT ![i] = NewPermit(i, t)]
  BY <1>1
<1> HIDE DEF ps
<1>5. \A j \in Held(ps) : j \in Held(permits) /\ ps[j] = permits[j]
  BY <1>2, SettlesHeld DEF TypeOK
<1>6. Book!Live \ K = Held(ps) /\ K \subseteq Book!Live /\ K \subseteq Intent
  BY <1>5, LiveIsHeld DEF Held
<1>7. LifeOf(i) = "NONE" /\ LifeOf(i)' = "LIVE"
  <2>1. ~Issued(i) /\ ~permits[i].active /\ ~permits[i].consumed
    BY DEF Issues, Issued, None, OneCause
  <2>2. i \in Held(permits')
    BY <1>2, <1>4, NewPermitType DEF Held
  <2> QED
    BY <2>1, <2>2 DEF LifeOf, Held, Spent
<1>8. ASSUME NEW j \in Intent, j # i
      PROVE  LifeOf(j)' = IF j \in K THEN "DEAD" ELSE LifeOf(j)
  <2>1. /\ permits'[j] = ps[j] /\ receipts'[j] = receipts[j]
        /\ (Issued(j)' <=> Issued(j))
    BY <1>2, <1>4, <1>8 DEF Issues, Issued, TypeOK
  <2>2. CASE ps[j] = permits[j]
    BY <2>1, <2>2 DEF LifeOf, Held, Spent
  <2>3. ASSUME j \in Held(permits), NEW reason \in Reasons,
               ps[j] = Invalidated(permits[j], reason)
        PROVE  LifeOf(j)' = IF j \in K THEN "DEAD" ELSE LifeOf(j)
    <3>1. ~ps[j].active /\ ~ps[j].consumed
      BY <2>3, InvalidatedFields DEF Held, TypeOK
    <3>2. Issued(j)
      BY <2>3 DEF OneCause, Held
    <3>3. LifeOf(j)' = "DEAD" /\ j \in K
      BY <2>1, <2>3, <3>1, <3>2 DEF LifeOf, Held, Spent
    <3> QED
      BY <3>3
  <2> QED
    BY <1>2, <2>2, <2>3 DEF Settles
<1> HIDE DEF K
<1>9. Lives' = [[j \in Intent |-> IF j \in K THEN "DEAD" ELSE Lives[j]]
                  EXCEPT ![i] = "LIVE"]
  BY <1>7, <1>8 DEF Lives
<1>10. SumOver(Held(ps), Cost) + Cost[i] <= remaining
  <2>1. SumOver(Held(ps), Cost) \in Nat /\ Cost[i] \in Nat
    BY HeldFinite, CostType, SumType
  <2> QED
    BY <1>3, <2>1 DEF TypeOK
<1>11. remaining' = remaining /\ Lives[i] = "NONE"
  BY <1>7 DEF Issues, Lives
<1>12. Book!SumOver(Book!Live \ K, Cost) + Cost[i] <= remaining
  BY <1>6, <1>10, SameSums
<1>13. K \in SUBSET Book!Live
  BY <1>6
<1>14. Lives' = [Book!Ended(K) EXCEPT ![i] = "LIVE"]
  BY <1>9 DEF Book!Ended, Lives
<1>15. Book!Promise(i, K)
  BY <1>11, <1>12, <1>13, <1>14 DEF Book!Promise, Lives
<1> QED
  BY <1>13, <1>15

\* An execution is the book's Spend when it debits and its Close otherwise.
LEMMA RecordSpends ==
  ASSUME TypeOK, NEW i \in Intent, Records(i)
  PROVE  Book!Spend(i) \/ Book!Close(i)
<1>1. PICK req \in Request :
        /\ receipts' = [receipts EXCEPT ![i] = req]
        /\ Debits(req) => remaining' = remaining - Cost[i]
        /\ ~Debits(req) => remaining' = remaining
  BY DEF Records
<1>2. permits'[i].consumed /\ ~permits'[i].active /\ receipts'[i] = req
  BY <1>1 DEF Records, Consumed, TypeOK, PermitRecord
<1>3. LifeOf(i)' = IF Debits(req) THEN "SPENT" ELSE "CLOSED"
  BY <1>2 DEF LifeOf, Held, Spent, Debits
<1>4. ASSUME NEW j \in Intent, j # i PROVE LifeOf(j)' = LifeOf(j)
  BY <1>1, <1>4 DEF LifeOf, Held, Spent, Records, Issued, TypeOK
<1>5. LifeOf(i) = "LIVE"
  BY DEF Records, LifeOf
<1>6. Lives' = [Lives EXCEPT ![i] = IF Debits(req) THEN "SPENT" ELSE "CLOSED"]
  BY <1>3, <1>4 DEF Lives
<1>7. Lives[i] = "LIVE"
  BY <1>5 DEF Lives
<1> QED
  BY <1>1, <1>6, <1>7 DEF Book!Spend, Book!Close, Lives

\* Nothing that the engine does about time, grants, keys, windows or replays
\* breaks the promise: each call is one step of the book, or none.
THEOREM Refinement == Spec => Implements
<1>1. Init => Book!BookInit
  BY DEF Init, Book!BookInit, LifeOf, Held, Spent, NoPermit, Issued, None
<1>2. Safe /\ Safe' /\ [Next]_vars => [Book!BookNext]_(Book!bookVars)
  <2> SUFFICES ASSUME Safe, Safe', [Next]_vars PROVE Book!BookNext
    OBVIOUS
  <2>1. CASE Quiet
    <3>1. Book!End(Held(permits) \ Held(permits'))
      BY <2>1, QuietEnds DEF Safe
    <3>2. Held(permits) \ Held(permits') \in SUBSET Book!Live
      BY LiveIsHeld
    <3> QED
      BY <3>1, <3>2 DEF Book!BookNext
  <2>2. ASSUME NEW i \in Intent, Issues(i) PROVE Book!BookNext
    BY <2>2, IssuePromises DEF Safe, Book!BookNext
  <2>3. ASSUME NEW i \in Intent, Records(i) PROVE Book!BookNext
    BY <2>3, RecordSpends DEF Safe, Book!BookNext
  <2> QED
    BY <2>1, <2>2, <2>3, StepKinds DEF Safe
<1> QED
  BY <1>1, <1>2, Safety, PTL DEF Spec, Implements, Book!BookSpec


-----------------------------------------------------------------------------
(* The resource windows *)

\* The debits of the interval from s - W to s, and what each takes of r.
Interval(r, s) == {k \in DOMAIN committed : committed[k].at \in (s - Window[r]) .. s}
Takes(r) == [k \in DOMAIN committed |-> Claim[r][committed[k].intent]]

\* A step that debits appends one debit that the windows admit at its instant.
LEMMA DebitStep ==
  ASSUME [Next]_vars
  PROVE  \/ UNCHANGED committed
         \/ \E i \in Intent, t \in Instant :
              /\ committed' = Append(committed, [intent |-> i, at |-> t])
              /\ WindowAdmits(i, t)
<1>1. ASSUME NEW i \in Intent, NEW t \in Instant, NEW req \in Request,
             RecordExecution(i, req, t), Debits(req)
      PROVE  /\ committed' = Append(committed, [intent |-> i, at |-> t])
             /\ WindowAdmits(i, t)
  <2>1. CommitVerdict(i, req, t) = None /\ req.outcome = "COMMITTED"
    BY <1>1 DEF RecordExecution, Debits
  <2>2. WindowAdmits(i, t)
    BY <2>1 DEF CommitVerdict, None
  <2> QED
    BY <1>1, <2>2 DEF RecordExecution
<1>2. ASSUME NEW t \in Instant, NEW i \in Intent, Executes(i, t)
      PROVE  \/ UNCHANGED committed
             \/ /\ committed' = Append(committed, [intent |-> i, at |-> t])
                /\ WindowAdmits(i, t)
  BY <1>1, <1>2 DEF Executes, RecordExecution, RefuseExecution
<1>3. ASSUME NEW t \in Instant, NEW i \in Intent, Evaluates(i, t)
      PROVE  UNCHANGED committed
  BY <1>3 DEF Evaluates, ScreenOut, RefuseAtGate, IssuePermit, ReplayRefusal,
              ReplayAllow, Finishes, stateVars
<1>4. ASSUME NEW t \in Instant, Governs(t) PROVE UNCHANGED committed
  BY <1>4 DEF Governs, Activate, IssueGrant, RevokeGrant, RotateSigner, RevokeKey
<1>5. ASSUME NEW t \in Instant, ClockStep(t) PROVE UNCHANGED committed
  BY <1>5 DEF ClockStep, stateVars
<1>6. CASE UNCHANGED vars
  BY <1>6 DEF vars, stateVars
<1> QED
  BY <1>2, <1>3, <1>4, <1>5, <1>6 DEF Next

LEMMA TakesType ==
  ASSUME TypeOK, NEW r \in Resource
  PROVE  /\ IsFiniteSet(DOMAIN committed)
         /\ \A k \in DOMAIN committed : Takes(r)[k] \in Nat /\ committed[k] \in Debit
<1>1. DOMAIN committed = 1 .. Len(committed) /\ Len(committed) \in Nat
  BY DEF TypeOK
<1>2. IsFiniteSet(DOMAIN committed)
  BY <1>1, FS_Interval
<1>3. \A k \in DOMAIN committed : committed[k] \in Debit
  BY <1>1 DEF TypeOK
<1> QED
  BY <1>2, <1>3, IntentAssumption DEF Takes, Debit

\* The debits that an interval holding t has are among those that the window
\* counts at t, whether they are later than t or not.
LEMMA IntervalCounted ==
  ASSUME TypeOK, NEW r \in Resource, NEW s \in Instant, NEW t \in Instant,
         t \in (s - Window[r]) .. s
  PROVE  SumOver(Interval(r, s), Takes(r)) <= CommittedInWindow(r, t)
<1> DEFINE counted == {k \in DOMAIN committed : t - committed[k].at <= Window[r]}
<1>1. Window[r] \in Nat /\ s \in Int /\ t \in Int
  BY DeclarationAssumption, EnvironmentAssumption
<1>2. Interval(r, s) \subseteq counted
  <2> SUFFICES ASSUME NEW k \in DOMAIN committed,
                      committed[k].at \in (s - Window[r]) .. s
               PROVE  t - committed[k].at <= Window[r]
    BY DEF Interval
  <2>1. committed[k].at \in Int
    BY TakesType DEF Debit
  <2> QED
    BY <1>1, <2>1
<1>3. IsFiniteSet(counted) /\ \A k \in counted : Takes(r)[k] \in Nat
  BY TakesType, FS_Subset
<1>4. CommittedInWindow(r, t) = SumOver(counted, Takes(r))
  BY DEF CommittedInWindow, Takes
<1> HIDE DEF counted
<1> QED
  BY <1>2, <1>3, <1>4, SumSubset

LEMMA WindowHoldsAlt ==
  WindowHolds <=> \A r \in Resource, s \in Instant :
                    SumOver(Interval(r, s), Takes(r)) <= Limit[r]
BY DEF WindowHolds, Interval, Takes

LEMMA WindowStep ==
  ASSUME TypeOK, TypeOK', WindowHolds, [Next]_vars
  PROVE  WindowHolds'
<1>1. CASE UNCHANGED committed
  BY <1>1 DEF WindowHolds
<1>2. ASSUME NEW i \in Intent, NEW t \in Instant, WindowAdmits(i, t),
             committed' = Append(committed, [intent |-> i, at |-> t])
      PROVE  WindowHolds'
  <2> SUFFICES ASSUME NEW r \in Resource, NEW s \in Instant
               PROVE  SumOver(Interval(r, s)', Takes(r)') <= Limit[r]
    BY DEF WindowHolds, Interval, Takes
  <2> DEFINE D == Interval(r, s)
             n == Len(committed) + 1
             debit == [intent |-> i, at |-> t]
  <2>1. /\ n \in Nat \ {0} /\ DOMAIN committed = 1 .. n - 1
        /\ DOMAIN committed' = 1 .. n /\ committed'[n] = debit
        /\ \A k \in 1 .. n - 1 : committed'[k] = committed[k]
    BY <1>2 DEF TypeOK
  <2>2. debit.intent = i /\ debit.at = t
    OBVIOUS
  <2>3. D \subseteq 1 .. n - 1 /\ IsFiniteSet(D) /\ n \notin D
        /\ \A k \in D : Takes(r)[k] \in Nat
    <3>1. D \subseteq DOMAIN committed
      BY DEF Interval
    <3> QED
      BY <2>1, <3>1, TakesType, FS_Subset
  <2> HIDE DEF n, debit
  <2>9. 1 .. n = (1 .. n - 1) \cup {n}
    BY <2>1
  <2>4. \A k \in D : Takes(r)'[k] = Takes(r)[k]
    BY <2>1, <2>3 DEF Takes
  <2>5. Takes(r)'[n] = Claim[r][i]
    BY <2>1, <2>2, <2>9 DEF Takes
  <2>6. Claim[r][i] \in Nat /\ Limit[r] \in Nat
    BY IntentAssumption, DeclarationAssumption
  <2>7. SumOver(D, Takes(r)') = SumOver(D, Takes(r))
    BY <2>4, SumSameWeights
  <2>8. SumOver(D, Takes(r)) <= Limit[r] /\ SumOver(D, Takes(r)) \in Nat
    BY <2>3, SumType, WindowHoldsAlt
  <2>10. CASE t \notin (s - Window[r]) .. s
    <3>1. Interval(r, s)' = D
      BY <2>1, <2>2, <2>9, <2>10 DEF Interval
    <3> QED
      BY <2>7, <2>8, <3>1
  <2>11. CASE t \in (s - Window[r]) .. s
    <3>1. Interval(r, s)' = D \cup {n}
      BY <2>1, <2>2, <2>9, <2>11 DEF Interval
    <3>2. \A k \in D : Takes(r)'[k] \in Nat
      BY <2>3, <2>4
    <3>3. SumOver(D \cup {n}, Takes(r)') = SumOver(D, Takes(r)') + Takes(r)'[n]
      BY <2>3, <2>5, <2>6, <3>2, SumAdd
    <3>4. CASE r \in Needs[i]
      <4>1. CommittedInWindow(r, t) + Claim[r][i] <= Limit[r]
        BY <1>2, <3>4 DEF WindowAdmits
      <4>2. SumOver(D, Takes(r)) <= CommittedInWindow(r, t)
        BY <2>11, IntervalCounted
      <4>3. CommittedInWindow(r, t) \in Nat
        <5>1. IsFiniteSet({k \in DOMAIN committed : t - committed[k].at <= Window[r]})
          BY TakesType, FS_Subset
        <5> QED
          BY <5>1, TakesType, SumType DEF CommittedInWindow, Takes
      <4> QED
        BY <2>5, <2>6, <2>7, <2>8, <3>1, <3>3, <4>1, <4>2, <4>3
    <3>5. CASE r \notin Needs[i]
      <4>1. Claim[r][i] = 0
        BY <3>5, IntentAssumption
      <4> QED
        BY <2>5, <2>7, <2>8, <3>1, <3>3, <4>1
    <3> QED
      BY <3>4, <3>5
  <2> QED
    BY <2>10, <2>11
<1> QED
  BY <1>1, <1>2, DebitStep

\* In every closed interval of a window's length the committed amounts stay
\* within the limit, with reservations or without, whatever the clock does.
THEOREM Windows == Spec => []WindowHolds
<1>1. Init => WindowHolds
  <2> SUFFICES ASSUME Init, NEW r \in Resource, NEW s \in Instant
               PROVE  SumOver(Interval(r, s), Takes(r)) <= Limit[r]
    BY WindowHoldsAlt
  <2>1. Interval(r, s) = {}
    BY DEF Init, Interval
  <2>2. Limit[r] \in Nat
    BY DeclarationAssumption
  <2> QED
    BY <2>1, <2>2, SumEmpty
<1>2. TypeOK /\ TypeOK' /\ WindowHolds /\ [Next]_vars => WindowHolds'
  BY WindowStep
<1> QED
  BY <1>1, <1>2, TypeCorrect, PTL DEF Spec

-----------------------------------------------------------------------------
(* The authority of a debit *)

\* No permit outlives its grant or the declaration.
Capped ==
  \A i \in Intent : Issued(i) => /\ permits[i].expiresAt <= ExpiresAt
                                 /\ permits[i].expiresAt <= ValidUntil[GrantOf[i]]

LEMMA LapsesCapped ==
  ASSUME TypeOK, NEW i \in Intent, NEW t \in Instant
  PROVE  /\ Lapses(i, t) \in Int
         /\ Lapses(i, t) <= ExpiresAt /\ Lapses(i, t) <= ValidUntil[GrantOf[i]]
<1> DEFINE cap == Earlier(ValidUntil[GrantOf[i]], ExpiresAt)
<1>1. /\ t + TTL \in Int /\ ValidUntil[GrantOf[i]] \in Int /\ ExpiresAt \in Int
  BY IntentAssumption, DeclarationAssumption, EnvironmentAssumption
<1>2. cap \in Int /\ cap <= ValidUntil[GrantOf[i]] /\ cap <= ExpiresAt
  BY <1>1 DEF Earlier
<1>3. Lapses(i, t) = Earlier(t + TTL, cap)
  BY DEF Lapses
<1> HIDE DEF cap
<1>4. Lapses(i, t) \in Int /\ Lapses(i, t) <= cap
  BY <1>1, <1>2, <1>3, EarlierType
<1> QED
  BY <1>1, <1>2, <1>4

LEMMA CappedStep ==
  ASSUME Safe, Safe', Capped, [Next]_vars
  PROVE  Capped'
<1> USE DEF Safe
<1>1. CASE Quiet
  BY <1>1, SettlesKeeps DEF Quiet, Capped, TypeOK
<1>2. ASSUME NEW i \in Intent, NEW t \in Instant, Issues(i), IssuePermit(i, t)
      PROVE  Capped'
  <2> DEFINE ps == Purged(permits, t)
  <2>1. ps \in [Intent -> PermitRecord] /\ Settles(permits, ps)
    BY PurgedSettles DEF TypeOK
  <2>2. permits' = [ps EXCEPT ![i] = NewPermit(i, t)]
    BY <1>2 DEF IssuePermit
  <2>3. NewPermit(i, t).expiresAt = Lapses(i, t)
    BY DEF NewPermit
  <2> HIDE DEF ps
  <2>4. ASSUME NEW j \in Intent, j # i, Issued(j)'
        PROVE  /\ permits'[j].expiresAt <= ExpiresAt
               /\ permits'[j].expiresAt <= ValidUntil[GrantOf[j]]
    <3>1. Issued(j)
      BY <1>2, <2>4 DEF Issues, Issued, TypeOK
    <3>2. permits'[j].expiresAt = permits[j].expiresAt
      BY <2>1, <2>2, <2>4, SettlesKeeps DEF TypeOK
    <3> QED
      BY <3>1, <3>2 DEF Capped
  <2>5. permits'[i].expiresAt = Lapses(i, t)
    BY <2>1, <2>2, <2>3
  <2> QED
    BY <2>4, <2>5, LapsesCapped DEF Capped
<1>3. ASSUME NEW i \in Intent, Records(i) PROVE Capped'
  <2>1. \A j \in Intent : permits'[j].expiresAt = permits[j].expiresAt
    BY <1>3 DEF Records, Consumed, TypeOK, PermitRecord
  <2> QED
    BY <1>3, <2>1 DEF Records, Capped, Issued
<1> QED
  BY <1>1, <1>2, <1>3, StepActions

\* What is issued stays issued.
LEMMA IssuedStays ==
  ASSUME Safe, [Next]_vars, NEW i \in Intent, Issued(i)
  PROVE  Issued(i)'
<1>1. CASE Quiet
  BY <1>1 DEF Quiet
<1>2. ASSUME NEW j \in Intent, Issues(j) PROVE Issued(i)'
  BY <1>2 DEF Issues, Issued, Safe, TypeOK
<1>3. ASSUME NEW j \in Intent, Records(j) PROVE Issued(i)'
  BY <1>3 DEF Records, Issued
<1> QED
  BY <1>1, <1>2, <1>3, StepKinds DEF Safe

\* A debit is made under a grant and a permit that are in force at its instant.
LEMMA DebitAuthorised ==
  ASSUME Safe, Capped, NEW i \in Intent, NEW t \in Instant, NEW req \in Request,
         RecordExecution(i, req, t)
  PROVE  /\ Issued(i) /\ permits'[i].consumed
         /\ t < permits'[i].expiresAt /\ t < ExpiresAt
         /\ ValidFrom[GrantOf[i]] <= t /\ t < ValidUntil[GrantOf[i]]
<1>1. CommitVerdict(i, req, t) = None
  BY DEF RecordExecution
<1>2. permits[i].reason = None
  BY <1>1 DEF CommitVerdict, None
<1>3. Issued(i) /\ permits[i].active
  BY <1>1, <1>2 DEF CommitVerdict, None
<1>4. GrantFault(GrantOf[i], t) = None
  BY <1>1, <1>2, <1>3 DEF CommitVerdict, None
<1>5. ~(t < ValidFrom[GrantOf[i]]) /\ ~(t >= ValidUntil[GrantOf[i]])
  BY <1>4 DEF GrantFault, None
<1>6. ~(t >= permits[i].expiresAt)
  BY <1>1, <1>2, <1>3, <1>4 DEF CommitVerdict, None
<1>7. /\ t \in Int /\ permits[i].expiresAt \in Int /\ ExpiresAt \in Int
      /\ ValidFrom[GrantOf[i]] \in Int /\ ValidUntil[GrantOf[i]] \in Int
  BY IntentAssumption, DeclarationAssumption, EnvironmentAssumption
     DEF Safe, TypeOK, PermitRecord
<1>8. permits'[i].consumed /\ permits'[i].expiresAt = permits[i].expiresAt
  BY DEF RecordExecution, Consumed, Safe, TypeOK, PermitRecord
<1> QED
  BY <1>3, <1>5, <1>6, <1>7, <1>8 DEF Capped

Authorised(d) ==
  LET i == d.intent
      t == d.at
  IN /\ Issued(i) /\ permits[i].consumed
     /\ t < permits[i].expiresAt /\ t < ExpiresAt
     /\ ValidFrom[GrantOf[i]] <= t /\ t < ValidUntil[GrantOf[i]]

\* A debit that was authorised stays so: its permit has ended and is rewritten
\* no more.
LEMMA AuthorisedStays ==
  ASSUME Safe, [Next]_vars, NEW d \in Debit, Authorised(d)
  PROVE  Authorised(d)'
<1>1. d.intent \in Intent
  BY DEF Debit
<1>2. Issued(d.intent) /\ permits[d.intent].consumed
  BY DEF Authorised
<1>3. ~permits[d.intent].active
  BY <1>1, <1>2 DEF Safe, OneCause
<1>4. permits'[d.intent] = permits[d.intent] /\ Issued(d.intent)'
  BY <1>1, <1>2, <1>3, EndedStays, IssuedStays
<1> QED
  BY <1>4 DEF Authorised

DebitsInTime == \A k \in DOMAIN committed : Authorised(committed[k])

LEMMA InTimeStep ==
  ASSUME Safe, Capped, DebitsInTime, [Next]_vars
  PROVE  DebitsInTime'
<1>1. \A k \in DOMAIN committed : committed[k] \in Debit /\ Authorised(committed[k])
  BY DEF DebitsInTime, Safe, TypeOK
<1>2. SUFFICES ASSUME NEW k \in DOMAIN committed', NEW d, d = committed'[k]
               PROVE  Authorised(d)'
  BY DEF DebitsInTime
<1>3. CASE k \in DOMAIN committed /\ d = committed[k]
  BY <1>1, <1>3, AuthorisedStays
<1>4. ASSUME NEW i \in Intent, NEW t \in Instant, NEW req \in Request,
             RecordExecution(i, req, t), Debits(req)
      PROVE  Authorised(d)'
  <2> DEFINE n == Len(committed)
             debit == [intent |-> i, at |-> t]
  <2>1. committed' = Append(committed, debit) /\ n \in Nat /\ DOMAIN committed = 1 .. n
    BY <1>4 DEF RecordExecution, Safe, TypeOK
  <2>2. /\ k \in DOMAIN committed /\ d = committed[k]
        \/ d = debit
    BY <1>2, <2>1 DEF Safe, TypeOK
  <2>3. CASE d = debit
    <3>1. d.intent = i /\ d.at = t
      BY <2>3
    <3> QED
      BY <1>4, <3>1, DebitAuthorised, IssuedStays DEF Authorised
  <2> QED
    BY <1>3, <2>2, <2>3
<1>5. CASE UNCHANGED committed
  BY <1>2, <1>3, <1>5
<1>6. \/ UNCHANGED committed
      \/ \E i \in Intent, t \in Instant, req \in Request :
           RecordExecution(i, req, t) /\ Debits(req)
  BY StepActions DEF Safe, Quiet, Issues, RecordExecution
<1> QED
  BY <1>4, <1>5, <1>6

LEMMA CappedAlways == Spec => [](Safe /\ Capped)
<1>1. Init => Capped
  BY DEF Init, Capped, Issued, None
<1>2. Safe /\ Safe' /\ Capped /\ [Next]_vars => Capped'
  BY CappedStep
<1> QED
  BY <1>1, <1>2, Safety, PTL DEF Spec

\* No debit at or after the end of its permit, of its grant or of the declaration, nor
\* before its grant is valid, however the clock moves between the readings of the call.
THEOREM InTime == Spec => []DebitsInTime
<1>1. Init => DebitsInTime
  BY DEF Init, DebitsInTime
<1>2. Safe /\ Capped /\ DebitsInTime /\ [Next]_vars => DebitsInTime'
  BY InTimeStep
<1> QED
  BY <1>1, <1>2, CappedAlways, PTL DEF Spec

-----------------------------------------------------------------------------
(* The event chain *)

\* What a step may tell the chain, with what it does to the rest.
Mute == UNCHANGED <<events, idempotency, revokedGrants>>

Announces ==
  /\ \E type \in {"DECLARATION_ACTIVATED", "AUTHORITY_GRANTED"},
        subject \in Grant \cup {None} : Appended(type, subject)
  /\ UNCHANGED <<idempotency, revokedGrants>>

Revokes(g) ==
  /\ Appended("AUTHORITY_REVOKED", g)
  /\ revokedGrants' = revokedGrants \cup {g}
  /\ UNCHANGED idempotency

Declines(i) ==
  /\ Appended("INTENT_NON_EXECUTABLE", i)
  /\ UNCHANGED revokedGrants

Verdicts == {"PERMIT_ISSUED", "INTENT_NON_EXECUTABLE"}

\* The key of i is free before the step and taken by i after it.
TakesKey(i) ==
  /\ idempotency[KeyOf[i]] = None
  /\ idempotency' = [idempotency EXCEPT ![KeyOf[i]] = i]

\* Every step appends one event at most, and the two kinds that are not quiet
\* tell what they do.
LEMMA StepTells ==
  ASSUME Safe, [Next]_vars
  PROVE  \/ Quiet /\ Mute
         \/ Quiet /\ Announces
         \/ Quiet /\ \E g \in Grant : Revokes(g)
         \/ \E i \in Intent : Quiet /\ Declines(i) /\ TakesKey(i)
         \/ \E i \in Intent : /\ Issues(i) /\ TakesKey(i)
                              /\ Appended("PERMIT_ISSUED", i)
         \/ \E i \in Intent : /\ Records(i)
                              /\ Appended("EXECUTION_RECORDED", i)
                              /\ UNCHANGED <<idempotency, revokedGrants>>
<1> USE DEF Safe
<1>1. CASE UNCHANGED vars
  <2>1. Quiet
    BY <1>1, NothingSettles DEF vars, stateVars, Quiet, Issued
  <2> QED
    BY <1>1, <2>1 DEF vars, stateVars, Mute
<1>2. ASSUME NEW t \in Instant, ClockStep(t) PROVE Quiet /\ Mute
  BY <1>2, NothingSettles DEF ClockStep, stateVars, Quiet, Issued, Mute
<1>3. ASSUME NEW t \in Instant, Governs(t)
      PROVE  Quiet /\ (Mute \/ Announces \/ \E g \in Grant : Revokes(g))
  <2>1. Quiet
    BY <1>3, QuietGoverns
  <2>2. CASE Activate(t)
    BY <2>1, <2>2 DEF Activate, Announces
  <2>3. ASSUME NEW g \in Grant, IssueGrant(g, t) PROVE Announces
    BY <2>3 DEF IssueGrant, Announces
  <2>4. ASSUME NEW g \in Grant, NEW stamp \in Stamp, RevokeGrant(g, stamp, t)
        PROVE  Revokes(g)
    BY <2>4 DEF RevokeGrant, Revokes
  <2>5. ASSUME NEW k \in Signer, RotateSigner(k, t) \/ RevokeKey(k, t) PROVE Mute
    BY <2>5 DEF RotateSigner, RevokeKey, Mute
  <2> QED
    BY <1>3, <2>1, <2>2, <2>3, <2>4, <2>5 DEF Governs
<1>4. ASSUME NEW t \in Instant, NEW i \in Intent, Evaluates(i, t)
      PROVE  \/ Quiet /\ Mute
             \/ Quiet /\ Declines(i) /\ TakesKey(i)
             \/ /\ Issues(i) /\ TakesKey(i)
                /\ Appended("PERMIT_ISSUED", i)
  <2>1. Quiet \/ (Issues(i) /\ IssuePermit(i, t))
    BY <1>4, KindOfEvaluation
  <2>2. ASSUME NEW finding \in Findings,
               ScreenOut(i, finding, t) \/ RefuseAtGate(i, finding, t)
        PROVE  Quiet /\ Declines(i) /\ TakesKey(i)
    <3>1. decisions'[i] # "ALLOW" /\ Fresh(i)
      BY <2>2 DEF ScreenOut, RefuseAtGate, Finishes, TypeOK
    <3>2. Declines(i) /\ TakesKey(i)
      BY <2>2 DEF ScreenOut, RefuseAtGate, Finishes, Fresh, TakesKey, Declines
    <3>3. ~IssuePermit(i, t)
      BY <3>1 DEF IssuePermit, Finishes, TypeOK
    <3> QED
      BY <2>1, <3>2, <3>3
  <2>3. CASE IssuePermit(i, t)
    <3>1. decisions'[i] = "ALLOW" /\ Fresh(i)
      BY <2>3 DEF IssuePermit, Finishes, TypeOK
    <3>2. ~Quiet
      BY <3>1, FreshHasNoVerdict DEF Quiet, Issued
    <3> QED
      BY <2>1, <2>3, <3>2 DEF IssuePermit, Finishes, Fresh, TakesKey
  <2>4. CASE ReplayRefusal(i, t)
    BY <2>4, NothingSettles DEF ReplayRefusal, stateVars, Mute, Quiet, Issued
  <2>5. ASSUME NEW u \in Instant, ReplayAllow(i, t, u) PROVE Quiet /\ Mute
    BY <2>5, ReplaySettles DEF ReplayAllow, Mute, Quiet, Issued
  <2> QED
    BY <1>4, <2>2, <2>3, <2>4, <2>5 DEF Evaluates
<1>5. ASSUME NEW t \in Instant, NEW i \in Intent, Executes(i, t)
      PROVE  \/ Quiet /\ Mute
             \/ /\ Records(i) /\ Appended("EXECUTION_RECORDED", i)
                /\ UNCHANGED <<idempotency, revokedGrants>>
  <2>1. PICK req \in Request : RecordExecution(i, req, t) \/ RefuseExecution(i, req, t)
    BY <1>5 DEF Executes
  <2>2. CASE RecordExecution(i, req, t)
    <3>1. ~permits[i].consumed /\ permits'[i].consumed
      BY <2>2 DEF RecordExecution, Consumed, TypeOK, PermitRecord
    <3>2. ~Quiet
      BY <3>1, SettlesKeeps DEF Quiet, TypeOK
    <3>3. Records(i)
      BY <1>5, <3>2, KindOfExecution
    <3> QED
      BY <2>2, <3>3 DEF RecordExecution
  <2>3. CASE RefuseExecution(i, req, t)
    BY <2>3, RefusalSettles DEF RefuseExecution, Quiet, Issued, Mute
  <2> QED
    BY <2>1, <2>2, <2>3
<1> QED
  BY <1>1, <1>2, <1>3, <1>4, <1>5 DEF Next

\* An event that is appended takes the position after the last one.
LEMMA Appends ==
  ASSUME TypeOK, NEW type, NEW subject, Appended(type, subject)
  PROVE  /\ DOMAIN events' = DOMAIN events \cup {Len(events) + 1}
         /\ Len(events) + 1 \notin DOMAIN events
         /\ \A n \in DOMAIN events : events'[n] = events[n]
         /\ events'[Len(events) + 1].type = type
         /\ events'[Len(events) + 1].subject = subject
<1> DEFINE event == [type |-> type, subject |-> subject]
<1>1. /\ Len(events) \in Nat /\ DOMAIN events = 1 .. Len(events)
      /\ DOMAIN events' = 1 .. Len(events) + 1
      /\ \A n \in DOMAIN events : events'[n] = events[n]
      /\ events'[Len(events) + 1] = event
  BY DEF TypeOK, Appended
<1>2. event.type = type /\ event.subject = subject
  OBVIOUS
<1> HIDE DEF event
<1> QED
  BY <1>1, <1>2

\* It is the one new position of its own type and subject.
LEMMA PositionsAfter ==
  ASSUME TypeOK, NEW type, NEW subject, Appended(type, subject), NEW kind, NEW about
  PROVE  Positions(kind, about)' =
           IF kind = type /\ about = subject
           THEN Positions(kind, about) \cup {Len(events) + 1}
           ELSE Positions(kind, about)
<1> DEFINE n == Len(events) + 1
<1>1. /\ n \notin DOMAIN events /\ DOMAIN events' = DOMAIN events \cup {n}
      /\ \A m \in DOMAIN events : events'[m] = events[m]
      /\ events'[n].type = type /\ events'[n].subject = subject
  BY Appends
<1> HIDE DEF n
<1> QED
  BY <1>1 DEF Positions, n

LEMMA PositionsType ==
  ASSUME TypeOK, NEW kind, NEW about
  PROVE  /\ IsFiniteSet(Positions(kind, about))
         /\ \A n \in Positions(kind, about) : n \in Nat /\ n < Len(events) + 1
         /\ Len(events) + 1 \notin Positions(kind, about)
<1>1. DOMAIN events = 1 .. Len(events) /\ Len(events) \in Nat
  BY DEF TypeOK
<1>2. IsFiniteSet(DOMAIN events) /\ Positions(kind, about) \subseteq DOMAIN events
  BY <1>1, FS_Interval DEF Positions
<1> QED
  BY <1>1, <1>2, FS_Subset

\* The key of every verdict on the chain is taken.
VerdictsTakeKeys ==
  \A n \in DOMAIN events :
    events[n].type \in Verdicts =>
      events[n].subject \in Intent /\ idempotency[KeyOf[events[n].subject]] # None

\* A key that is taken stays taken.
LEMMA TakenStays ==
  ASSUME TypeOK, NEW k \in Key, idempotency[k] # None,
         UNCHANGED idempotency \/ \E i \in Intent : TakesKey(i)
  PROVE  idempotency'[k] # None
BY IntentAssumption DEF TypeOK, TakesKey

LEMMA VerdictStep ==
  ASSUME Safe, VerdictsTakeKeys, OneVerdictPerKey, [Next]_vars
  PROVE  VerdictsTakeKeys' /\ OneVerdictPerKey'
<1> USE DEF Safe
<1>1. ASSUME UNCHANGED <<events, idempotency>>
      PROVE  VerdictsTakeKeys' /\ OneVerdictPerKey'
  BY <1>1 DEF VerdictsTakeKeys, OneVerdictPerKey
<1>2. ASSUME NEW type, type \notin Verdicts, NEW subject, Appended(type, subject),
             UNCHANGED idempotency
      PROVE  VerdictsTakeKeys' /\ OneVerdictPerKey'
  <2> DEFINE n == Len(events) + 1
  <2>1. /\ DOMAIN events' = DOMAIN events \cup {n}
        /\ \A m \in DOMAIN events : events'[m] = events[m]
        /\ events'[n].type = type
    BY <1>2, Appends
  <2> HIDE DEF n
  <2>2. VerdictsTakeKeys'
    BY <1>2, <2>1 DEF VerdictsTakeKeys
  <2>3. ASSUME NEW p \in DOMAIN events', NEW q \in DOMAIN events',
               {events'[p].type, events'[q].type} \subseteq Verdicts,
               KeyOf[events'[p].subject] = KeyOf[events'[q].subject]
        PROVE  p = q
    <3>1. p \in DOMAIN events /\ q \in DOMAIN events
      BY <1>2, <2>1, <2>3
    <3> QED
      BY <2>1, <2>3, <3>1 DEF OneVerdictPerKey, Verdicts
  <2> QED
    BY <2>2, <2>3 DEF OneVerdictPerKey, Verdicts
<1>3. ASSUME NEW i \in Intent, NEW type, Appended(type, i), TakesKey(i)
      PROVE  VerdictsTakeKeys' /\ OneVerdictPerKey'
  <2> DEFINE n == Len(events) + 1
  <2>1. /\ DOMAIN events' = DOMAIN events \cup {n} /\ n \notin DOMAIN events
        /\ \A m \in DOMAIN events : events'[m] = events[m]
        /\ events'[n].subject = i
    BY <1>3, Appends
  <2> HIDE DEF n
  <2>2. idempotency'[KeyOf[i]] # None /\ idempotency[KeyOf[i]] = None
    BY <1>3, IntentAssumption DEF TypeOK, TakesKey
  <2>3. VerdictsTakeKeys'
    <3> SUFFICES ASSUME NEW m \in DOMAIN events', events'[m].type \in Verdicts
                 PROVE  /\ events'[m].subject \in Intent
                        /\ idempotency'[KeyOf[events'[m].subject]] # None
      BY DEF VerdictsTakeKeys
    <3>1. CASE m = n
      BY <2>1, <2>2, <3>1
    <3>2. CASE m \in DOMAIN events
      <4>1. /\ events[m].subject \in Intent
            /\ idempotency[KeyOf[events[m].subject]] # None
        BY <2>1, <3>2 DEF VerdictsTakeKeys
      <4>2. KeyOf[events[m].subject] \in Key
        BY <4>1, IntentAssumption
      <4> QED
        BY <1>3, <2>1, <3>2, <4>1, <4>2, TakenStays
    <3> QED
      BY <2>1, <3>1, <3>2
  <2>4. ASSUME NEW p \in DOMAIN events', NEW q \in DOMAIN events',
               events'[p].type \in Verdicts, events'[q].type \in Verdicts,
               KeyOf[events'[p].subject] = KeyOf[events'[q].subject]
        PROVE  p = q
    <3>1. \A m \in DOMAIN events : events'[m].type \in Verdicts =>
            KeyOf[events'[m].subject] # KeyOf[i]
      BY <2>1, <2>2 DEF VerdictsTakeKeys
    <3>2. CASE p \in DOMAIN events /\ q \in DOMAIN events
      BY <2>1, <2>4, <3>2 DEF OneVerdictPerKey, Verdicts
    <3> QED
      BY <2>1, <2>4, <3>1, <3>2
  <2> QED
    BY <2>3, <2>4 DEF OneVerdictPerKey, Verdicts
<1> QED
  BY <1>1, <1>2, <1>3, StepTells
     DEF Mute, Announces, Revokes, Declines, Verdicts

\* However often a submission or its key comes back, the chain holds at most one
\* verdict event for the submissions that share a key.
THEOREM OneVerdict == Spec => []OneVerdictPerKey
<1>1. Init => VerdictsTakeKeys /\ OneVerdictPerKey
  BY DEF Init, VerdictsTakeKeys, OneVerdictPerKey
<1>2. Safe /\ VerdictsTakeKeys /\ OneVerdictPerKey /\ [Next]_vars =>
        VerdictsTakeKeys' /\ OneVerdictPerKey'
  BY VerdictStep
<1> QED
  BY <1>1, <1>2, Safety, PTL DEF Spec

\* Every permit issued is on the chain, and a grant not revoked is not there as
\* a revoked one.
IssuedTold == \A i \in Intent : Issued(i) => Positions("PERMIT_ISSUED", i) # {}
RevokedTold ==
  \A g \in Grant \ revokedGrants : Positions("AUTHORITY_REVOKED", g) = {}

\* Only a recorded execution consumes a permit.
LEMMA ConsumedAfter ==
  ASSUME Safe, Quiet \/ \E j \in Intent : Issues(j), NEW i \in Intent
  PROVE  permits'[i].consumed <=> permits[i].consumed
<1> USE DEF Safe
<1>1. CASE Quiet
  BY <1>1, SettlesKeeps DEF Quiet, TypeOK
<1>2. ASSUME NEW j \in Intent, Issues(j)
      PROVE  permits'[i].consumed <=> permits[i].consumed
  <2>1. PICK t \in Instant :
          permits' = [Purged(permits, t) EXCEPT ![j] = NewPermit(j, t)]
    BY <1>2 DEF Issues
  <2> DEFINE ps == Purged(permits, t)
  <2>2. Settles(permits, ps) /\ ps \in [Intent -> PermitRecord]
    BY PurgedSettles DEF TypeOK
  <2>3. CASE i = j
    <3>1. ~permits'[i].consumed
      BY <2>1, <2>2, <2>3, NewPermitType
    <3>2. ~permits[i].consumed
      BY <1>2, <2>3 DEF Issues, OneCause, Issued, None
    <3> QED
      BY <3>1, <3>2
  <2>4. CASE i # j
    <3>1. permits'[i] = ps[i]
      BY <2>1, <2>2, <2>4
    <3> HIDE DEF ps
    <3> QED
      BY <2>2, <3>1, SettlesKeeps DEF TypeOK
  <2> QED
    BY <2>3, <2>4
<1> QED
  BY <1>1, <1>2

LEMMA ToldStep ==
  ASSUME Safe, IssuedTold, RevokedTold, [Next]_vars
  PROVE  IssuedTold' /\ RevokedTold'
<1> USE DEF Safe
<1>1. IssuedTold'
  <2> SUFFICES ASSUME NEW i \in Intent, Issued(i)'
               PROVE  Positions("PERMIT_ISSUED", i)' # {}
    BY DEF IssuedTold
  <2>1. Positions("PERMIT_ISSUED", i) \subseteq Positions("PERMIT_ISSUED", i)'
    <3>1. ASSUME NEW type, NEW subject, Appended(type, subject)
          PROVE  Positions("PERMIT_ISSUED", i) \subseteq Positions("PERMIT_ISSUED", i)'
      BY <3>1, PositionsAfter
    <3>2. ASSUME UNCHANGED events
          PROVE  Positions("PERMIT_ISSUED", i)' = Positions("PERMIT_ISSUED", i)
      BY <3>2 DEF Positions
    <3> QED
      BY <3>1, <3>2, StepTells DEF Mute, Announces, Revokes, Declines
  <2>2. CASE Issued(i)
    BY <2>1, <2>2 DEF IssuedTold
  <2>3. CASE ~Issued(i)
    <3>1. ~Quiet /\ \A j \in Intent : ~Records(j)
      BY <2>3 DEF Quiet, Records, Issued
    <3>2. PICK j \in Intent : Issues(j) /\ Appended("PERMIT_ISSUED", j)
      BY <3>1, StepTells
    <3>3. j = i
      BY <2>3, <3>2 DEF Issues, Issued, TypeOK
    <3> QED
      BY <3>2, <3>3, PositionsAfter
  <2> QED
    BY <2>2, <2>3
<1>2. RevokedTold'
  <2> SUFFICES ASSUME NEW g \in Grant, g \notin revokedGrants'
               PROVE  Positions("AUTHORITY_REVOKED", g)' = {}
    BY DEF RevokedTold
  <2>1. ASSUME NEW type, NEW subject, Appended(type, subject),
               type # "AUTHORITY_REVOKED" \/ subject # g, g \notin revokedGrants
        PROVE  Positions("AUTHORITY_REVOKED", g)' = {}
    BY <2>1, PositionsAfter DEF RevokedTold
  <2>2. ASSUME UNCHANGED <<events, revokedGrants>>
        PROVE  Positions("AUTHORITY_REVOKED", g)' = {}
    BY <2>2 DEF Positions, RevokedTold
  <2> QED
    BY <2>1, <2>2, StepTells DEF Mute, Announces, Revokes, Declines, Issues
<1> QED
  BY <1>1, <1>2

\* A position of a sort of events stays, and a new one comes after all of them.
LEMMA ToldPositions ==
  ASSUME TypeOK, NEW type, NEW subject, Appended(type, subject), NEW kind, NEW about
  PROVE  /\ Positions(kind, about) \subseteq Positions(kind, about)'
         /\ \A n \in Positions(kind, about)' :
              n \in Positions(kind, about) \/ (n = Len(events) + 1 /\ kind = type)
BY PositionsAfter

LEMMA ChainStep ==
  ASSUME Safe, IssuedTold, RevokedTold, ChainTellsExecutions, [Next]_vars
  PROVE  ChainTellsExecutions'
<1> USE DEF Safe
<1> SUFFICES ASSUME NEW i \in Intent
             PROVE  /\ Cardinality(Positions("EXECUTION_RECORDED", i)')
                         = IF permits'[i].consumed THEN 1 ELSE 0
                    /\ \A n \in Positions("EXECUTION_RECORDED", i)' :
                         /\ \E m \in Positions("PERMIT_ISSUED", i)' : m < n
                         /\ \A m \in Positions("AUTHORITY_REVOKED", GrantOf[i])' : n < m
  BY DEF ChainTellsExecutions
<1> DEFINE recorded == Positions("EXECUTION_RECORDED", i)
           issued   == Positions("PERMIT_ISSUED", i)
           revoked  == Positions("AUTHORITY_REVOKED", GrantOf[i])
           new      == Len(events) + 1
<1>1. /\ Cardinality(recorded) = IF permits[i].consumed THEN 1 ELSE 0
      /\ \A n \in recorded : /\ \E m \in issued : m < n
                             /\ \A m \in revoked : n < m
  BY DEF ChainTellsExecutions
<1>2. /\ IsFiniteSet(recorded) /\ new \notin recorded
      /\ \A n \in recorded : n < new
      /\ \A n \in issued : n < new
  BY PositionsType
<1>3. ASSUME UNCHANGED events, permits'[i].consumed <=> permits[i].consumed
      PROVE  /\ Cardinality(recorded') = IF permits'[i].consumed THEN 1 ELSE 0
             /\ \A n \in recorded' : /\ \E m \in issued' : m < n
                                     /\ \A m \in revoked' : n < m
  <2>1. recorded' = recorded /\ issued' = issued /\ revoked' = revoked
    BY <1>3 DEF Positions
  <2> HIDE DEF recorded, issued, revoked
  <2> QED
    BY <1>1, <1>3, <2>1
<1>4. ASSUME NEW type, NEW subject, Appended(type, subject),
             type # "EXECUTION_RECORDED" \/ subject # i,
             permits'[i].consumed <=> permits[i].consumed
      PROVE  /\ Cardinality(recorded') = IF permits'[i].consumed THEN 1 ELSE 0
             /\ \A n \in recorded' : /\ \E m \in issued' : m < n
                                     /\ \A m \in revoked' : n < m
  <2>1. recorded' = recorded
    BY <1>4, PositionsAfter
  <2>2. issued \subseteq issued' /\ \A m \in revoked' : m \in revoked \/ m = new
    BY <1>4, ToldPositions
  <2> HIDE DEF recorded, issued, revoked, new
  <2> QED
    BY <1>1, <1>2, <1>4, <2>1, <2>2
<1>5. ASSUME Records(i), Appended("EXECUTION_RECORDED", i)
      PROVE  /\ Cardinality(recorded') = IF permits'[i].consumed THEN 1 ELSE 0
             /\ \A n \in recorded' : /\ \E m \in issued' : m < n
                                     /\ \A m \in revoked' : n < m
  <2>1. recorded' = recorded \cup {new} /\ issued' = issued /\ revoked' = revoked
    BY <1>5, PositionsAfter
  <2>2. revoked = {}
    <3>1. GrantOf[i] \in Grant \ revokedGrants
      BY <1>5, IntentAssumption DEF Records, RevocationReleases
    <3> QED
      BY <3>1 DEF RevokedTold
  <2>3. issued # {}
    BY <1>5 DEF Records, IssuedTold
  <2>4. permits'[i].consumed /\ ~permits[i].consumed
    BY <1>5 DEF Records, Held, Consumed, TypeOK, PermitRecord
  <2> HIDE DEF recorded, issued, revoked, new
  <2>5. recorded = {}
    BY <1>1, <1>2, <2>4, FS_EmptySet
  <2>6. Cardinality(recorded') = 1
    BY <2>1, <2>5, FS_Singleton
  <2> QED
    BY <1>2, <2>1, <2>2, <2>3, <2>4, <2>5, <2>6
<1>6. ASSUME NEW j \in Intent, j # i, Records(j)
      PROVE  permits'[i].consumed <=> permits[i].consumed
  BY <1>6 DEF Records, TypeOK
<1> HIDE DEF recorded, issued, revoked, new
<1> QED
  <2>1. CASE Quiet /\ Mute
    BY <1>3, <2>1, ConsumedAfter DEF Mute, recorded, issued, revoked
  <2>2. CASE Quiet /\ Announces
    BY <1>4, <2>2, ConsumedAfter DEF Announces, recorded, issued, revoked
  <2>3. CASE Quiet /\ \E g \in Grant : Revokes(g)
    BY <1>4, <2>3, ConsumedAfter DEF Revokes, recorded, issued, revoked
  <2>4. CASE \E j \in Intent : Quiet /\ Declines(j)
    BY <1>4, <2>4, ConsumedAfter DEF Declines, recorded, issued, revoked
  <2>5. CASE \E j \in Intent : Issues(j) /\ Appended("PERMIT_ISSUED", j)
    BY <1>4, <2>5, ConsumedAfter DEF recorded, issued, revoked
  <2>6. CASE \E j \in Intent : Records(j) /\ Appended("EXECUTION_RECORDED", j)
    BY <1>4, <1>5, <1>6, <2>6 DEF recorded, issued, revoked
  <2> QED
    BY <2>1, <2>2, <2>3, <2>4, <2>5, <2>6, StepTells

\* A permit is consumed exactly when one EXECUTION_RECORDED names it, after its
\* PERMIT_ISSUED and never after the revocation of its grant.
THEOREM ChainTells == Spec => []ChainTellsExecutions
<1>1. Init => IssuedTold /\ RevokedTold /\ ChainTellsExecutions
  <2> SUFFICES ASSUME Init PROVE IssuedTold /\ RevokedTold /\ ChainTellsExecutions
    OBVIOUS
  <2>1. \A kind, about : Positions(kind, about) = {}
    BY DEF Init, Positions
  <2>2. \A i \in Intent : ~Issued(i) /\ ~permits[i].consumed
    BY DEF Init, Issued, None, NoPermit
  <2> QED
    BY <2>1, <2>2, FS_EmptySet DEF IssuedTold, RevokedTold, ChainTellsExecutions
<1>2. Safe /\ IssuedTold /\ RevokedTold /\ [Next]_vars => IssuedTold' /\ RevokedTold'
  BY ToldStep
<1>3. Safe /\ IssuedTold /\ RevokedTold /\ ChainTellsExecutions /\ [Next]_vars =>
        ChainTellsExecutions'
  BY ChainStep
<1> QED
  BY <1>1, <1>2, <1>3, Safety, PTL DEF Spec

-----------------------------------------------------------------------------
(* The answers to those who ask again *)

\* A permit that was never issued has no story.
Unissued ==
  \A i \in Intent : ~Issued(i) => /\ ~permits[i].consumed
                                  /\ permits[i].reason # "PERMIT_EXPIRED"

LEMMA UnissuedStep ==
  ASSUME Safe, Safe', Unissued, [Next]_vars
  PROVE  Unissued'
<1> USE DEF Safe
<1> SUFFICES ASSUME NEW i \in Intent, ~Issued(i)'
             PROVE  ~permits'[i].consumed /\ permits'[i].reason # "PERMIT_EXPIRED"
  BY DEF Unissued
<1>1. ~Issued(i)
  BY IssuedStays
<1>2. i \notin Held(permits)
  BY <1>1 DEF Held, OneCause
<1>3. permits'[i] = permits[i]
  <2>1. CASE Quiet
    BY <1>2, <2>1 DEF Quiet, Settles
  <2>2. ASSUME NEW j \in Intent, Issues(j) PROVE permits'[i] = permits[i]
    <3>1. j # i
      BY <2>2 DEF Issues, Issued, TypeOK
    <3>2. PICK t \in Instant :
            permits' = [Purged(permits, t) EXCEPT ![j] = NewPermit(j, t)]
      BY <2>2 DEF Issues
    <3>3. /\ Settles(permits, Purged(permits, t))
          /\ Purged(permits, t) \in [Intent -> PermitRecord]
      BY PurgedSettles DEF TypeOK
    <3> QED
      BY <1>2, <3>1, <3>2, <3>3 DEF Settles
  <2>3. ASSUME NEW j \in Intent, Records(j) PROVE permits'[i] = permits[i]
    BY <1>1, <2>3 DEF Records, TypeOK
  <2> QED
    BY <2>1, <2>2, <2>3, StepKinds
<1> QED
  BY <1>1, <1>3 DEF Unissued

\* The answer is about i, which is not issued, and is no ALLOW.
Declined(i) ==
  reply'.intent = i /\ reply'.disposition # "ALLOW" /\ ~Issued(i)'

\* A step says nothing, refuses or decides for the first time, repeats what was
\* recorded, or answers for the permit it issued.
LEMMA StepReplies ==
  ASSUME Safe, [Next]_vars, reply'.disposition # None
  PROVE  \/ UNCHANGED vars
         \/ \E i \in Intent, t \in Instant :
              \/ Declined(i)
              \/ IssuePermit(i, t) /\ reply' = Answer(i, "ALLOW")
              \/ \E u \in Instant :
                   /\ ReplayAllow(i, t, u) /\ reply'.intent = i
<1> USE DEF Safe
<1>1. Silence.disposition = None
  BY DEF Silence, Answer
<1>2. ASSUME NEW t \in Instant, ClockStep(t) PROVE FALSE
  BY <1>1, <1>2 DEF ClockStep
<1>3. ASSUME NEW t \in Instant, Governs(t) PROVE FALSE
  BY <1>1, <1>3 DEF Governs, Activate, IssueGrant, RevokeGrant, RotateSigner, RevokeKey
<1>4. ASSUME NEW t \in Instant, NEW i \in Intent, Executes(i, t) PROVE FALSE
  BY <1>1, <1>4 DEF Executes, RecordExecution, RefuseExecution
<1>5. ASSUME NEW t \in Instant, NEW i \in Intent, Evaluates(i, t)
      PROVE  \/ Declined(i)
             \/ IssuePermit(i, t) /\ reply' = Answer(i, "ALLOW")
             \/ \E u \in Instant : ReplayAllow(i, t, u) /\ reply'.intent = i
  <2>1. ASSUME NEW finding \in Findings,
               ScreenOut(i, finding, t) \/ RefuseAtGate(i, finding, t)
        PROVE  Declined(i)
    BY <2>1 DEF ScreenOut, RefuseAtGate, Finishes, Answer, Issued, TypeOK, Declined
  <2>2. CASE IssuePermit(i, t)
    BY <2>2 DEF IssuePermit, Finishes
  <2>3. CASE ReplayRefusal(i, t)
    BY <2>3 DEF ReplayRefusal, Answer, Issued, stateVars, Declined
  <2>4. ASSUME NEW u \in Instant, ReplayAllow(i, t, u) PROVE reply'.intent = i
    <3>1. reply' = Silence \/ \E verdict : reply' = Answer(i, verdict)
      BY <2>4 DEF ReplayAllow
    <3> QED
      BY <1>1, <3>1 DEF Answer
  <2> QED
    BY <1>5, <2>1, <2>2, <2>3, <2>4 DEF Evaluates
<1> QED
  BY <1>2, <1>3, <1>4, <1>5 DEF Next

\* What a replay of an issued permit answers, and what it leaves of the permit.
LEMMA ReplayAnswers ==
  ASSUME TypeOK, NEW i \in Intent, NEW t \in Instant, NEW u \in Instant,
         ReplayAllow(i, t, u)
  PROVE  \E ps \in {permits, Purged(permits, t)} :
           /\ ps = Purged(permits, t) \/ permits[i].key \in revokedKeys
           /\ ps \in [Intent -> PermitRecord] /\ Settles(permits, ps)
           /\ reply'.disposition # None => reply'.disposition = ReplayVerdict(i, ps, u)
           /\ \/ permits' = ps
              \/ /\ GrantFault(GrantOf[i], u) # None
                 /\ permits' = [ps EXCEPT ![i] =
                                  Invalidated(ps[i], GrantFault(GrantOf[i], u))]
<1> DEFINE ps == IF permits[i].key \in revokedKeys THEN permits
                 ELSE Purged(permits, t)
<1>1. ps \in [Intent -> PermitRecord] /\ Settles(permits, ps)
  BY PurgedSettles DEF TypeOK, Settles
<1>2. \/ permits' = ps
      \/ /\ GrantFault(GrantOf[i], u) # None
         /\ permits' = [ps EXCEPT ![i] =
                          Invalidated(ps[i], GrantFault(GrantOf[i], u))]
  BY DEF ReplayAllow
<1>3. reply' = Silence \/ reply' = Answer(i, ReplayVerdict(i, ps, u))
  BY DEF ReplayAllow
<1>4. reply'.disposition # None => reply'.disposition = ReplayVerdict(i, ps, u)
  BY <1>3 DEF Silence, Answer
<1>5. ps \in {permits, Purged(permits, t)}
  OBVIOUS
<1>6. permits[i].key \notin revokedKeys => ps = Purged(permits, t)
  OBVIOUS
<1> HIDE DEF ps
<1> QED
  BY <1>1, <1>2, <1>4, <1>5, <1>6

LEMMA LifecycleStep ==
  ASSUME Safe, Unissued, Unissued', ReplayTellsLifecycle, [Next]_vars
  PROVE  ReplayTellsLifecycle'
<1> USE DEF Safe
<1> SUFFICES ASSUME reply'.disposition = "REFUSAL"
             PROVE  /\ ~permits'[reply'.intent].consumed
                    /\ permits'[reply'.intent].reason # "PERMIT_EXPIRED"
  BY DEF ReplayTellsLifecycle
<1>1. CASE UNCHANGED vars
  BY <1>1 DEF vars, stateVars, ReplayTellsLifecycle
<1>2. ASSUME NEW i \in Intent, Declined(i)
      PROVE  /\ ~permits'[reply'.intent].consumed
             /\ permits'[reply'.intent].reason # "PERMIT_EXPIRED"
  BY <1>2 DEF Unissued, Declined
<1>3. ASSUME NEW i \in Intent, reply' = Answer(i, "ALLOW") PROVE FALSE
  BY <1>3 DEF Answer
<1>4. ASSUME NEW i \in Intent, NEW t \in Instant, NEW u \in Instant,
             ReplayAllow(i, t, u)
      PROVE  ~permits'[i].consumed /\ permits'[i].reason # "PERMIT_EXPIRED"
  <2>1. PICK ps \in {permits, Purged(permits, t)} :
          /\ ps \in [Intent -> PermitRecord]
          /\ reply'.disposition # None => reply'.disposition = ReplayVerdict(i, ps, u)
          /\ \/ permits' = ps
             \/ /\ GrantFault(GrantOf[i], u) # None
                /\ permits' = [ps EXCEPT ![i] =
                                 Invalidated(ps[i], GrantFault(GrantOf[i], u))]
    BY <1>4, ReplayAnswers
  <2>2. ReplayVerdict(i, ps, u) = "REFUSAL"
    BY <2>1 DEF None
  <2>3. ~ps[i].consumed /\ ps[i].reason # "PERMIT_EXPIRED"
    BY <2>2 DEF ReplayVerdict
  <2>4. GrantFault(GrantOf[i], u) # None =>
          /\ GrantFault(GrantOf[i], u) \in Reasons
          /\ GrantFault(GrantOf[i], u) # "PERMIT_EXPIRED"
    BY GrantFaultType DEF Reasons, AuthorityFaults
  <2> QED
    BY <2>1, <2>3, <2>4, InvalidatedFields
<1>5. reply'.disposition # None
  BY DEF None
<1> QED
  BY <1>1, <1>2, <1>3, <1>4, <1>5, StepReplies

\* A consumed or an expired permit is never answered again as a refusal, which
\* would invite the operator to submit a committed action once more.
THEOREM Lifecycle == Spec => []ReplayTellsLifecycle
<1>1. Init => Unissued /\ ReplayTellsLifecycle
  BY DEF Init, Unissued, ReplayTellsLifecycle, NoPermit, Silence, Answer, None
<1>2. Safe /\ Safe' /\ Unissued /\ [Next]_vars => Unissued'
  BY UnissuedStep
<1>3. Safe /\ Unissued /\ Unissued' /\ ReplayTellsLifecycle /\ [Next]_vars =>
        ReplayTellsLifecycle'
  BY LifecycleStep
<1> QED
  BY <1>1, <1>2, <1>3, Safety, PTL DEF Spec

-----------------------------------------------------------------------------
(* A clock that is not set back *)

LEMMA TimePasses ==
  ASSUME TypeOK, ~MayStepBack, [Next]_vars
  PROVE  now \in Int /\ now' \in Int /\ now <= now'
<1>1. now \in Int /\ \A t \in Instant : t \in Int
  BY EnvironmentAssumption DEF TypeOK
<1>2. ASSUME NEW t \in Instant, EndsAt(t) PROVE now' \in Int /\ now <= now'
  BY <1>1, <1>2 DEF EndsAt, Follows
<1>3. ASSUME NEW i \in Intent, NEW t \in Instant, NEW u \in Instant,
             ReplayAllow(i, t, u)
      PROVE  now' \in Int /\ now <= now'
  <2>1. now <= t /\ t <= u /\ now' = u
    BY <1>3 DEF ReplayAllow, Follows
  <2> QED
    BY <1>1, <2>1
<1>4. ASSUME NEW t \in Instant, Governs(t) PROVE EndsAt(t)
  BY <1>4 DEF Governs, Activate, IssueGrant, RevokeGrant, RotateSigner, RevokeKey
<1>5. ASSUME NEW t \in Instant, NEW i \in Intent, Evaluates(i, t)
      PROVE  EndsAt(t) \/ \E u \in Instant : ReplayAllow(i, t, u)
  BY <1>5 DEF Evaluates, ScreenOut, RefuseAtGate, IssuePermit, ReplayRefusal
<1>6. ASSUME NEW t \in Instant, NEW i \in Intent, Executes(i, t) PROVE EndsAt(t)
  BY <1>6 DEF Executes, RecordExecution, RefuseExecution
<1>7. ASSUME NEW t \in Instant, ClockStep(t) PROVE EndsAt(t)
  BY <1>7 DEF ClockStep
<1>8. CASE UNCHANGED vars
  BY <1>1, <1>8 DEF vars
<1>9. CASE Next
  <2>1. \/ \E t \in Instant : EndsAt(t)
        \/ \E i \in Intent, t \in Instant, u \in Instant : ReplayAllow(i, t, u)
    BY <1>4, <1>5, <1>6, <1>7, <1>9 DEF Next
  <2> QED
    BY <1>1, <1>2, <1>3, <2>1
<1> QED
  BY <1>1, <1>8, <1>9

\* The declaration was held against an earlier reading than the debit's own.
Begun == \A k \in DOMAIN committed : EffectiveFrom <= committed[k].at

LEMMA BegunStep ==
  ASSUME Safe, ~MayStepBack, Begun, [Next]_vars
  PROVE  Begun'
<1>1. ASSUME NEW i \in Intent, NEW t \in Instant, NEW req \in Request, RecordExecution(i, req, t)
      PROVE  Begun'
  <2>1. EffectiveFrom <= now
    BY <1>1 DEF RecordExecution, CommitVerdict, Active, InForce, None
  <2>2. now <= t
    BY <1>1 DEF RecordExecution, EndsAt, Follows
  <2>3. now \in Int /\ t \in Int /\ EffectiveFrom \in Int
    BY EnvironmentAssumption, DeclarationAssumption DEF Safe, TypeOK
  <2>4. EffectiveFrom <= t
    BY <2>1, <2>2, <2>3
  <2>5. \/ UNCHANGED committed
        \/ committed' = Append(committed, [intent |-> i, at |-> t])
    BY <1>1 DEF RecordExecution
  <2> QED
    BY <2>4, <2>5 DEF Begun, Safe, TypeOK
<1>2. CASE UNCHANGED committed
  BY <1>2 DEF Begun
<1>3. \/ UNCHANGED committed
      \/ \E i \in Intent, t \in Instant, req \in Request : RecordExecution(i, req, t)
  BY StepActions DEF Safe, Quiet, Issues
<1> QED
  BY <1>1, <1>2, <1>3

\* With a clock that is not set back, every debit was made while its permit, its grant
\* and the declaration were in force, though the declaration is held against one reading
\* of it and the permit and the grant against a later one.
THEOREM Authority ==
  ASSUME ~MayStepBack
  PROVE  Spec => []DebitsUnderAuthority
<1>1. Init => Begun
  BY DEF Init, Begun
<1>2. Safe /\ Begun /\ [Next]_vars => Begun'
  BY BegunStep
<1>3. DebitsInTime /\ Begun => DebitsUnderAuthority
  BY DEF DebitsInTime, Authorised, Begun, DebitsUnderAuthority, InForce
<1> QED
  BY <1>1, <1>2, <1>3, InTime, Safety, PTL DEF Spec

\* The debits that the window counts at t.
Counted(r, t) == {k \in DOMAIN committed : t - committed[k].at <= Window[r]}

LEMMA CountedType ==
  ASSUME TypeOK, NEW r \in Resource, NEW t
  PROVE  /\ CommittedInWindow(r, t) = SumOver(Counted(r, t), Takes(r))
         /\ IsFiniteSet(Counted(r, t)) /\ \A k \in Counted(r, t) : Takes(r)[k] \in Nat
         /\ CommittedInWindow(r, t) \in Nat
<1>1. IsFiniteSet(Counted(r, t)) /\ \A k \in Counted(r, t) : Takes(r)[k] \in Nat
  BY TakesType, FS_Subset DEF Counted
<1>2. CommittedInWindow(r, t) = SumOver(Counted(r, t), Takes(r))
  BY DEF CommittedInWindow, Counted, Takes
<1> QED
  BY <1>1, <1>2, SumType

\* As time passes, debits leave the window and none comes back.
LEMMA WindowSlides ==
  ASSUME TypeOK, NEW r \in Resource, NEW t \in Int, NEW u \in Int, t <= u
  PROVE  CommittedInWindow(r, u) <= CommittedInWindow(r, t)
<1>1. Counted(r, u) \subseteq Counted(r, t)
  <2> SUFFICES ASSUME NEW k \in DOMAIN committed, u - committed[k].at <= Window[r]
               PROVE  t - committed[k].at <= Window[r]
    BY DEF Counted
  <2>1. committed[k].at \in Int /\ Window[r] \in Int
    BY TakesType, DeclarationAssumption DEF Debit
  <2> QED
    BY <2>1
<1> QED
  BY <1>1, CountedType, SumSubset

LEMMA ReservedType ==
  ASSUME NEW r \in Resource, NEW ps
  PROVE  /\ IsFiniteSet(Held(ps)) /\ \A i \in Intent : Claim[r][i] \in Nat
         /\ ResourceReserved(ps, r) \in Nat
<1>1. IsFiniteSet(Held(ps)) /\ Held(ps) \subseteq Intent
  BY IntentAssumption, FS_Subset DEF Held
<1>2. \A i \in Intent : Claim[r][i] \in Nat
  BY IntentAssumption
<1> QED
  BY <1>1, <1>2, SumType DEF ResourceReserved

LEMMA ReservedShrinks ==
  ASSUME NEW r \in Resource, NEW ps, NEW qs, Held(qs) \subseteq Held(ps)
  PROVE  ResourceReserved(qs, r) <= ResourceReserved(ps, r)
<1>1. IsFiniteSet(Held(ps)) /\ \A i \in Held(ps) : Claim[r][i] \in Nat
  BY ReservedType DEF Held
<1> QED
  BY <1>1, SumSubset DEF ResourceReserved

LEMMA ReservedAdds ==
  ASSUME NEW r \in Reserving, NEW ps, NEW qs, NEW i \in Intent, i \notin Held(ps),
         Held(qs) = Held(ps) \cup {i}
  PROVE  ResourceReserved(qs, r) = ResourceReserved(ps, r) + Claim[r][i]
<1>1. r \in Resource
  BY DeclarationAssumption
<1>2. /\ IsFiniteSet(Held(ps)) /\ \A j \in Held(ps) : Claim[r][j] \in Nat
      /\ Claim[r][i] \in Nat
  BY <1>1, ReservedType DEF Held
<1> QED
  BY <1>2, SumAdd DEF ResourceReserved

\* A debit is counted at its own instant.
LEMMA WindowCharged ==
  ASSUME TypeOK, TypeOK', NEW r \in Resource, NEW i \in Intent, NEW t \in Instant,
         committed' = Append(committed, [intent |-> i, at |-> t])
  PROVE  CommittedInWindow(r, t)' = CommittedInWindow(r, t) + Claim[r][i]
<1> DEFINE n == Len(committed) + 1
           debit == [intent |-> i, at |-> t]
<1>1. /\ n \in Nat \ {0} /\ DOMAIN committed = 1 .. n - 1
      /\ DOMAIN committed' = 1 .. n /\ committed'[n] = debit
      /\ \A k \in 1 .. n - 1 : committed'[k] = committed[k]
  BY DEF TypeOK
<1>2. debit.intent = i /\ debit.at = t
  OBVIOUS
<1> HIDE DEF n, debit
<1>3. 1 .. n = (1 .. n - 1) \cup {n} /\ n \notin 1 .. n - 1
  BY <1>1
<1>4. t - t <= Window[r]
  BY EnvironmentAssumption, DeclarationAssumption
<1>5. Counted(r, t)' = Counted(r, t) \cup {n} /\ n \notin Counted(r, t)
  BY <1>1, <1>2, <1>3, <1>4 DEF Counted
<1>6. /\ \A k \in Counted(r, t) : Takes(r)'[k] = Takes(r)[k]
      /\ Takes(r)'[n] = Claim[r][i] /\ Claim[r][i] \in Nat
  BY <1>1, <1>2, <1>3, IntentAssumption DEF Takes, Counted
<1>7. CommittedInWindow(r, t)' = SumOver(Counted(r, t)', Takes(r)')
  BY DEF CommittedInWindow, Counted, Takes
<1>8. /\ IsFiniteSet(Counted(r, t)) /\ \A k \in Counted(r, t) : Takes(r)'[k] \in Nat
      /\ CommittedInWindow(r, t) = SumOver(Counted(r, t), Takes(r))
  BY <1>6, CountedType
<1>9. SumOver(Counted(r, t) \cup {n}, Takes(r)')
        = SumOver(Counted(r, t), Takes(r)') + Takes(r)'[n]
  BY <1>5, <1>6, <1>8, SumAdd
<1> QED
  BY <1>5, <1>6, <1>7, <1>8, <1>9, SumSameWeights

LEMMA PromiseStep ==
  ASSUME Safe, Safe', ~MayStepBack, ReservationIsAPromise, [Next]_vars
  PROVE  ReservationIsAPromise'
<1> USE DEF Safe
<1> SUFFICES ASSUME NEW r \in Reserving
             PROVE  CommittedInWindow(r, now)' + ResourceReserved(permits, r)' <= Limit[r]
  BY DEF ReservationIsAPromise
<1>1. r \in Resource /\ Limit[r] \in Nat
  BY DeclarationAssumption
<1>2. CommittedInWindow(r, now) + ResourceReserved(permits, r) <= Limit[r]
  BY DEF ReservationIsAPromise
<1>3. /\ CommittedInWindow(r, now) \in Nat /\ CommittedInWindow(r, now') \in Nat
      /\ CommittedInWindow(r, now') <= CommittedInWindow(r, now)
  BY <1>1, CountedType, TimePasses, WindowSlides
<1>4. ResourceReserved(permits, r) \in Nat /\ ResourceReserved(permits', r) \in Nat
  BY <1>1, ReservedType
<1>5. ResourceReserved(permits, r)' = ResourceReserved(permits', r)
  BY DEF ResourceReserved, Held
<1>6. ASSUME UNCHANGED committed
      PROVE  CommittedInWindow(r, now)' = CommittedInWindow(r, now')
  BY <1>6 DEF CommittedInWindow
<1>7. CASE Quiet
  <2>1. Held(permits') \subseteq Held(permits)
    BY <1>7, SettlesHeld DEF Quiet, TypeOK
  <2>2. ResourceReserved(permits', r) <= ResourceReserved(permits, r)
    BY <1>1, <2>1, ReservedShrinks
  <2> QED
    BY <1>1, <1>2, <1>3, <1>4, <1>5, <1>6, <1>7, <2>2 DEF Quiet
<1>8. ASSUME NEW i \in Intent, NEW t \in Instant, Issues(i), IssuePermit(i, t)
      PROVE  CommittedInWindow(r, now)' + ResourceReserved(permits, r)' <= Limit[r]
  <2> DEFINE ps == Purged(permits, t)
  <2>1. ps \in [Intent -> PermitRecord] /\ Settles(permits, ps)
    BY PurgedSettles DEF TypeOK
  <2>2. /\ permits' = [ps EXCEPT ![i] = NewPermit(i, t)]
        /\ now' = t /\ UNCHANGED committed /\ WindowGate(i, ps, t)
    BY <1>8 DEF IssuePermit, EndsAt, Issues, Gate, None
  <2> HIDE DEF ps
  <2>3. Held(ps) \subseteq Held(permits)
    BY <2>1, SettlesHeld DEF TypeOK
  <2>4. i \notin Held(permits)
    BY <1>8 DEF Issues, Held, OneCause, Issued, None
  <2>5. Held(permits') = Held(ps) \cup {i}
    BY <2>1, <2>2, NewPermitType DEF Held
  <2>6. ResourceReserved(permits', r) = ResourceReserved(ps, r) + Claim[r][i]
    BY <2>3, <2>4, <2>5, ReservedAdds
  <2>7. ResourceReserved(ps, r) \in Nat /\ Claim[r][i] \in Nat
        /\ ResourceReserved(ps, r) <= ResourceReserved(permits, r)
    BY <1>1, <2>3, ReservedType, ReservedShrinks
  <2>8. CASE r \in Needs[i]
    <3>1. CommittedInWindow(r, now') + ResourceReserved(ps, r) + Claim[r][i] <= Limit[r]
      BY <2>2, <2>8 DEF WindowGate
    <3> QED
      BY <1>1, <1>3, <1>5, <1>6, <2>2, <2>6, <2>7, <3>1
  <2>9. CASE r \notin Needs[i]
    <3>1. Claim[r][i] = 0
      BY <1>1, <2>9, IntentAssumption
    <3> QED
      BY <1>1, <1>2, <1>3, <1>4, <1>5, <1>6, <2>2, <2>6, <2>7, <3>1
  <2> QED
    BY <2>8, <2>9
<1>9. ASSUME NEW i \in Intent, NEW t \in Instant, NEW req \in Request, Records(i),
             RecordExecution(i, req, t)
      PROVE  CommittedInWindow(r, now)' + ResourceReserved(permits, r)' <= Limit[r]
  <2>1. /\ permits' = [permits EXCEPT ![i] = Consumed(permits[i])]
        /\ now' = t /\ i \in Held(permits)
    BY <1>9 DEF RecordExecution, EndsAt, Records
  <2>2. Held(permits) = Held(permits') \cup {i} /\ i \notin Held(permits')
    BY <2>1 DEF Held, Consumed, TypeOK, PermitRecord
  <2>3. ResourceReserved(permits, r) = ResourceReserved(permits', r) + Claim[r][i]
    BY <2>2, ReservedAdds
  <2>4. Claim[r][i] \in Nat
    BY <1>1, ReservedType
  <2>5. \/ CommittedInWindow(r, now)' = CommittedInWindow(r, now')
        \/ CommittedInWindow(r, now)' = CommittedInWindow(r, now') + Claim[r][i]
    <3>1. CASE Debits(req)
      <4>1. CommittedInWindow(r, t)' = CommittedInWindow(r, t) + Claim[r][i]
        BY <1>1, <1>9, <3>1, WindowCharged DEF RecordExecution
      <4>2. CommittedInWindow(r, now)' = CommittedInWindow(r, t)'
        BY <2>1 DEF CommittedInWindow
      <4> QED
        BY <2>1, <4>1, <4>2
    <3>2. CASE ~Debits(req)
      BY <1>6, <1>9, <3>2 DEF RecordExecution
    <3> QED
      BY <3>1, <3>2
  <2> QED
    BY <1>1, <1>2, <1>3, <1>4, <1>5, <2>3, <2>4, <2>5
<1> QED
  BY <1>7, <1>8, <1>9, StepActions

\* A reservation is a promise: under a clock that is not set back the live claims
\* of a reserving resource fit on top of what its window holds, so a commit
\* under them is never refused for the window.
THEOREM Promise ==
  ASSUME ~MayStepBack
  PROVE  Spec => []ReservationIsAPromise
<1>1. Init => ReservationIsAPromise
  <2> SUFFICES ASSUME Init, NEW r \in Reserving
               PROVE  CommittedInWindow(r, now) + ResourceReserved(permits, r) <= Limit[r]
    BY DEF ReservationIsAPromise
  <2>1. Held(permits) = {} /\ DOMAIN committed = {}
    BY DEF Init, Held, NoPermit
  <2>2. CommittedInWindow(r, now) = 0
    <3>1. {k \in DOMAIN committed : now - committed[k].at <= Window[r]} = {}
      BY <2>1
    <3> QED
      BY <3>1, SumEmpty DEF CommittedInWindow
  <2>3. ResourceReserved(permits, r) = 0
    BY <2>1, SumEmpty DEF ResourceReserved
  <2>4. Limit[r] \in Nat
    BY DeclarationAssumption
  <2> QED
    BY <2>2, <2>3, <2>4
<1>2. Safe /\ Safe' /\ ReservationIsAPromise /\ [Next]_vars => ReservationIsAPromise'
  BY PromiseStep
<1> QED
  BY <1>1, <1>2, Safety, PTL DEF Spec

\* What an ALLOW may be relied on for.
Usable(i) ==
  /\ i \in Held(permits')
  /\ permits'[i].key \in verifiers'
  /\ GrantOf[i] \in grants' \ revokedGrants'
  /\ now < permits'[i].expiresAt
  /\ ValidFrom[GrantOf[i]] <= now' /\ now' < ValidUntil[GrantOf[i]]

LEMMA NoFaultMeans ==
  ASSUME NEW i \in Intent, NEW t \in Instant, GrantFault(GrantOf[i], t) = None
  PROVE  /\ GrantOf[i] \in grants \ revokedGrants
         /\ ValidFrom[GrantOf[i]] <= t /\ t < ValidUntil[GrantOf[i]]
<1>1. /\ GrantOf[i] \in grants \ revokedGrants
      /\ ~(t < ValidFrom[GrantOf[i]]) /\ ~(t >= ValidUntil[GrantOf[i]])
  BY DEF GrantFault, None
<1>2. t \in Int /\ ValidFrom[GrantOf[i]] \in Int /\ ValidUntil[GrantOf[i]] \in Int
  BY IntentAssumption, DeclarationAssumption, EnvironmentAssumption
<1> QED
  BY <1>1, <1>2

\* A new permit is in force when the call came in.
LEMMA IssueUsable ==
  ASSUME Safe, ~MayStepBack, NEW i \in Intent, NEW t \in Instant, IssuePermit(i, t)
  PROVE  Usable(i)
<1> USE DEF Safe
<1>1. /\ now' = t /\ now <= t /\ now < ExpiresAt
      /\ GrantFault(GrantOf[i], t) = None
      /\ UNCHANGED <<grants, revokedGrants, verifiers>>
  BY DEF IssuePermit, EndsAt, Follows, Fresh, Active, InForce, Screening, Finishes
<1>2. /\ GrantOf[i] \in grants \ revokedGrants
      /\ ValidFrom[GrantOf[i]] <= t /\ t < ValidUntil[GrantOf[i]]
  BY <1>1, NoFaultMeans
<1>3. permits' = [Purged(permits, t) EXCEPT ![i] = NewPermit(i, t)]
  BY DEF IssuePermit
<1>4. permits'[i] = NewPermit(i, t)
  BY <1>3, PurgedSettles DEF TypeOK
<1>5. /\ permits'[i].active /\ ~permits'[i].consumed
      /\ permits'[i].key \in verifiers
  BY <1>4, NewPermitType DEF CustodySound
<1>6. now < Lapses(i, t)
  <2>1. /\ now \in Int /\ t \in Int /\ TTL \in Nat \ {0}
        /\ ValidUntil[GrantOf[i]] \in Int /\ ExpiresAt \in Int
    BY IntentAssumption, DeclarationAssumption, EnvironmentAssumption DEF TypeOK
  <2>2. now < t + TTL /\ now < ValidUntil[GrantOf[i]]
    BY <1>1, <1>2, <2>1
  <2> QED
    BY <1>1, <2>1, <2>2 DEF Lapses, Earlier
<1>7. permits'[i].expiresAt = Lapses(i, t)
  BY <1>4 DEF NewPermit
<1> QED
  BY <1>1, <1>2, <1>5, <1>6, <1>7 DEF Usable, Held

\* A replay says ALLOW of a permit that the purge and the grant have spared.
LEMMA ReplayUsable ==
  ASSUME Safe, ~MayStepBack, NEW i \in Intent, NEW t \in Instant, NEW u \in Instant,
         ReplayAllow(i, t, u), reply'.disposition = "ALLOW"
  PROVE  Usable(i)
<1> USE DEF Safe
<1>1. PICK ps \in {permits, Purged(permits, t)} :
        /\ ps = Purged(permits, t) \/ permits[i].key \in revokedKeys
        /\ ps \in [Intent -> PermitRecord] /\ Settles(permits, ps)
        /\ reply'.disposition # None => reply'.disposition = ReplayVerdict(i, ps, u)
        /\ \/ permits' = ps
           \/ /\ GrantFault(GrantOf[i], u) # None
              /\ permits' = [ps EXCEPT ![i] =
                               Invalidated(ps[i], GrantFault(GrantOf[i], u))]
  BY ReplayAnswers
<1>2. ReplayVerdict(i, ps, u) = "ALLOW"
  BY <1>1 DEF None
<1>3. /\ ~ps[i].consumed /\ ps[i].reason = None /\ ps[i].key \notin revokedKeys
      /\ GrantFault(GrantOf[i], u) = None
  BY <1>2 DEF ReplayVerdict
<1>4. permits' = ps
  BY <1>1, <1>3
<1>5. ps[i] = permits[i]
  <2>1. ASSUME NEW reason \in Reasons, ps[i] = Invalidated(permits[i], reason)
        PROVE  FALSE
    BY <1>3, <2>1, InvalidatedFields, ReasonsAreNamed DEF TypeOK
  <2> QED
    BY <1>1, <2>1 DEF Settles
<1>6. i \in Held(permits)
  BY <1>3, <1>5 DEF ReplayAllow, OneCause, Held
<1>7. ps = Purged(permits, t)
  BY <1>1, <1>3, <1>5
<1>8. ~(permits[i].expiresAt <= t)
  <2>1. ASSUME permits[i].expiresAt <= t
        PROVE  ps[i].reason = "PERMIT_EXPIRED"
    <3>1. ps[i] = Invalidated(permits[i], "PERMIT_EXPIRED")
      BY <1>6, <1>7, <2>1 DEF Purged
    <3>2. "PERMIT_EXPIRED" \in Reasons /\ permits[i] \in PermitRecord
      BY DEF Reasons, TypeOK
    <3> QED
      BY <3>1, <3>2, InvalidatedFields
  <2> QED
    BY <1>3, <2>1 DEF None
<1>9. now < permits[i].expiresAt
  <2>1. now <= t
    BY DEF ReplayAllow, Follows
  <2>2. now \in Int /\ t \in Int /\ permits[i].expiresAt \in Int
    BY EnvironmentAssumption DEF TypeOK, PermitRecord
  <2> QED
    BY <1>8, <2>1, <2>2
<1>10. /\ GrantOf[i] \in grants \ revokedGrants
       /\ ValidFrom[GrantOf[i]] <= u /\ u < ValidUntil[GrantOf[i]]
  BY <1>3, NoFaultMeans
<1>11. now' = u /\ UNCHANGED <<grants, revokedGrants, verifiers>>
  BY DEF ReplayAllow
<1>12. permits[i].key \in verifiers
  BY <1>6 DEF CustodySound
<1>13. i \in Held(permits') /\ permits'[i] = permits[i]
  BY <1>4, <1>5, <1>6 DEF Held
<1> QED
  BY <1>9, <1>10, <1>11, <1>12, <1>13 DEF Usable

\* An ALLOW, first answer or replay, names a permit that could commit when the
\* call came in, under a grant in force at the last reading of the clock too.
THEOREM Usability ==
  ASSUME ~MayStepBack
  PROVE  Spec => AllowIsUsable
<1>1. Safe /\ [Next]_vars =>
        [reply'.disposition = "ALLOW" => Usable(reply'.intent)]_vars
  <2> SUFFICES ASSUME Safe, [Next]_vars, ~UNCHANGED vars, reply'.disposition = "ALLOW"
               PROVE  Usable(reply'.intent)
    OBVIOUS
  <2>1. reply'.disposition # None
    BY DEF None
  <2>2. ASSUME NEW i \in Intent, Declined(i) PROVE FALSE
    BY <2>2 DEF Declined
  <2>3. ASSUME NEW i \in Intent, NEW t \in Instant, IssuePermit(i, t),
               reply' = Answer(i, "ALLOW")
        PROVE  Usable(reply'.intent)
    BY <2>3, IssueUsable DEF Answer
  <2>4. ASSUME NEW i \in Intent, NEW t \in Instant, NEW u \in Instant,
               ReplayAllow(i, t, u), reply'.intent = i
        PROVE  Usable(reply'.intent)
    BY <2>4, ReplayUsable
  <2> QED
    BY <2>1, <2>2, <2>3, <2>4, StepReplies
<1> QED
  BY <1>1, Safety, PTL DEF Spec, AllowIsUsable, Usable
=============================================================================
