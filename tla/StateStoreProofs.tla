-------------------------- MODULE StateStoreProofs --------------------------
(***************************************************************************)
(* Proofs about the durable engine.  Advances says what one call does to a *)
(* snapshot; every method is shown to be such a step that also keeps the   *)
(* registry (MethodsAreProper), and every step of the system to keep the   *)
(* snapshots sound.  The chain carries the argument: it tells which permit *)
(* was issued under which key and which was consumed, so a row whose chain *)
(* extends what a process holds, and that keeps its invalidated permits    *)
(* and its revoked keys, holds all of it (NotRolledBack).                  *)
(***************************************************************************)
EXTENDS StateStore, TLAPS

(* Prefixes *)

LEMMA PrefixMeans ==
  ASSUME NEW E, NEW s \in Seq(E), NEW t \in Seq(E)
  PROVE  IsPrefix(s, t) <=> Len(s) <= Len(t) /\ \A n \in 1 .. Len(s) : s[n] = t[n]
<1>1. CASE Len(s) <= Len(t)
  <2>1. /\ SubSeq(s, 1, Len(s)) \in Seq(E) /\ Len(SubSeq(s, 1, Len(s))) = Len(s)
        /\ \A n \in 1 .. Len(s) : SubSeq(s, 1, Len(s))[n] = s[n]
    OBVIOUS
  <2>2. /\ SubSeq(t, 1, Len(s)) \in Seq(E) /\ Len(SubSeq(t, 1, Len(s))) = Len(s)
        /\ \A n \in 1 .. Len(s) : SubSeq(t, 1, Len(s))[n] = t[n]
    BY <1>1
  <2> QED
    BY <1>1, <2>1, <2>2 DEF IsPrefix
<1>2. CASE ~(Len(s) <= Len(t))
  BY <1>2 DEF IsPrefix
<1> QED
  BY <1>1, <1>2

LEMMA PrefixOfAppend ==
  ASSUME NEW E, NEW s \in Seq(E), NEW e \in E
  PROVE  Append(s, e) \in Seq(E) /\ IsPrefix(s, Append(s, e))
<1> DEFINE t == Append(s, e)
<1>1. /\ t \in Seq(E) /\ Len(t) = Len(s) + 1 /\ Len(s) \in Nat
      /\ \A n \in 1 .. Len(s) : t[n] = s[n]
  OBVIOUS
<1> HIDE DEF t
<1>2. IsPrefix(s, t) <=> Len(s) <= Len(t) /\ \A n \in 1 .. Len(s) : s[n] = t[n]
  BY <1>1, PrefixMeans
<1>3. IsPrefix(s, t)
  BY <1>1, <1>2
<1> QED
  BY <1>1, <1>3 DEF t

LEMMA PrefixOfSelf ==
  ASSUME NEW E, NEW s \in Seq(E)
  PROVE  IsPrefix(s, s)
BY PrefixMeans

LEMMA PrefixOfEmpty ==
  ASSUME NEW E, NEW t \in Seq(E)
  PROVE  IsPrefix(<<>>, t)
<1>1. /\ Len(<<>>) = 0 /\ Len(t) \in Nat
      /\ SubSeq(t, 1, 0) = <<>> /\ SubSeq(<<>>, 1, 0) = <<>>
  OBVIOUS
<1> QED
  BY <1>1 DEF IsPrefix

-----------------------------------------------------------------------------
(* What the engine's snapshots are, and how one call takes one to the next *)

Record == [fate : Fates, key : Key \cup {None}]

IssueAt(s, n, k) == s.chain[n].type = "PERMIT_ISSUED" /\ s.chain[n].permit = k
ExecutionAt(s, n, k) == s.chain[n].type = "EXECUTION_RECORDED" /\ s.chain[n].permit = k

\* The chain tells which permits were issued, under which key, and which were consumed.
Coherent(s) ==
  \A k \in Permit :
    /\ s.permits[k].fate # "absent" <=> \E n \in DOMAIN s.chain : IssueAt(s, n, k)
    /\ \A n \in DOMAIN s.chain : IssueAt(s, n, k) => s.chain[n].key = s.permits[k].key
    /\ s.permits[k].fate = "consumed" <=> \E n \in DOMAIN s.chain : ExecutionAt(s, n, k)
    /\ s.permits[k].fate = "absent" => s.permits[k].key = None

\* No permit is live under a revoked key.
Clean(s) ==
  \A k \in Permit : s.permits[k].fate = "live" => s.permits[k].key \notin s.revoked

Sound(s) == s \in Snapshot /\ Coherent(s) /\ Clean(s)

\* The record of l once the permits of S have lapsed.
Lapse(s, S, l) ==
  IF l \in S /\ s.permits[l].fate = "live"
  THEN [fate |-> "PERMIT_EXPIRED", key |-> s.permits[l].key] ELSE s.permits[l]

Issues(s, t, k, key, S) ==
  /\ s.permits[k].fate = "absent" /\ key \notin s.revoked
  /\ \E e \in Event : /\ e.type = "PERMIT_ISSUED" /\ e.permit = k /\ e.key = key
                      /\ t.chain = Append(s.chain, e)
  /\ \A l \in Permit :
       t.permits[l] = IF l = k THEN [fate |-> "live", key |-> key] ELSE Lapse(s, S, l)
  /\ t.revoked = s.revoked

Spends(s, t, k) ==
  /\ s.permits[k].fate = "live"
  /\ \E e \in Event : /\ e.type = "EXECUTION_RECORDED" /\ e.permit = k
                      /\ t.chain = Append(s.chain, e)
  /\ \A l \in Permit :
       t.permits[l] = IF l = k THEN [fate |-> "consumed", key |-> s.permits[l].key]
                      ELSE s.permits[l]
  /\ t.revoked = s.revoked

Settles(s, t, S) ==
  /\ t.chain = s.chain /\ t.revoked = s.revoked
  /\ \A l \in Permit : t.permits[l] = Lapse(s, S, l)

Strikes(s, t, key, S) ==
  /\ t.chain = s.chain /\ t.revoked = s.revoked \cup {key}
  /\ \A l \in Permit :
       t.permits[l] = IF Lapse(s, S, l).fate = "live" /\ s.permits[l].key = key
                      THEN [fate |-> "PERMIT_KEY_REVOKED", key |-> key]
                      ELSE Lapse(s, S, l)

\* One call takes s to t.
Advances(s, t) ==
  /\ t \in Snapshot
  /\ \E S \in SUBSET Permit :
       \/ \E k \in Permit, key \in Key : Issues(s, t, k, key, S)
       \/ \E k \in Permit : Spends(s, t, k)
       \/ Settles(s, t, S)
       \/ \E key \in Key : Strikes(s, t, key, S)

LEMMA LapseIs ==
  ASSUME NEW s \in Snapshot, NEW S, NEW l \in Permit
  PROVE  /\ Lapse(s, S, l) \in Record /\ Lapse(s, S, l).key = s.permits[l].key
         /\ \/ Lapse(s, S, l) = s.permits[l]
            \/ s.permits[l].fate = "live" /\ Lapse(s, S, l).fate = "PERMIT_EXPIRED"
<1>1. s.permits[l] \in Record
  BY DEF Snapshot, Record
<1> QED
  BY <1>1 DEF Lapse, Record, Fates

LEMMA SoundStaysSound ==
  ASSUME NEW s, NEW t, Sound(s), Advances(s, t)
  PROVE  Sound(t) /\ Extends(t, s)
<1>1. PICK S \in SUBSET Permit :
        \/ \E k \in Permit, key \in Key : Issues(s, t, k, key, S)
        \/ \E k \in Permit : Spends(s, t, k)
        \/ Settles(s, t, S)
        \/ \E key \in Key : Strikes(s, t, key, S)
  BY DEF Advances
<1>2. /\ s \in Snapshot /\ t \in Snapshot /\ Coherent(s) /\ Clean(s)
      /\ s.chain \in Seq(Event) /\ t.chain \in Seq(Event)
  BY DEF Sound, Advances, Snapshot
<1>3. ASSUME t.chain = s.chain,
             \A l \in Permit :
               /\ t.permits[l].key = s.permits[l].key
               /\ \/ t.permits[l].fate = s.permits[l].fate
                  \/ s.permits[l].fate = "live" /\ t.permits[l].fate \in Invalid
      PROVE  Coherent(t)
  BY <1>2, <1>3 DEF Coherent, IssueAt, ExecutionAt, Invalid
<1>4. ASSUME NEW k \in Permit, NEW e \in Event, e.permit = k, t.chain = Append(s.chain, e),
             \/ /\ e.type = "PERMIT_ISSUED" /\ s.permits[k].fate = "absent"
                /\ t.permits[k].fate = "live" /\ e.key = t.permits[k].key
             \/ /\ e.type = "EXECUTION_RECORDED" /\ s.permits[k].fate = "live"
                /\ t.permits[k].fate = "consumed" /\ t.permits[k].key = s.permits[k].key,
             \A l \in Permit \ {k} :
               /\ t.permits[l].key = s.permits[l].key
               /\ \/ t.permits[l].fate = s.permits[l].fate
                  \/ s.permits[l].fate = "live" /\ t.permits[l].fate \in Invalid
      PROVE  Coherent(t) /\ IsPrefix(s.chain, t.chain)
  <2>1. /\ DOMAIN t.chain = DOMAIN s.chain \cup {Len(s.chain) + 1}
        /\ t.chain[Len(s.chain) + 1] = e
        /\ \A n \in DOMAIN s.chain : t.chain[n] = s.chain[n]
    BY <1>2, <1>4
  <2>2. ASSUME NEW l \in Permit
        PROVE /\ (\E n \in DOMAIN t.chain : IssueAt(t, n, l)) <=>
                   (\E n \in DOMAIN s.chain : IssueAt(s, n, l))
                     \/ (l = k /\ e.type = "PERMIT_ISSUED")
              /\ (\E n \in DOMAIN t.chain : ExecutionAt(t, n, l)) <=>
                   (\E n \in DOMAIN s.chain : ExecutionAt(s, n, l))
                     \/ (l = k /\ e.type = "EXECUTION_RECORDED")
    BY <1>4, <2>1 DEF IssueAt, ExecutionAt
  <2>3. ASSUME NEW l \in Permit, NEW n \in DOMAIN t.chain, IssueAt(t, n, l)
        PROVE  t.chain[n].key = t.permits[l].key
    BY <1>2, <1>4, <2>1, <2>3 DEF IssueAt, Coherent
  <2>4. ASSUME NEW l \in Permit
        PROVE  /\ t.permits[l].fate # "absent" <=> \E n \in DOMAIN t.chain : IssueAt(t, n, l)
               /\ t.permits[l].fate = "consumed" <=>
                    \E n \in DOMAIN t.chain : ExecutionAt(t, n, l)
               /\ t.permits[l].fate = "absent" => t.permits[l].key = None
    BY <1>2, <1>4, <2>2 DEF Coherent, Invalid
  <2> QED
    BY <1>2, <1>4, <2>3, <2>4, PrefixOfAppend DEF Coherent
<1>5. ASSUME NEW k \in Permit, NEW key \in Key, Issues(s, t, k, key, S)
      PROVE  Sound(t) /\ Extends(t, s)
  <2>1. t.permits[k].fate = "live" /\ t.permits[k].key = key
    BY <1>5 DEF Issues
  <2>2. \A l \in Permit \ {k} : t.permits[l] = Lapse(s, S, l)
    BY <1>5 DEF Issues
  <2>3. Coherent(t) /\ IsPrefix(s.chain, t.chain)
    BY <1>2, <1>4, <1>5, <2>1, <2>2, LapseIs DEF Issues, Invalid
  <2>4. Clean(t)
    BY <1>2, <1>5, <2>1, <2>2, LapseIs DEF Issues, Clean
  <2> QED
    BY <1>2, <1>5, <2>1, <2>2, <2>3, <2>4, LapseIs DEF Issues, Sound, Extends
<1>6. ASSUME NEW k \in Permit, Spends(s, t, k)
      PROVE  Sound(t) /\ Extends(t, s)
  <2>0. \A l \in Permit :
          t.permits[l] = IF l = k THEN [fate |-> "consumed", key |-> s.permits[l].key]
                         ELSE s.permits[l]
    BY <1>6 DEF Spends
  <2>1. /\ t.permits[k].fate = "consumed" /\ t.permits[k].key = s.permits[k].key
        /\ \A l \in Permit \ {k} : t.permits[l] = s.permits[l]
    <3>1. t.permits[k] = [fate |-> "consumed", key |-> s.permits[k].key]
      BY <2>0
    <3>2. ASSUME NEW l \in Permit \ {k} PROVE t.permits[l] = s.permits[l]
      BY <2>0
    <3> QED
      BY <3>1, <3>2
  <2>2. Coherent(t) /\ IsPrefix(s.chain, t.chain)
    BY <1>2, <1>4, <1>6, <2>1 DEF Spends
  <2>3. Clean(t)
    BY <1>2, <1>6, <2>1 DEF Spends, Clean
  <2> QED
    BY <1>2, <1>6, <2>1, <2>2, <2>3 DEF Spends, Sound, Extends
<1>7. ASSUME Settles(s, t, S)
      PROVE  Sound(t) /\ Extends(t, s)
  <2>1. Coherent(t) /\ Clean(t)
    BY <1>2, <1>3, <1>7, LapseIs DEF Settles, Invalid, Clean
  <2> QED
    BY <1>2, <1>7, <2>1, LapseIs, PrefixOfSelf DEF Settles, Sound, Extends
<1>8. ASSUME NEW key \in Key, Strikes(s, t, key, S)
      PROVE  Sound(t) /\ Extends(t, s)
  <2>1. \A l \in Permit :
          /\ t.permits[l].key = s.permits[l].key
          /\ \/ t.permits[l].fate = s.permits[l].fate
             \/ s.permits[l].fate = "live" /\ t.permits[l].fate \in Invalid
          /\ t.permits[l].fate = "live" => s.permits[l].fate = "live" /\ t.permits[l].key # key
    BY <1>2, <1>8, LapseIs DEF Strikes, Invalid
  <2>2. Coherent(t) /\ Clean(t)
    BY <1>2, <1>3, <1>8, <2>1 DEF Strikes, Clean
  <2>3. IsPrefix(s.chain, t.chain) /\ s.revoked \subseteq t.revoked
    BY <1>2, <1>8, PrefixOfSelf DEF Strikes
  <2>4. ASSUME NEW l \in Permit
        PROVE  /\ s.permits[l].fate # "absent" => t.permits[l].key = s.permits[l].key
               /\ s.permits[l].fate \notin {"absent", "live"} =>
                    t.permits[l].fate = s.permits[l].fate
               /\ s.permits[l].fate = "live" => t.permits[l].fate # "absent"
    BY <2>1 DEF Invalid
  <2> QED
    BY <1>2, <2>2, <2>3, <2>4 DEF Sound, Extends
<1> QED
  BY <1>1, <1>5, <1>6, <1>7, <1>8

-----------------------------------------------------------------------------
(* The methods *)

LEMMA FreshIsSound == Sound(Fresh)
<1>1. <<>> \in Seq(Event) /\ DOMAIN <<>> = {}
  OBVIOUS
<1>2. Fresh \in Snapshot
  BY <1>1 DEF Fresh, Snapshot, Fates
<1> QED
  BY <1>1, <1>2 DEF Sound, Coherent, Clean, Fresh, IssueAt, ExecutionAt

\* A snapshot that holds nothing is the fresh one.
LEMMA EmptyIsFresh ==
  ASSUME NEW s, Sound(s), s.chain = <<>>, s.revoked = {}
  PROVE  s = Fresh
<1>1. DOMAIN s.chain = {}
  OBVIOUS
<1>2. /\ s.permits \in [Permit -> Record]
      /\ s = [chain |-> s.chain, permits |-> s.permits, revoked |-> s.revoked]
  BY DEF Sound, Snapshot, Record
<1>3. ASSUME NEW k \in Permit
      PROVE  s.permits[k] = [fate |-> "absent", key |-> None]
  <2>1. s.permits[k].fate = "absent" /\ s.permits[k].key = None
    BY <1>1 DEF Sound, Coherent
  <2> QED
    BY <1>2, <2>1 DEF Record
<1>4. s.permits = [k \in Permit |-> [fate |-> "absent", key |-> None]]
  BY <1>2, <1>3
<1> QED
  BY <1>2, <1>4 DEF Fresh

Passed(s) == {k \in Permit : PastDue(s, k)}

LEMMA PurgedIs ==
  ASSUME NEW s \in Snapshot
  PROVE  /\ Purged(s) \in Snapshot
         /\ Purged(s).chain = s.chain /\ Purged(s).revoked = s.revoked
         /\ \A l \in Permit : Purged(s).permits[l] = Lapse(s, Passed(s), l)
<1> DEFINE q == [k \in Permit |-> IF PastDue(s, k) /\ s.permits[k].fate = "live"
                                  THEN [fate |-> "PERMIT_EXPIRED", key |-> s.permits[k].key]
                                  ELSE s.permits[k]]
<1>1. /\ s.permits \in [Permit -> Record] /\ s.chain \in Seq(Event)
      /\ s.revoked \in SUBSET Key
      /\ s = [chain |-> s.chain, permits |-> s.permits, revoked |-> s.revoked]
  BY DEF Snapshot, Record
<1>2. Purged(s) = [chain |-> s.chain, permits |-> q, revoked |-> s.revoked]
  BY <1>1 DEF Purged
<1>3. \A l \in Permit : q[l] = Lapse(s, Passed(s), l)
  BY DEF Lapse, Passed
<1>4. \A l \in Permit : q[l] \in Record
  BY <1>3, LapseIs
<1>5. q \in [Permit -> Record]
  BY <1>4
<1> QED
  BY <1>1, <1>2, <1>3, <1>5 DEF Snapshot, Record

LEMMA MarkedIs ==
  ASSUME NEW s \in Snapshot, NEW k \in Permit, NEW fate \in Fates,
         NEW key \in Key \cup {None}
  PROVE  LET t == Marked(s, k, fate, key) IN
         /\ t \in Snapshot /\ t.chain = s.chain /\ t.revoked = s.revoked
         /\ \A l \in Permit :
              t.permits[l] = IF l = k THEN [fate |-> fate, key |-> key] ELSE s.permits[l]
<1> DEFINE q == [s.permits EXCEPT ![k] = [fate |-> fate, key |-> key]]
<1>1. /\ s.permits \in [Permit -> Record] /\ s.chain \in Seq(Event)
      /\ s.revoked \in SUBSET Key
      /\ s = [chain |-> s.chain, permits |-> s.permits, revoked |-> s.revoked]
  BY DEF Snapshot, Record
<1>2. Marked(s, k, fate, key) = [chain |-> s.chain, permits |-> q, revoked |-> s.revoked]
  BY <1>1 DEF Marked
<1>3. /\ q \in [Permit -> Record]
      /\ \A l \in Permit : q[l] = IF l = k THEN [fate |-> fate, key |-> key] ELSE s.permits[l]
  BY <1>1 DEF Record
<1> QED
  BY <1>1, <1>2, <1>3 DEF Snapshot, Record

LEMMA RecordedIs ==
  ASSUME NEW s \in Snapshot, NEW type \in {"PERMIT_ISSUED", "EXECUTION_RECORDED"},
         NEW k \in Permit, NEW key \in Key \cup {None}, era \in Nat
  PROVE  LET t == Recorded(s, type, k, key) IN
         /\ t \in Snapshot /\ t.permits = s.permits /\ t.revoked = s.revoked
         /\ \E e \in Event : /\ e.type = type /\ e.permit = k /\ e.key = key
                             /\ t.chain = Append(s.chain, e)
<1> DEFINE e == [type |-> type, permit |-> k, key |-> key, era |-> era]
<1>1. /\ s.permits \in [Permit -> Record] /\ s.chain \in Seq(Event)
      /\ s.revoked \in SUBSET Key
      /\ s = [chain |-> s.chain, permits |-> s.permits, revoked |-> s.revoked]
  BY DEF Snapshot, Record
<1>2. e \in Event /\ e.type = type /\ e.permit = k /\ e.key = key
  BY DEF Event
<1>0. Recorded(s, type, k, key) = [s EXCEPT !.chain = Append(s.chain, e)]
  BY DEF Recorded
<1> HIDE DEF e
<1>3. Recorded(s, type, k, key)
        = [chain |-> Append(s.chain, e), permits |-> s.permits, revoked |-> s.revoked]
  <2>1. \A c : [s EXCEPT !.chain = c]
                = [chain |-> c, permits |-> s.permits, revoked |-> s.revoked]
    BY <1>1
  <2> QED
    BY <1>0, <2>1
<1>4. Append(s.chain, e) \in Seq(Event)
  BY <1>1, <1>2, PrefixOfAppend
<1> QED
  BY <1>1, <1>2, <1>3, <1>4 DEF Snapshot, Record

LEMMA ReleasedIs ==
  ASSUME NEW s \in Snapshot, NEW key \in Key
  PROVE  LET t == Released(s, key) IN
         /\ t \in Snapshot /\ t.chain = s.chain /\ t.revoked = s.revoked \cup {key}
         /\ \A l \in Permit :
              t.permits[l] = IF s.permits[l].fate = "live" /\ s.permits[l].key = key
                             THEN [fate |-> "PERMIT_KEY_REVOKED", key |-> key]
                             ELSE s.permits[l]
<1> DEFINE q == [k \in Permit |-> IF s.permits[k].fate = "live" /\ s.permits[k].key = key
                                  THEN [fate |-> "PERMIT_KEY_REVOKED", key |-> key]
                                  ELSE s.permits[k]]
<1>1. /\ s.permits \in [Permit -> Record] /\ s.chain \in Seq(Event)
      /\ s.revoked \in SUBSET Key
  BY DEF Snapshot, Record
<1>2. Released(s, key)
        = [chain |-> s.chain, revoked |-> s.revoked \cup {key}, permits |-> q]
  BY DEF Released
<1>3. q \in [Permit -> Record]
  BY <1>1 DEF Record, Fates
<1> QED
  BY <1>1, <1>2, <1>3 DEF Snapshot, Record

-----------------------------------------------------------------------------
Told == [answer: Answers \cup {None}, permit: Permit \cup {None}]

\* The registry of h, when the signers V were installed.
Registered(h, V) ==
  h.signer \in h.verifiers /\ h.verifiers = V \ h.state.revoked

\* An answer that is one, and is true of s.
TrueOf(a, s) == a \in Told /\ (a # Silence =>
                   a.answer \in Answers /\ a.permit \in Permit /\ Stands(a, s))

\* What a method that ends as g and tells a does to h.
Proper(h, V, g, a) ==
  /\ g \in Holding
  /\ Advances(h.state, g.state)
  /\ Registered(g, V \cup {g.signer})
  /\ TrueOf(a, g.state)

LEMMA SilenceIsTrue ==
  ASSUME NEW s
  PROVE  TrueOf(Silence, s)
BY DEF TrueOf, Silence, Told, Tells

LEMMA WithState ==
  ASSUME NEW h \in Holding, NEW s \in Snapshot
  PROVE  LET g == [h EXCEPT !.state = s] IN
         g \in Holding /\ g.state = s /\ g.signer = h.signer /\ g.verifiers = h.verifiers
<1>1. \A x : [h EXCEPT !.state = x]
               = [state |-> x, signer |-> h.signer, verifiers |-> h.verifiers]
  BY DEF Holding
<1> QED
  BY <1>1 DEF Holding

\* A step that keeps the registry and the revoked keys is proper.
LEMMA KeepsRegistry ==
  ASSUME NEW h \in Holding, NEW V, Registered(h, V),
         NEW s, Advances(h.state, s), s.revoked = h.state.revoked,
         NEW a, TrueOf(a, s)
  PROVE  Proper(h, V, [h EXCEPT !.state = s], a)
<1> DEFINE g == [h EXCEPT !.state = s]
<1>1. s \in Snapshot
  BY DEF Advances
<1>2. g \in Holding /\ g.state = s /\ g.signer = h.signer /\ g.verifiers = h.verifiers
  BY <1>1, WithState
<1> HIDE DEF g
<1>3. Registered(g, V \cup {g.signer})
  BY <1>2 DEF Registered
<1>4. Proper(h, V, g, a)
  BY <1>2, <1>3 DEF Proper
<1> QED
  BY <1>4 DEF g

LEMMA StayingAdvances ==
  ASSUME NEW s \in Snapshot
  PROVE  Advances(s, s)
<1>1. Settles(s, s, {})
  BY DEF Settles, Lapse
<1> QED
  BY <1>1 DEF Advances

LEMMA PurgeAdvances ==
  ASSUME NEW s \in Snapshot
  PROVE  Advances(s, Purged(s))
<1>1. Settles(s, Purged(s), Passed(s)) /\ Purged(s) \in Snapshot
  BY PurgedIs DEF Settles
<1>2. Passed(s) \in SUBSET Permit
  BY DEF Passed
<1> QED
  BY <1>1, <1>2 DEF Advances

LEMMA StayingIsProper ==
  ASSUME NEW h \in Holding, NEW V, Registered(h, V), NEW a, TrueOf(a, h.state)
  PROVE  Proper(h, V, h, a)
<1>1. h.state \in Snapshot
  BY DEF Holding
<1>2. Advances(h.state, h.state)
  BY <1>1, StayingAdvances
<1> QED
  BY <1>2 DEF Proper, Registered

LEMMA IssueIsProper ==
  ASSUME era \in Nat, NEW h \in Holding, Sound(h.state), NEW V, Registered(h, V),
         NEW k \in Permit, h.state.permits[k].fate = "absent"
  PROVE  Proper(h, V, IssuePermit(h, k).holding, IssuePermit(h, k).tells)
<1> DEFINE r == Purged(h.state)
           s == Recorded(r, "PERMIT_ISSUED", k, h.signer)
           t == Marked(s, k, "live", h.signer)
<1>1. /\ h.state \in Snapshot /\ h.signer \in Key \cup {None} /\ h.verifiers \subseteq Key
      /\ h.signer \in Key
  BY DEF Holding, Registered
<1>2. /\ IssuePermit(h, k).holding = [h EXCEPT !.state = t]
      /\ IssuePermit(h, k).tells = Tells("ALLOW", k)
  BY DEF IssuePermit, Done
<1>3. /\ r \in Snapshot /\ r.chain = h.state.chain /\ r.revoked = h.state.revoked
      /\ \A l \in Permit : r.permits[l] = Lapse(h.state, Passed(h.state), l)
  BY <1>1, PurgedIs
<1> HIDE DEF r
<1>4. /\ s \in Snapshot /\ s.permits = r.permits /\ s.revoked = r.revoked
      /\ \E e \in Event : /\ e.type = "PERMIT_ISSUED" /\ e.permit = k /\ e.key = h.signer
                          /\ s.chain = Append(r.chain, e)
  <2>1. "PERMIT_ISSUED" \in {"PERMIT_ISSUED", "EXECUTION_RECORDED"}
    OBVIOUS
  <2>2. r \in Snapshot /\ h.signer \in Key \cup {None} /\ era \in Nat
    BY <1>1, <1>3
  <2> QED
    BY <2>1, <2>2, RecordedIs
<1> HIDE DEF s
<1>5. /\ t \in Snapshot /\ t.chain = s.chain /\ t.revoked = s.revoked
      /\ \A l \in Permit :
           t.permits[l] = IF l = k THEN [fate |-> "live", key |-> h.signer] ELSE s.permits[l]
  BY <1>1, <1>4, MarkedIs DEF Fates
<1> HIDE DEF t
<1>6. Issues(h.state, t, k, h.signer, Passed(h.state))
  BY <1>1, <1>3, <1>4, <1>5 DEF Issues, Registered
<1>7. Advances(h.state, t)
  <2>1. Passed(h.state) \in SUBSET Permit
    BY DEF Passed
  <2> QED
    BY <1>1, <1>5, <1>6, <2>1 DEF Advances
<1>8. TrueOf(Tells("ALLOW", k), t)
  BY <1>5 DEF TrueOf, Tells, Told, Answers, Stands
<1> QED
  BY <1>2, <1>3, <1>4, <1>5, <1>7, <1>8, KeepsRegistry

LEMMA ReplayIsProper ==
  ASSUME NEW h \in Holding, Sound(h.state), NEW V, Registered(h, V),
         NEW k \in Permit, h.state.permits[k].fate # "absent", Knows(h, k)
  PROVE  Proper(h, V, ReplayIntent(h, k).holding, ReplayIntent(h, k).tells)
<1> DEFINE s == IF h.state.permits[k].key \in h.state.revoked
                THEN h.state ELSE Purged(h.state)
<1>1. h.state \in Snapshot
  BY DEF Holding
<1>2. /\ ReplayIntent(h, k).holding = [h EXCEPT !.state = s]
      /\ ReplayIntent(h, k).tells = Tells(ReplayAnswer(s, k), k)
  BY DEF ReplayIntent, Done
<1>3. Advances(h.state, s) /\ s.revoked = h.state.revoked
  BY <1>1, PurgeAdvances, PurgedIs, StayingAdvances
<1> HIDE DEF s
<1>4. Sound(s) /\ Extends(s, h.state)
  BY <1>3, SoundStaysSound
<1>5. s.permits[k] \in Record /\ s.permits[k].fate # "absent"
  BY <1>1, <1>4 DEF Sound, Extends, Snapshot, Record
<1>6. TrueOf(Tells(ReplayAnswer(s, k), k), s)
  <2>1. s.permits[k].fate = "live" => s.permits[k].key \notin s.revoked
    BY <1>4 DEF Sound, Clean
  <2>2. /\ ReplayAnswer(s, k) \in Answers
        /\ Tells(ReplayAnswer(s, k), k) \in Told
    BY DEF ReplayAnswer, Answers, Invalid, Tells, Told
  <2>3. Stands(Tells(ReplayAnswer(s, k), k), s)
    BY <1>5, <2>1 DEF ReplayAnswer, Stands, Tells, Record, Fates
  <2> QED
    BY <2>2, <2>3 DEF TrueOf, Tells
<1> QED
  BY <1>2, <1>3, <1>6, KeepsRegistry

LEMMA ExecuteIsProper ==
  ASSUME era \in Nat, NEW h \in Holding, Sound(h.state), NEW V, Registered(h, V),
         NEW k \in Permit, ~Execute(h, k).halts
  PROVE  Proper(h, V, Execute(h, k).holding, Execute(h, k).tells)
<1> DEFINE s == h.state
           fate == s.permits[k].fate
           key == s.permits[k].key
           r == Recorded(s, "EXECUTION_RECORDED", k, None)
<1>1. /\ s \in Snapshot /\ s.permits[k] \in Record /\ fate \in Fates
      /\ key \in Key \cup {None}
  BY DEF Holding, Snapshot, Record
<1>2. CASE fate = "consumed"
  <2>1. Execute(h, k).holding = h /\ Execute(h, k).tells = Tells("EXECUTED", k)
    BY <1>2 DEF Execute, Done
  <2>2. TrueOf(Tells("EXECUTED", k), h.state)
    BY <1>2 DEF TrueOf, Tells, Told, Answers, Stands
  <2> QED
    BY <2>1, <2>2, StayingIsProper
<1>3. CASE fate = "absent"
  <2>1. Execute(h, k).holding = h /\ Execute(h, k).tells = Silence
    BY <1>3 DEF Execute, Done
  <2> QED
    BY <2>1, SilenceIsTrue, StayingIsProper
<1>4. CASE fate \in Invalid
  <2>1. Execute(h, k).holding = h /\ Execute(h, k).tells = Tells(fate, k)
    BY <1>4 DEF Execute, Done, Invalid
  <2>2. TrueOf(Tells(fate, k), h.state)
    BY <1>4 DEF TrueOf, Tells, Told, Answers, Stands, Invalid
  <2> QED
    BY <2>1, <2>2, StayingIsProper
<1>5. CASE fate = "live" /\ PastDue(s, k)
  <2> DEFINE t == Marked(s, k, "PERMIT_EXPIRED", key)
  <2>1. /\ Execute(h, k).holding = [h EXCEPT !.state = t]
        /\ Execute(h, k).tells = Tells("PERMIT_EXPIRED", k)
    BY <1>5 DEF Execute, Done, Invalid
  <2>2. /\ t \in Snapshot /\ t.chain = s.chain /\ t.revoked = s.revoked
        /\ \A l \in Permit :
             t.permits[l] = IF l = k THEN [fate |-> "PERMIT_EXPIRED", key |-> key]
                            ELSE s.permits[l]
    BY <1>1, MarkedIs DEF Fates
  <2> HIDE DEF t
  <2>3. Settles(s, t, {k})
    BY <1>5, <2>2 DEF Settles, Lapse
  <2>4. Advances(s, t)
    BY <2>2, <2>3 DEF Advances
  <2>5. TrueOf(Tells("PERMIT_EXPIRED", k), t)
    BY <2>2 DEF TrueOf, Tells, Told, Answers, Invalid, Stands
  <2> QED
    BY <2>1, <2>2, <2>4, <2>5, KeepsRegistry
<1>6. CASE fate = "live" /\ ~PastDue(s, k)
  <2> DEFINE t == Marked(r, k, "consumed", key)
  <2>1. /\ Execute(h, k).holding = [h EXCEPT !.state = t]
        /\ Execute(h, k).tells = Tells("EXECUTED", k)
    BY <1>6 DEF Execute, Done, Halt, Invalid
  <2>2. /\ r \in Snapshot /\ r.permits = s.permits /\ r.revoked = s.revoked
        /\ \E e \in Event : /\ e.type = "EXECUTION_RECORDED" /\ e.permit = k /\ e.key = None
                            /\ r.chain = Append(s.chain, e)
    <3>1. /\ "EXECUTION_RECORDED" \in {"PERMIT_ISSUED", "EXECUTION_RECORDED"}
          /\ None \in Key \cup {None}
      OBVIOUS
    <3>2. s \in Snapshot /\ era \in Nat
      BY <1>1
    <3> HIDE DEF s
    <3> QED
      BY <3>1, <3>2, RecordedIs
  <2> HIDE DEF r
  <2>3. /\ t \in Snapshot /\ t.chain = r.chain /\ t.revoked = s.revoked
        /\ \A l \in Permit :
             t.permits[l] = IF l = k THEN [fate |-> "consumed", key |-> key]
                            ELSE s.permits[l]
    <3>1. "consumed" \in Fates
      BY DEF Fates
    <3>2. r \in Snapshot /\ key \in Key \cup {None}
      BY <1>1, <2>2
    <3> HIDE DEF key
    <3>3. /\ t \in Snapshot /\ t.chain = r.chain /\ t.revoked = r.revoked
          /\ \A l \in Permit :
               t.permits[l] = IF l = k THEN [fate |-> "consumed", key |-> key]
                              ELSE r.permits[l]
      BY <3>1, <3>2, MarkedIs
    <3> QED
      BY <2>2, <3>3
  <2> HIDE DEF t
  <2>4. Spends(s, t, k)
    <3>1. \A l \in Permit :
            t.permits[l] = IF l = k THEN [fate |-> "consumed", key |-> s.permits[l].key]
                           ELSE s.permits[l]
      BY <2>3
    <3> QED
      BY <1>6, <2>2, <2>3, <3>1 DEF Spends
  <2>5. Advances(s, t)
    BY <2>3, <2>4 DEF Advances
  <2>6. TrueOf(Tells("EXECUTED", k), t)
    BY <2>3 DEF TrueOf, Tells, Told, Answers, Stands
  <2> QED
    BY <2>1, <2>3, <2>5, <2>6, KeepsRegistry
<1> QED
  BY <1>1, <1>2, <1>3, <1>4, <1>5, <1>6 DEF Fates, Invalid

LEMMA RotateIsProper ==
  ASSUME NEW h \in Holding, NEW V, Registered(h, V), NEW key \in Key
  PROVE  Proper(h, V, Rotate(h, key).holding, Rotate(h, key).tells)
<1>1. CASE key \in h.state.revoked \cup h.verifiers
  <2>1. Rotate(h, key).holding = h /\ Rotate(h, key).tells = Silence
    BY <1>1 DEF Rotate, Done
  <2> QED
    BY <2>1, SilenceIsTrue, StayingIsProper
<1>2. CASE key \notin h.state.revoked \cup h.verifiers
  <2> DEFINE g == [state |-> h.state, signer |-> key, verifiers |-> h.verifiers \cup {key}]
  <2>1. Rotate(h, key).holding = g /\ Rotate(h, key).tells = Silence
    BY <1>2 DEF Rotate, Done
  <2>2. g \in Holding /\ g.state = h.state /\ h.state \in Snapshot
    BY DEF Holding
  <2>3. Registered(g, V \cup {g.signer})
    BY <1>2 DEF Registered
  <2> HIDE DEF g
  <2> QED
    BY <2>1, <2>2, <2>3, StayingAdvances, SilenceIsTrue DEF Proper
<1> QED
  BY <1>1, <1>2

LEMMA RevokeIsProper ==
  ASSUME NEW h \in Holding, NEW V, Registered(h, V), NEW key \in Key
  PROVE  Proper(h, V, Revoke(h, key).holding, Revoke(h, key).tells)
<1>1. CASE key \notin h.verifiers \ {h.signer}
  <2>1. Revoke(h, key).holding = h /\ Revoke(h, key).tells = Silence
    BY <1>1 DEF Revoke, Done
  <2> QED
    BY <2>1, SilenceIsTrue, StayingIsProper
<1>2. CASE key \in h.verifiers \ {h.signer}
  <2> DEFINE s == Purged(h.state)
             t == Released(s, key)
             g == [state |-> t, signer |-> h.signer, verifiers |-> h.verifiers \ {key}]
  <2>1. Revoke(h, key).holding = g /\ Revoke(h, key).tells = Silence
    BY <1>2 DEF Revoke, Done
  <2>2. /\ h.state \in Snapshot
        /\ s \in Snapshot /\ s.chain = h.state.chain /\ s.revoked = h.state.revoked
        /\ \A l \in Permit : s.permits[l] = Lapse(h.state, Passed(h.state), l)
    BY PurgedIs DEF Holding
  <2> HIDE DEF s
  <2>3. /\ t \in Snapshot /\ t.chain = s.chain /\ t.revoked = s.revoked \cup {key}
        /\ \A l \in Permit :
             t.permits[l] = IF s.permits[l].fate = "live" /\ s.permits[l].key = key
                            THEN [fate |-> "PERMIT_KEY_REVOKED", key |-> key]
                            ELSE s.permits[l]
    BY <2>2, ReleasedIs
  <2> HIDE DEF t
  <2>4. Strikes(h.state, t, key, Passed(h.state))
    BY <2>2, <2>3, LapseIs DEF Strikes
  <2>5. Advances(h.state, t)
    <3>1. Passed(h.state) \in SUBSET Permit
      BY DEF Passed
    <3> QED
      BY <2>3, <2>4, <3>1 DEF Advances
  <2>6. /\ g \in Holding /\ g.state = t /\ g.signer = h.signer
        /\ g.verifiers = h.verifiers \ {key}
    BY <2>3 DEF Holding
  <2> HIDE DEF g
  <2>7. Registered(g, V \cup {g.signer})
    BY <1>2, <2>2, <2>3, <2>6 DEF Registered
  <2> QED
    BY <2>1, <2>5, <2>6, <2>7, SilenceIsTrue DEF Proper
<1> QED
  BY <1>1, <1>2

LEMMA MethodsAreProper ==
  ASSUME era \in Nat, NEW h \in Holding, Sound(h.state), NEW V, Registered(h, V),
         NEW m \in Methods, ~Run(h, m).halts
  PROVE  Proper(h, V, Run(h, m).holding, Run(h, m).tells)
<1>1. CASE m[1] = "evaluate_intent" /\ m[2] \in Permit
  <2>1. Run(h, m) = Evaluate(h, m[2])
    BY <1>1 DEF Run
  <2>2. CASE h.state.permits[m[2]].fate = "absent"
    BY <1>1, <2>1, <2>2, IssueIsProper DEF Evaluate
  <2>3. CASE h.state.permits[m[2]].fate # "absent"
    <3>1. Run(h, m) = ReplayIntent(h, m[2])
      BY <2>1, <2>3 DEF Evaluate
    <3>2. Knows(h, m[2])
      BY <3>1 DEF ReplayIntent, Halt
    <3> QED
      BY <1>1, <2>3, <3>1, <3>2, ReplayIsProper
  <2> QED
    BY <2>2, <2>3
<1>2. CASE m[1] = "commit_execution" /\ m[2] \in Permit
  <2>1. Run(h, m) = Execute(h, m[2])
    BY <1>2 DEF Run
  <2> QED
    BY <1>2, <2>1, ExecuteIsProper
<1>3. CASE m[1] = "rotate_permit_signer" /\ m[2] \in Key
  <2>1. Run(h, m) = Rotate(h, m[2])
    BY <1>3 DEF Run
  <2> QED
    BY <1>3, <2>1, RotateIsProper
<1>4. CASE m[1] = "revoke_permit_key" /\ m[2] \in Key
  <2>1. Run(h, m) = Revoke(h, m[2])
    BY <1>4 DEF Run
  <2> QED
    BY <1>4, <2>1, RevokeIsProper
<1> QED
  BY <1>1, <1>2, <1>3, <1>4 DEF Methods

-----------------------------------------------------------------------------
(* The row a process may go on from holds all that it has seen *)

LEMMA SelfExtends ==
  ASSUME NEW s \in Snapshot
  PROVE  Extends(s, s)
<1>1. s.chain \in Seq(Event)
  BY DEF Snapshot
<1>2. IsPrefix(s.chain, s.chain)
  BY <1>1, PrefixOfSelf
<1> QED
  BY <1>2 DEF Extends

LEMMA NotRolledBack ==
  ASSUME NEW row \in Row, NEW s, Sound(s), Sound(row.state),
         ~row.there => row.state = Fresh,
         ~RollsBack(row, s)
  PROVE  Extends(row.state, s) /\ (~row.there => s = Fresh)
<1>1. CASE ~row.there
  <2>1. s = Fresh
    BY <1>1, EmptyIsFresh DEF RollsBack
  <2>2. Fresh \in Snapshot
    BY FreshIsSound DEF Sound
  <2> QED
    BY <1>1, <2>1, <2>2, SelfExtends
<1>2. CASE row.there
  <2> DEFINE r == row.state
  <2>1. /\ s \in Snapshot /\ r \in Snapshot /\ s.chain \in Seq(Event) /\ r.chain \in Seq(Event)
    BY DEF Sound, Snapshot
  <2>2. /\ s.revoked \subseteq r.revoked
        /\ IsPrefix(s.chain, r.chain)
        /\ \A k \in Permit : s.permits[k].fate \in Invalid =>
                               r.permits[k].fate = s.permits[k].fate
    BY <1>2 DEF RollsBack
  <2> HIDE DEF r
  <2>3. /\ Len(s.chain) <= Len(r.chain)
        /\ \A n \in 1 .. Len(s.chain) : s.chain[n] = r.chain[n]
    BY <2>1, <2>2, PrefixMeans
  <2>4. \A n \in DOMAIN s.chain : n \in DOMAIN r.chain /\ s.chain[n] = r.chain[n]
    BY <2>1, <2>3
  <2>5. Coherent(s) /\ Coherent(r)
    BY DEF Sound, r
  <2>6. ASSUME NEW k \in Permit, s.permits[k].fate # "absent"
        PROVE  r.permits[k].fate # "absent" /\ r.permits[k].key = s.permits[k].key
    <3>1. PICK n \in DOMAIN s.chain : IssueAt(s, n, k)
      BY <2>5, <2>6 DEF Coherent
    <3>2. n \in DOMAIN r.chain /\ IssueAt(r, n, k) /\ s.chain[n] = r.chain[n]
      BY <2>4, <3>1 DEF IssueAt
    <3> QED
      BY <2>5, <3>1, <3>2 DEF Coherent
  <2>7. ASSUME NEW k \in Permit, s.permits[k].fate = "consumed"
        PROVE  r.permits[k].fate = "consumed"
    <3>1. PICK n \in DOMAIN s.chain : ExecutionAt(s, n, k)
      BY <2>5, <2>7 DEF Coherent
    <3>2. n \in DOMAIN r.chain /\ ExecutionAt(r, n, k)
      BY <2>4, <3>1 DEF ExecutionAt
    <3> QED
      BY <2>5, <3>2 DEF Coherent
  <2>8. \A k \in Permit : s.permits[k].fate \in Fates
    BY <2>1 DEF Snapshot
  <2>9. Extends(r, s)
    BY <2>2, <2>6, <2>7, <2>8 DEF Extends, Fates, Invalid
  <2> QED
    BY <1>2, <2>9 DEF r
<1> QED
  BY <1>1, <1>2

\* What was true of r stays true of what extends it.
LEMMA StandsOn ==
  ASSUME NEW s \in Snapshot, NEW r \in Snapshot, Extends(s, r),
         NEW a, a.answer \in Answers, a.permit \in Permit, Stands(a, r)
  PROVE  Stands(a, s)
<1>1. /\ r.permits[a.permit].fate \in Fates
      /\ r.permits[a.permit].fate \notin {"absent", "live"} =>
           s.permits[a.permit].fate = r.permits[a.permit].fate
      /\ r.permits[a.permit].fate = "live" => s.permits[a.permit].fate # "absent"
  BY DEF Extends, Snapshot
<1>2. CASE a.answer = "ALLOW"
  BY <1>1, <1>2 DEF Stands
<1>3. CASE a.answer \in {"EXECUTED", "PERMIT_ALREADY_CONSUMED"}
  BY <1>1, <1>3 DEF Stands
<1>4. CASE a.answer = "REFUSAL"
  BY <1>1, <1>4 DEF Stands
<1>5. CASE a.answer \in Invalid
  BY <1>1, <1>5 DEF Stands, Invalid
<1> QED
  BY <1>2, <1>3, <1>4, <1>5 DEF Answers

-----------------------------------------------------------------------------
(* The inductive invariant *)

StoreSound ==
  /\ Sound(file.state) /\ (~file.there => file.state = Fresh)
  /\ Sound(backup.state) /\ (~backup.there => backup.state = Fresh)

\* A process between calls holds a snapshot that was once in the file and the
\* registry it was told; inside a call it works on what is in the file now.
ProcessSound(p) ==
  /\ Sound(held[p].state)
  /\ life[p] = "IDLE" => Registered(held[p], vested[p])
  /\ life[p] = "IN_CALL" =>
       /\ writer = p
       /\ call[p].before.state = file.state
       /\ Registered(call[p].before, vested[p])
       /\ Proper(call[p].before, vested[p], held[p], call[p].tells)

ExecutionsCounted ==
  \A k \in Permit :
    done[k] <= era + (IF file.state.permits[k].fate = "consumed" THEN 1 ELSE 0)

IInv ==
  /\ TypeOK
  /\ StoreSound
  /\ \A p \in Process : ProcessSound(p)
  /\ AnswersStand
  /\ ExecutionsCounted

LEMMA Undisturbed ==
  ASSUME NEW q \in Process, ProcessSound(q),
         held'[q] = held[q], life'[q] = life[q], call'[q] = call[q],
         vested'[q] = vested[q],
         life[q] = "IN_CALL" => writer' = writer /\ file' = file
  PROVE  ProcessSound(q)'
BY DEF ProcessSound

LEMMA InitSound ==
  ASSUME Init
  PROVE  IInv
<1> USE StoreAssumption
<1>1. Sound(Fresh) /\ Fresh \in Snapshot
  BY FreshIsSound DEF Sound
<1>2. NoRow \in Row /\ NoRow.state = Fresh
  BY <1>1 DEF NoRow, Row
<1>3. Unloaded \in Holding /\ Unloaded.state = Fresh
  BY <1>1 DEF Unloaded, Holding
<1>4. NoCall \in [before: Holding, tells: Told]
  BY <1>3 DEF NoCall, Told, Silence, Tells
<1>5. TypeOK
  BY <1>2, <1>3, <1>4 DEF Init, TypeOK, Told
<1>6. StoreSound
  BY <1>1, <1>2 DEF Init, StoreSound
<1>7. \A p \in Process : ProcessSound(p)
  BY <1>1, <1>3 DEF Init, ProcessSound
<1>8. AnswersStand /\ ExecutionsCounted
  BY DEF Init, AnswersStand, ExecutionsCounted
<1> QED
  BY <1>5, <1>6, <1>7, <1>8 DEF IInv

\* What a process works on, once it has loaded the row.
LEMMA AdoptedIs ==
  ASSUME IInv, NEW p \in Process, life[p] = "IDLE",
         ~RollsBack(file, held[p].state), Restorable(file, held[p])
  PROVE  /\ Adopted(p) \in Holding /\ Adopted(p).state = file.state
         /\ Registered(Adopted(p), vested[p])
         /\ Extends(file.state, held[p].state)
<1>1. /\ file \in Row /\ held[p] \in Holding /\ Sound(held[p].state) /\ Sound(file.state)
      /\ ~file.there => file.state = Fresh
      /\ Registered(held[p], vested[p])
  BY DEF IInv, TypeOK, StoreSound, ProcessSound
<1>2. Extends(file.state, held[p].state) /\ (~file.there => held[p].state = Fresh)
  BY <1>1, NotRolledBack
<1>3. CASE ~file.there
  BY <1>1, <1>2, <1>3 DEF Adopted, Restored
<1>4. CASE file.there
  <2>1. Adopted(p) = [state |-> file.state, signer |-> held[p].signer,
                      verifiers |-> held[p].verifiers \ file.state.revoked]
    BY <1>4 DEF Adopted, Restored
  <2>2. Adopted(p) \in Holding
    BY <1>1, <2>1 DEF Row, Holding
  <2>3. held[p].state.revoked \subseteq file.state.revoked
    BY <1>2 DEF Extends
  <2>4. Registered(Adopted(p), vested[p])
    BY <1>1, <2>1, <2>3 DEF Registered, Restorable
  <2> QED
    BY <1>2, <2>1, <2>2, <2>4
<1> QED
  BY <1>3, <1>4

-----------------------------------------------------------------------------
(* Every step keeps the invariant *)

LEMMA CallSound ==
  ASSUME IInv, NEW p \in Process, NEW m \in Methods, Call(p, m)
  PROVE  IInv'
<1> DEFINE h == Adopted(p)
           ran == Run(h, m)
<1>1. /\ life[p] = "IDLE" /\ writer = None
      /\ ~RollsBack(file, held[p].state) /\ Restorable(file, held[p])
      /\ UNCHANGED <<file, backup, era, due, told, done, vested>>
  BY DEF Call
<1>2. /\ h \in Holding /\ h.state = file.state /\ Registered(h, vested[p])
  BY <1>1, AdoptedIs
<1>3. /\ Sound(h.state) /\ era \in Nat /\ TypeOK
  BY <1>2 DEF IInv, StoreSound, TypeOK
<1>4. \A q \in Process : ProcessSound(q)
  BY DEF IInv
<1>5. /\ StoreSound' /\ AnswersStand' /\ ExecutionsCounted'
  BY <1>1 DEF IInv, StoreSound, AnswersStand, ExecutionsCounted
<1>6. \A q \in Process : life[q] # "IN_CALL"
  BY <1>1, <1>4, StoreAssumption DEF ProcessSound
<1>7. CASE ran.halts
  <2>1. held' = [held EXCEPT ![p] = h] /\ UNCHANGED <<writer, life, call>>
    BY <1>7 DEF Call
  <2> HIDE DEF h
  <2>2. TypeOK'
    BY <1>1, <1>2, <1>3, <2>1 DEF TypeOK
  <2>3. ASSUME NEW q \in Process PROVE ProcessSound(q)'
    <3>1. CASE q = p
      BY <1>1, <1>2, <1>3, <2>1, <3>1 DEF ProcessSound, TypeOK
    <3>2. CASE q # p
      <4>1. held'[q] = held[q]
        BY <2>1, <3>2
      <4> QED
        BY <1>1, <1>4, <2>1, <4>1, Undisturbed
    <3> QED
      BY <3>1, <3>2
  <2> QED
    BY <1>5, <2>2, <2>3 DEF IInv
<1>8. CASE ~ran.halts
  <2>1. /\ writer' = p
        /\ life' = [life EXCEPT ![p] = "IN_CALL"]
        /\ held' = [held EXCEPT ![p] = ran.holding]
        /\ call' = [call EXCEPT ![p] = [before |-> h, tells |-> ran.tells]]
    BY <1>8 DEF Call
  <2> HIDE DEF h
  <2>2. Proper(h, vested[p], ran.holding, ran.tells)
    BY <1>2, <1>3, <1>8, MethodsAreProper
  <2>3. ran.holding \in Holding /\ ran.tells \in Told
    BY <2>2 DEF Proper, TrueOf
  <2>4. Sound(ran.holding.state)
    BY <1>3, <2>2, SoundStaysSound DEF Proper
  <2> HIDE DEF ran
  <2>5. TypeOK'
    BY <1>1, <1>2, <1>3, <2>1, <2>3 DEF TypeOK, Told
  <2>6. /\ held'[p] = ran.holding /\ life'[p] = "IN_CALL"
        /\ call'[p] = [before |-> h, tells |-> ran.tells]
    BY <1>3, <2>1 DEF TypeOK
  <2>7. ASSUME NEW q \in Process PROVE ProcessSound(q)'
    <3>1. CASE q = p
      <4>1. /\ call'[p].before = h /\ call'[p].tells = ran.tells
        BY <2>6
      <4>2. writer' = p /\ vested'[p] = vested[p] /\ file' = file
        BY <1>1, <2>1
      <4>3. Proper(call'[p].before, vested'[p], held'[p], call'[p].tells)
        BY <2>2, <2>6, <4>1, <4>2
      <4>4. Registered(call'[p].before, vested'[p]) /\ call'[p].before.state = file'.state
        BY <1>2, <4>1, <4>2
      <4>5. Sound(held'[p].state)
        BY <2>4, <2>6
      <4> QED
        BY <2>6, <3>1, <4>2, <4>3, <4>4, <4>5 DEF ProcessSound
    <3>2. CASE q # p
      <4>1. held'[q] = held[q] /\ life'[q] = life[q] /\ call'[q] = call[q]
        BY <2>1, <3>2
      <4> QED
        BY <1>1, <1>4, <1>6, <4>1, Undisturbed
    <3> QED
      BY <3>1, <3>2
  <2> QED
    BY <1>5, <2>5, <2>7 DEF IInv
<1> QED
  BY <1>7, <1>8

\* What the end of a call finds.
LEMMA CallIs ==
  ASSUME IInv, NEW p \in Process, life[p] = "IN_CALL"
  PROVE  /\ writer = p
         /\ call[p].before \in Holding /\ call[p].before.state = file.state
         /\ Registered(call[p].before, vested[p])
         /\ Proper(call[p].before, vested[p], held[p], call[p].tells)
         /\ Sound(file.state) /\ Sound(held[p].state)
         /\ Advances(file.state, held[p].state)
         /\ Extends(held[p].state, file.state)
         /\ \A q \in Process \ {p} : life[q] # "IN_CALL"
<1>1. /\ ProcessSound(p) /\ Sound(file.state) /\ call[p].before \in Holding
      /\ \A q \in Process : ProcessSound(q)
  BY DEF IInv, StoreSound, TypeOK
<1>2. /\ writer = p /\ call[p].before.state = file.state
      /\ Registered(call[p].before, vested[p])
      /\ Proper(call[p].before, vested[p], held[p], call[p].tells)
      /\ Sound(held[p].state)
  BY <1>1 DEF ProcessSound
<1>3. Advances(file.state, held[p].state)
  BY <1>2 DEF Proper
<1>4. Extends(held[p].state, file.state)
  BY <1>1, <1>3, SoundStaysSound
<1>5. \A q \in Process \ {p} : life[q] # "IN_CALL"
  BY <1>1, <1>2 DEF ProcessSound
<1> QED
  BY <1>1, <1>2, <1>3, <1>4, <1>5

\* The commit: the file takes the line of the call one step on.
LEMMA CommitSound ==
  ASSUME IInv, NEW p \in Process, life[p] = "IN_CALL", Commits(p),
         backup' = backup, era' = era
  PROVE  /\ StoreSound' /\ ExecutionsCounted' /\ done' \in [Permit -> Nat]
         /\ file' \in Row /\ file'.state = held[p].state
         /\ \A a \in told : Stands(a, file'.state)
<1> DEFINE r == file.state
           s == held[p].state
<1>1. /\ Sound(r) /\ Sound(s) /\ Extends(s, r) /\ call[p].before.state = r
      /\ r \in Snapshot /\ s \in Snapshot
  BY CallIs DEF Sound
<1>2. /\ file' = [there |-> TRUE, state |-> s]
      /\ done' = [k \in Permit |-> IF Executes(p, k) THEN done[k] + 1 ELSE done[k]]
  BY DEF Commits, Saves, RowOf
<1>3. /\ done \in [Permit -> Nat] /\ era \in Nat
      /\ \A a \in told : a.answer \in Answers /\ a.permit \in Permit /\ Stands(a, r)
      /\ \A k \in Permit :
           done[k] <= era + (IF r.permits[k].fate = "consumed" THEN 1 ELSE 0)
  BY DEF IInv, TypeOK, AnswersStand, ExecutionsCounted
<1>4. file' \in Row /\ file'.state = s /\ file'.there
  BY <1>1, <1>2 DEF Row
<1>5. StoreSound'
  BY <1>1, <1>4 DEF IInv, StoreSound
<1>6. \A a \in told : Stands(a, file'.state)
  <2>1. \A a \in told : Stands(a, s)
    BY <1>1, <1>3, StandsOn
  <2> QED
    BY <1>4, <2>1
<1>7. ASSUME NEW k \in Permit
      PROVE  /\ done'[k] \in Nat
             /\ done'[k] <= era' + (IF file'.state.permits[k].fate = "consumed" THEN 1 ELSE 0)
  <2>1. Executes(p, k) <=> r.permits[k].fate # "consumed" /\ s.permits[k].fate = "consumed"
    BY <1>1 DEF Executes
  <2>2. r.permits[k].fate = "consumed" => s.permits[k].fate = "consumed"
    BY <1>1 DEF Extends
  <2>3. done'[k] = IF Executes(p, k) THEN done[k] + 1 ELSE done[k]
    BY <1>2
  <2>4. done[k] \in Nat
        /\ done[k] <= era + (IF r.permits[k].fate = "consumed" THEN 1 ELSE 0)
    BY <1>3
  <2>5. file'.state.permits[k].fate = s.permits[k].fate
    BY <1>4
  <2> HIDE DEF r, s
  <2> QED
    BY <1>3, <2>1, <2>2, <2>3, <2>4, <2>5
<1>8. done' \in [Permit -> Nat]
  BY <1>2, <1>3
<1>9. ExecutionsCounted'
  BY <1>7 DEF ExecutionsCounted
<1> QED
  BY <1>4, <1>5, <1>6, <1>8, <1>9

LEMMA AnswerSound ==
  ASSUME IInv, NEW p \in Process, Answer(p)
  PROVE  IInv'
<1> DEFINE a == call[p].tells
<1>1. /\ life[p] = "IN_CALL" /\ Commits(p) /\ writer' = None
      /\ call' = [call EXCEPT ![p] = NoCall] /\ life' = [life EXCEPT ![p] = "IDLE"]
      /\ told' = told \cup ({a} \ {Silence})
      /\ vested' = [vested EXCEPT ![p] = @ \cup {held[p].signer}]
      /\ UNCHANGED <<backup, era, due, held>>
  BY DEF Answer, Ends
<1>2. TypeOK /\ \A q \in Process : ProcessSound(q)
  BY DEF IInv
<1>3. /\ StoreSound' /\ ExecutionsCounted' /\ done' \in [Permit -> Nat]
      /\ file' \in Row /\ file'.state = held[p].state
      /\ \A b \in told : Stands(b, file'.state)
  BY <1>1, CommitSound
<1>4. Proper(call[p].before, vested[p], held[p], a) /\ Sound(held[p].state)
  BY <1>1, CallIs
<1>5. NoCall \in [before: Holding, tells: Told]
  BY FreshIsSound DEF NoCall, Told, Silence, Tells, Unloaded, Holding, Sound
<1>6. a # Silence => a.answer \in Answers /\ a.permit \in Permit /\ Stands(a, held[p].state)
  BY <1>4 DEF Proper, TrueOf
<1> HIDE DEF a
<1>7. \A b \in told' : b.answer \in Answers /\ b.permit \in Permit /\ Stands(b, file'.state)
  BY <1>1, <1>2, <1>3, <1>6 DEF TypeOK
<1>8. TypeOK'
  <2>1. held[p].signer \in Key
    BY <1>2, <1>4 DEF TypeOK, Proper, Registered, Holding
  <2>2. vested' \in [Process -> SUBSET Key]
    BY <1>1, <1>2, <2>1 DEF TypeOK
  <2> QED
    BY <1>1, <1>2, <1>3, <1>5, <1>7, <2>2 DEF TypeOK, Told
<1>9. ASSUME NEW q \in Process PROVE ProcessSound(q)'
  <2>1. CASE q = p
    <3>1. /\ held'[p] = held[p] /\ life'[p] = "IDLE"
          /\ vested'[p] = vested[p] \cup {held[p].signer}
      BY <1>1, <1>2 DEF TypeOK
    <3>2. Registered(held'[p], vested'[p]) /\ Sound(held'[p].state)
      BY <1>4, <3>1 DEF Proper
    <3> QED
      BY <2>1, <3>1, <3>2 DEF ProcessSound
  <2>2. CASE q # p
    <3>1. /\ held'[q] = held[q] /\ life'[q] = life[q] /\ call'[q] = call[q]
          /\ vested'[q] = vested[q]
      BY <1>1, <1>2, <2>2 DEF TypeOK
    <3>2. life[q] # "IN_CALL"
      BY <1>1, <2>2, CallIs
    <3> QED
      BY <1>2, <3>1, <3>2, Undisturbed
  <2> QED
    BY <2>1, <2>2
<1>10. AnswersStand'
  BY <1>7 DEF AnswersStand
<1> QED
  BY <1>3, <1>8, <1>9, <1>10 DEF IInv

\* The memory goes back, whether or not the file went on.
LEMMA UndoneSound ==
  ASSUME IInv, NEW p \in Process, Fail(p) \/ Interrupt(p)
  PROVE  IInv'
<1>1. /\ life[p] = "IN_CALL" /\ writer' = None
      /\ call' = [call EXCEPT ![p] = NoCall] /\ life' = [life EXCEPT ![p] = "IDLE"]
      /\ held' = [held EXCEPT ![p] = call[p].before]
      /\ UNCHANGED <<backup, era, due, told, vested>>
  BY DEF Fail, Interrupt, Ends, Undone
<1>2. TypeOK /\ \A q \in Process : ProcessSound(q)
  BY DEF IInv
<1>3. /\ StoreSound' /\ ExecutionsCounted' /\ done' \in [Permit -> Nat]
      /\ file' \in Row
      /\ \A b \in told : Stands(b, file'.state)
  <2>1. CASE Fail(p)
    <3>1. file' = file /\ done' = done
      BY <2>1 DEF Fail
    <3> QED
      BY <1>1, <1>2, <3>1
         DEF IInv, TypeOK, StoreSound, ExecutionsCounted, AnswersStand
  <2>2. CASE Interrupt(p)
    <3>1. Commits(p)
      BY <2>2 DEF Interrupt
    <3> QED
      BY <1>1, <3>1, CommitSound
  <2> QED
    BY <2>1, <2>2
<1>4. /\ call[p].before \in Holding /\ call[p].before.state = file.state
      /\ Registered(call[p].before, vested[p]) /\ Sound(file.state)
  BY <1>1, CallIs
<1>5. NoCall \in [before: Holding, tells: Told]
  BY FreshIsSound DEF NoCall, Told, Silence, Tells, Unloaded, Holding, Sound
<1>6. TypeOK'
  BY <1>1, <1>2, <1>3, <1>4, <1>5 DEF TypeOK, Told
<1>7. ASSUME NEW q \in Process PROVE ProcessSound(q)'
  <2>1. CASE q = p
    <3>1. held'[p] = call[p].before /\ life'[p] = "IDLE" /\ vested'[p] = vested[p]
      BY <1>1, <1>2 DEF TypeOK
    <3> QED
      BY <1>4, <2>1, <3>1 DEF ProcessSound
  <2>2. CASE q # p
    <3>1. /\ held'[q] = held[q] /\ life'[q] = life[q] /\ call'[q] = call[q]
          /\ vested'[q] = vested[q]
      BY <1>1, <1>2, <2>2 DEF TypeOK
    <3>2. life[q] # "IN_CALL"
      BY <1>1, <2>2, CallIs
    <3> QED
      BY <1>2, <3>1, <3>2, Undisturbed
  <2> QED
    BY <2>1, <2>2
<1>8. AnswersStand'
  BY <1>1, <1>3 DEF AnswersStand
<1> QED
  BY <1>3, <1>6, <1>7, <1>8 DEF IInv

LEMMA ReadSound ==
  ASSUME IInv, NEW p \in Process, Read(p)
  PROVE  IInv'
<1>1. /\ life[p] = "IDLE" /\ ~RollsBack(file, held[p].state) /\ Restorable(file, held[p])
      /\ held' = [held EXCEPT ![p] = Adopted(p)]
      /\ UNCHANGED <<file, backup, era, writer, life, call, due, told, done, vested>>
  BY DEF Read
<1>2. /\ Adopted(p) \in Holding /\ Adopted(p).state = file.state
      /\ Registered(Adopted(p), vested[p]) /\ Sound(file.state) /\ TypeOK
      /\ \A q \in Process : ProcessSound(q)
  BY <1>1, AdoptedIs DEF IInv, StoreSound
<1>3. TypeOK'
  BY <1>1, <1>2 DEF TypeOK
<1>4. StoreSound' /\ AnswersStand' /\ ExecutionsCounted'
  BY <1>1 DEF IInv, StoreSound, AnswersStand, ExecutionsCounted
<1>5. ASSUME NEW q \in Process PROVE ProcessSound(q)'
  <2>1. CASE q = p
    <3>1. held'[p] = Adopted(p) /\ life'[p] = "IDLE" /\ vested'[p] = vested[p]
      BY <1>1, <1>2 DEF TypeOK
    <3> QED
      BY <1>2, <2>1, <3>1 DEF ProcessSound
  <2>2. CASE q # p
    <3>1. held'[q] = held[q]
      BY <1>1, <2>2
    <3> QED
      BY <1>1, <1>2, <3>1, Undisturbed
  <2> QED
    BY <2>1, <2>2
<1> QED
  BY <1>3, <1>4, <1>5 DEF IInv

LEMMA StartSound ==
  ASSUME IInv, NEW p \in Process, NEW key \in Key, Start(p, key)
  PROVE  IInv'
<1> DEFINE h == [state |-> Fresh, signer |-> key, verifiers |-> {key}]
           g == Restored(file, h)
<1>1. /\ life[p] = "DOWN" /\ Restorable(file, h)
      /\ life' = [life EXCEPT ![p] = "IDLE"]
      /\ held' = [held EXCEPT ![p] = g]
      /\ vested' = [vested EXCEPT ![p] = {key}]
      /\ UNCHANGED <<file, backup, era, writer, call, due, told, done>>
  BY DEF Start
<1>2. /\ TypeOK /\ Sound(file.state) /\ Sound(Fresh) /\ Fresh \in Snapshot /\ file \in Row
      /\ \A q \in Process : ProcessSound(q)
  BY FreshIsSound DEF IInv, StoreSound, Sound, TypeOK
<1>3. g \in Holding /\ Sound(g.state) /\ Registered(g, {key})
  <2>1. CASE ~file.there
    <3>1. g = h /\ Fresh.revoked = {}
      BY <2>1 DEF Restored, Fresh
    <3> QED
      BY <1>2, <3>1 DEF Holding, Registered
  <2>2. CASE file.there
    <3>1. g = [state |-> file.state, signer |-> key, verifiers |-> {key} \ file.state.revoked]
      BY <2>2 DEF Restored
    <3>2. key \notin file.state.revoked
      BY <1>1 DEF Restorable
    <3> QED
      BY <1>2, <3>1, <3>2 DEF Holding, Registered, Row
  <2> QED
    BY <2>1, <2>2
<1> HIDE DEF g
<1>4. TypeOK'
  BY <1>1, <1>2, <1>3 DEF TypeOK
<1>5. StoreSound' /\ AnswersStand' /\ ExecutionsCounted'
  BY <1>1 DEF IInv, StoreSound, AnswersStand, ExecutionsCounted
<1>6. ASSUME NEW q \in Process PROVE ProcessSound(q)'
  <2>1. CASE q = p
    <3>1. held'[p] = g /\ life'[p] = "IDLE" /\ vested'[p] = {key}
      BY <1>1, <1>2 DEF TypeOK
    <3> QED
      BY <1>3, <2>1, <3>1 DEF ProcessSound
  <2>2. CASE q # p
    <3>1. held'[q] = held[q] /\ life'[q] = life[q] /\ vested'[q] = vested[q]
      BY <1>1, <2>2
    <3> QED
      BY <1>1, <1>2, <3>1, Undisturbed
  <2> QED
    BY <2>1, <2>2
<1> QED
  BY <1>4, <1>5, <1>6 DEF IInv

LEMMA CrashSound ==
  ASSUME IInv, NEW p \in Process, Crash(p)
  PROVE  IInv'
<1>1. /\ life' = [life EXCEPT ![p] = "DOWN"]
      /\ held' = [held EXCEPT ![p] = Unloaded]
      /\ call' = [call EXCEPT ![p] = NoCall]
      /\ writer' = IF writer = p THEN None ELSE writer
      /\ vested' = [vested EXCEPT ![p] = {}]
      /\ UNCHANGED <<file, backup, era, due, told, done>>
  BY DEF Crash
<1>2. TypeOK /\ \A q \in Process : ProcessSound(q)
  BY DEF IInv
<1>3. /\ Unloaded \in Holding /\ Sound(Unloaded.state)
      /\ NoCall \in [before: Holding, tells: Told]
  BY FreshIsSound DEF NoCall, Told, Silence, Tells, Unloaded, Holding, Sound
<1>4. TypeOK'
  BY <1>1, <1>2, <1>3 DEF TypeOK, Told
<1>5. StoreSound' /\ AnswersStand' /\ ExecutionsCounted'
  BY <1>1 DEF IInv, StoreSound, AnswersStand, ExecutionsCounted
<1>6. ASSUME NEW q \in Process PROVE ProcessSound(q)'
  <2>1. CASE q = p
    <3>1. held'[p] = Unloaded /\ life'[p] = "DOWN"
      BY <1>1, <1>2 DEF TypeOK
    <3> QED
      BY <1>3, <2>1, <3>1 DEF ProcessSound
  <2>2. CASE q # p
    <3>1. /\ held'[q] = held[q] /\ life'[q] = life[q] /\ vested'[q] = vested[q]
          /\ call'[q] = call[q]
      BY <1>1, <2>2
    <3>2. life[q] = "IN_CALL" => writer' = writer
      BY <1>1, <1>2, <2>2 DEF ProcessSound
    <3> QED
      BY <1>1, <1>2, <3>1, <3>2, Undisturbed
  <2> QED
    BY <2>1, <2>2
<1> QED
  BY <1>4, <1>5, <1>6 DEF IInv

LEMMA OutsideSound ==
  ASSUME IInv, \/ \E e \in Range(file.state.chain) : Elapse(e)
               \/ Copy
               \/ Rewind
  PROVE  IInv'
<1>1. /\ TypeOK /\ StoreSound /\ AnswersStand /\ ExecutionsCounted
      /\ \A q \in Process : ProcessSound(q)
  BY DEF IInv
<1>2. ASSUME NEW e \in Range(file.state.chain), Elapse(e)
      PROVE  IInv'
  <2>1. file.state.chain \in Seq(Event)
    BY <1>1 DEF TypeOK, Row, Snapshot
  <2>2. e \in Event
    BY <2>1 DEF Range
  <2>3. /\ due' = due \cup {e}
        /\ UNCHANGED <<file, backup, era, writer, life, held, call, told, done, vested>>
    BY <1>2 DEF Elapse
  <2>4. TypeOK'
    BY <1>1, <2>2, <2>3 DEF TypeOK
  <2>5. StoreSound' /\ AnswersStand' /\ ExecutionsCounted'
    BY <1>1, <2>3 DEF StoreSound, AnswersStand, ExecutionsCounted
  <2>6. \A q \in Process : ProcessSound(q)'
    BY <1>1, <2>3, Undisturbed
  <2> QED
    BY <2>4, <2>5, <2>6 DEF IInv
<1>3. ASSUME Copy
      PROVE  IInv'
  <2>1. /\ backup' = file
        /\ UNCHANGED <<file, era, writer, life, held, call, due, told, done, vested>>
    BY <1>3 DEF Copy
  <2>2. TypeOK'
    BY <1>1, <2>1 DEF TypeOK
  <2>3. StoreSound' /\ AnswersStand' /\ ExecutionsCounted'
    BY <1>1, <2>1 DEF StoreSound, AnswersStand, ExecutionsCounted
  <2>4. \A q \in Process : ProcessSound(q)'
    BY <1>1, <2>1, Undisturbed
  <2> QED
    BY <2>2, <2>3, <2>4 DEF IInv
<1>4. ASSUME Rewind
      PROVE  IInv'
  <2>1. /\ era < MaxRewinds /\ writer = None /\ file' = backup /\ era' = era + 1 /\ told' = {}
        /\ UNCHANGED <<backup, writer, life, held, call, due, done, vested>>
    BY <1>4 DEF Rewind
  <2>2. TypeOK'
    BY <1>1, <2>1, StoreAssumption DEF TypeOK
  <2>3. StoreSound' /\ AnswersStand'
    BY <1>1, <2>1 DEF StoreSound, AnswersStand
  <2>4. ExecutionsCounted'
    <3>1. ASSUME NEW k \in Permit
          PROVE  done'[k] <= era' + (IF file'.state.permits[k].fate = "consumed" THEN 1 ELSE 0)
      <4>1. done[k] \in Nat /\ era \in Nat /\ done[k] <= era + 1
        BY <1>1 DEF TypeOK, ExecutionsCounted
      <4> QED
        BY <2>1, <4>1
    <3> QED
      BY <3>1 DEF ExecutionsCounted
  <2>5. \A q \in Process : life[q] # "IN_CALL"
    BY <1>1, <2>1, StoreAssumption DEF ProcessSound
  <2>6. \A q \in Process : ProcessSound(q)'
    BY <1>1, <2>1, <2>5, Undisturbed
  <2> QED
    BY <2>2, <2>3, <2>4, <2>6 DEF IInv
<1> QED
  BY <1>2, <1>3, <1>4

LEMMA NextSound ==
  ASSUME IInv, [Next]_vars
  PROVE  IInv'
<1>1. ASSUME NEW p \in Process, Engine(p)
      PROVE  IInv'
  BY <1>1, CallSound, AnswerSound, UndoneSound, ReadSound, StartSound, CrashSound DEF Engine
<1>2. CASE UNCHANGED vars
  <2>1. UNCHANGED <<file, backup, era, writer, life, held, call, due, told, done, vested>>
    BY <1>2 DEF vars
  <2>2. /\ TypeOK /\ StoreSound /\ AnswersStand /\ ExecutionsCounted
        /\ \A q \in Process : ProcessSound(q)
    BY DEF IInv
  <2>3. TypeOK'
    BY <2>1, <2>2 DEF TypeOK
  <2>4. StoreSound' /\ AnswersStand' /\ ExecutionsCounted'
    BY <2>1, <2>2 DEF StoreSound, AnswersStand, ExecutionsCounted
  <2>5. \A q \in Process : ProcessSound(q)'
    BY <2>1, <2>2, Undisturbed
  <2> QED
    BY <2>3, <2>4, <2>5 DEF IInv
<1> QED
  BY <1>1, <1>2, OutsideSound DEF Next

\* The inductive invariant of the durable engine, for any processes, permits
\* and keys: a process between calls holds what some row held, inside a call
\* what the row holds now, one method further.
THEOREM Soundness == Spec => []IInv
<1>1. Init => IInv
  BY InitSound
<1>2. IInv /\ [Next]_vars => IInv'
  BY NextSound
<1> QED
  BY <1>1, <1>2, PTL DEF Spec

\* Every variable of the durable engine keeps its type.
THEOREM StoreTypes == Spec => []TypeOK
<1>1. IInv => TypeOK
  BY DEF IInv
<1> QED
  BY <1>1, Soundness, PTL

\* What was acknowledged is stored and stays true, through crashes, failed saves
\* and interrupts of any number of processes.
THEOREM Acknowledged == Spec => []AnswersStand
<1>1. IInv => AnswersStand
  BY DEF IInv
<1> QED
  BY <1>1, Soundness, PTL

\* One execution of a permit, and one more for each old file put back.
THEOREM Once == Spec => []OneExecution
<1>1. IInv => OneExecution
  <2> SUFFICES ASSUME IInv, NEW k \in Permit PROVE done[k] <= 1 + era
    BY DEF OneExecution
  <2>1. done[k] \in Nat /\ era \in Nat
    BY DEF IInv, TypeOK
  <2>2. done[k] <= era + (IF file.state.permits[k].fate = "consumed" THEN 1 ELSE 0)
    BY DEF IInv, ExecutionsCounted
  <2> QED
    BY <2>1, <2>2
<1> QED
  BY <1>1, Soundness, PTL

\* A revoked key is dead in the file, and an idle process accepts the signers it
\* was told are installed, less the revoked ones.
THEOREM Keys == Spec => []KeysSound
<1>1. IInv => KeysSound
  <2> SUFFICES ASSUME IInv PROVE KeysSound
    OBVIOUS
  <2>1. RevokedKeyIsDead
    BY DEF IInv, StoreSound, Sound, Clean, RevokedKeyIsDead
  <2>2. RegistryAsAcknowledged
    BY DEF IInv, ProcessSound, Registered, RegistryAsAcknowledged
  <2> QED
    BY <2>1, <2>2 DEF KeysSound
<1> QED
  BY <1>1, Soundness, PTL

-----------------------------------------------------------------------------
(* What a step does to what a process has seen, and to the file *)

LEMMA UnseesNothing ==
  ASSUME IInv, [Next]_vars, NEW q \in Process, life[q] # "DOWN", life'[q] # "DOWN"
  PROVE  Extends(Seen(q)', Seen(q))
<1>1. /\ TypeOK /\ ProcessSound(q) /\ Sound(file.state)
  BY DEF IInv, StoreSound
<1>2. life[q] \in {"IDLE", "IN_CALL"} /\ life'[q] = life'[q]
  BY <1>1 DEF TypeOK
<1>3. Seen(q) \in Snapshot
  BY <1>1, <1>2 DEF Seen, TypeOK, Holding
<1>4. ASSUME held'[q] = held[q], life'[q] = life[q], call'[q] = call[q]
      PROVE  Extends(Seen(q)', Seen(q))
  <2>1. Seen(q)' = Seen(q)
    BY <1>4 DEF Seen
  <2> QED
    BY <1>3, <2>1, SelfExtends
<1>5. ASSUME NEW p \in Process, Engine(p), p # q
      PROVE  Extends(Seen(q)', Seen(q))
  <2>1. held'[q] = held[q] /\ life'[q] = life[q] /\ call'[q] = call[q]
    <3>1. ASSUME NEW m \in Methods, Call(p, m)
          PROVE  held'[q] = held[q] /\ life'[q] = life[q] /\ call'[q] = call[q]
      <4>1. \/ /\ held' = [held EXCEPT ![p] = Adopted(p)] /\ UNCHANGED <<life, call>>
            \/ \E g, c : /\ life' = [life EXCEPT ![p] = "IN_CALL"]
                         /\ held' = [held EXCEPT ![p] = g]
                         /\ call' = [call EXCEPT ![p] = c]
        BY <3>1 DEF Call
      <4> QED
        BY <1>1, <1>5, <4>1 DEF TypeOK
    <3>2. ASSUME Answer(p) \/ Fail(p) \/ Interrupt(p)
          PROVE  held'[q] = held[q] /\ life'[q] = life[q] /\ call'[q] = call[q]
      BY <1>1, <1>5, <3>2 DEF Answer, Fail, Interrupt, Ends, TypeOK
    <3>3. ASSUME Read(p) \/ (\E key \in Key : Start(p, key)) \/ Crash(p)
          PROVE  held'[q] = held[q] /\ life'[q] = life[q] /\ call'[q] = call[q]
      BY <1>1, <1>5, <3>3 DEF Read, Start, Crash, TypeOK
    <3> QED
      BY <1>5, <3>1, <3>2, <3>3 DEF Engine
  <2> QED
    BY <1>4, <2>1
<1>6. ASSUME life[q] = "IDLE", held'[q].state = file.state,
             life'[q] # "IN_CALL",
             ~RollsBack(file, held[q].state), Restorable(file, held[q])
      PROVE  Extends(Seen(q)', Seen(q))
  <2>1. Seen(q) = held[q].state /\ Seen(q)' = file.state
    BY <1>6 DEF Seen
  <2>2. Extends(file.state, held[q].state)
    BY <1>6, AdoptedIs
  <2> QED
    BY <2>1, <2>2
<1>7. ASSUME NEW m \in Methods, Call(q, m)
      PROVE  Extends(Seen(q)', Seen(q))
  <2>1. life[q] = "IDLE" /\ ~RollsBack(file, held[q].state) /\ Restorable(file, held[q])
    BY <1>7 DEF Call
  <2>2. Adopted(q).state = file.state
    BY <2>1, AdoptedIs
  <2>3. CASE held' = [held EXCEPT ![q] = Adopted(q)] /\ UNCHANGED life
    <3>1. held'[q].state = file.state /\ life'[q] # "IN_CALL"
      BY <1>1, <2>1, <2>2, <2>3 DEF TypeOK
    <3> QED
      BY <1>6, <2>1, <3>1
  <2>4. ASSUME NEW tells, life' = [life EXCEPT ![q] = "IN_CALL"],
               call' = [call EXCEPT ![q] = [before |-> Adopted(q), tells |-> tells]]
        PROVE  Extends(Seen(q)', Seen(q))
    <3>1. life'[q] = "IN_CALL" /\ call'[q].before = Adopted(q)
      BY <1>1, <2>4 DEF TypeOK
    <3>2. Seen(q) = held[q].state /\ Seen(q)' = file.state
      BY <2>1, <2>2, <3>1 DEF Seen
    <3>3. Extends(file.state, held[q].state)
      BY <2>1, AdoptedIs
    <3> QED
      BY <3>2, <3>3
  <2> QED
    BY <1>7, <2>3, <2>4 DEF Call
<1>8. ASSUME Answer(q)
      PROVE  Extends(Seen(q)', Seen(q))
  <2>1. life[q] = "IN_CALL" /\ life'[q] = "IDLE" /\ held' = held
    BY <1>1, <1>8 DEF Answer, Ends, TypeOK
  <2>2. Extends(held[q].state, file.state) /\ call[q].before.state = file.state
    BY <2>1, CallIs
  <2>3. Seen(q) = file.state /\ Seen(q)' = held[q].state
    BY <2>1, <2>2 DEF Seen
  <2> QED
    BY <2>2, <2>3
<1>9. ASSUME Fail(q) \/ Interrupt(q)
      PROVE  Extends(Seen(q)', Seen(q))
  <2>1. life[q] = "IN_CALL" /\ life'[q] = "IDLE" /\ held'[q] = call[q].before
    BY <1>1, <1>9 DEF Fail, Interrupt, Ends, Undone, TypeOK
  <2>2. Seen(q)' = Seen(q)
    BY <2>1 DEF Seen
  <2> QED
    BY <1>3, <2>2, SelfExtends
<1>10. ASSUME Read(q)
       PROVE  Extends(Seen(q)', Seen(q))
  <2>1. /\ life[q] = "IDLE" /\ ~RollsBack(file, held[q].state) /\ Restorable(file, held[q])
        /\ held'[q] = Adopted(q) /\ life' = life
    BY <1>1, <1>10 DEF Read, TypeOK
  <2>2. Adopted(q).state = file.state
    BY <2>1, AdoptedIs
  <2> QED
    BY <1>6, <2>1, <2>2
<1>11. ASSUME Crash(q) \/ \E key \in Key : Start(q, key)
       PROVE  FALSE
  BY <1>1, <1>11 DEF Crash, Start, TypeOK
<1>12. ASSUME Engine(q)
       PROVE  Extends(Seen(q)', Seen(q))
  BY <1>7, <1>8, <1>9, <1>10, <1>11, <1>12 DEF Engine
<1>13. ASSUME \/ \E e \in Range(file.state.chain) : Elapse(e)
              \/ Copy
              \/ Rewind
              \/ UNCHANGED vars
       PROVE  Extends(Seen(q)', Seen(q))
  <2>1. held' = held /\ life' = life /\ call' = call
    BY <1>13 DEF Elapse, Copy, Rewind, vars
  <2> QED
    BY <1>4, <2>1
<1> QED
  BY <1>5, <1>12, <1>13 DEF Next

\* A process that runs on never unsees anything, whatever row is put into the
\* file and whatever fails.
THEOREM Unforgetting == Spec => NeverUnsees
<1>1. IInv /\ [Next]_vars =>
        [\A p \in Process :
           life[p] # "DOWN" /\ life'[p] # "DOWN" => Extends(Seen(p)', Seen(p))]_vars
  BY UnseesNothing
<1> QED
  BY <1>1, Soundness, PTL DEF Spec, NeverUnsees

LEMMA AdvancesIsBookStep ==
  ASSUME IInv, Sound(file.state), Advances(file.state, file'.state)
  PROVE  Book!BookNext
<1> DEFINE s == file.state
           t == file'.state
           f == [k \in Permit |-> s.permits[k].fate]
           g == [k \in Permit |-> t.permits[k].fate]
           u == [k \in Permit |-> s.permits[k].key]
           v == [k \in Permit |-> t.permits[k].key]
<1>1. /\ s \in Snapshot /\ t \in Snapshot /\ Clean(s) /\ Sound(t) /\ Extends(t, s)
  BY SoundStaysSound DEF Sound, Advances
<1>2. PICK S \in SUBSET Permit :
        \/ \E k \in Permit, key \in Key : Issues(s, t, k, key, S)
        \/ \E k \in Permit : Spends(s, t, k)
        \/ Settles(s, t, S)
        \/ \E key \in Key : Strikes(s, t, key, S)
  BY DEF Advances
<1>3. /\ Book!Lapse(S) = [k \in Permit |-> Lapse(s, S, k).fate]
      /\ \A k \in Permit : Lapse(s, S, k).key = s.permits[k].key
  <2>1. Book!Lapse(S) = [k \in Permit |-> IF k \in S /\ f[k] = "live"
                                          THEN "PERMIT_EXPIRED" ELSE f[k]]
    BY DEF Book!Lapse, Book!Live
  <2>2. \A k \in Permit : Lapse(s, S, k).fate = IF k \in S /\ f[k] = "live"
                                                THEN "PERMIT_EXPIRED" ELSE f[k]
    BY DEF Lapse
  <2> QED
    BY <1>1, <2>1, <2>2, LapseIs
<1>4. ASSUME NEW k \in Permit, NEW key \in Key, Issues(s, t, k, key, S)
      PROVE  Book!Issue(k, key, S)
  <2>1. /\ f[k] = "absent" /\ key \notin s.revoked /\ t.revoked = s.revoked
        /\ \A l \in Permit :
             t.permits[l] = IF l = k THEN [fate |-> "live", key |-> key] ELSE Lapse(s, S, l)
    BY <1>4 DEF Issues
  <2>2. g = [Book!Lapse(S) EXCEPT ![k] = "live"]
    BY <1>3, <2>1
  <2>3. v = [u EXCEPT ![k] = key]
    <3>1. \A l \in Permit : t.permits[l].key = IF l = k THEN key ELSE s.permits[l].key
      BY <1>3, <2>1
    <3> QED
      BY <3>1
  <2> QED
    BY <2>1, <2>2, <2>3 DEF Book!Issue
<1>5. ASSUME NEW k \in Permit, Spends(s, t, k)
      PROVE  Book!Execute(k)
  <2>1. /\ f[k] = "live" /\ t.revoked = s.revoked /\ u[k] \notin s.revoked
        /\ \A l \in Permit :
             t.permits[l] = IF l = k THEN [fate |-> "consumed", key |-> s.permits[l].key]
                            ELSE s.permits[l]
    BY <1>1, <1>5 DEF Spends, Clean
  <2>2. /\ \A l \in Permit :
             t.permits[l].fate = IF l = k THEN "consumed" ELSE s.permits[l].fate
        /\ \A l \in Permit : t.permits[l].key = s.permits[l].key
    <3>1. t.permits[k] = [fate |-> "consumed", key |-> s.permits[k].key]
      BY <2>1
    <3>2. ASSUME NEW l \in Permit, l # k PROVE t.permits[l] = s.permits[l]
      BY <2>1, <3>2
    <3> QED
      BY <3>1, <3>2
  <2>3. g = [f EXCEPT ![k] = "consumed"]
    BY <2>2
  <2>4. v = u
    BY <2>2
  <2> QED
    BY <2>1, <2>3, <2>4 DEF Book!Execute
<1>6. ASSUME Settles(s, t, S)
      PROVE  Book!Expire(S)
  <2>1. t.revoked = s.revoked /\ \A l \in Permit : t.permits[l] = Lapse(s, S, l)
    BY <1>6 DEF Settles
  <2>2. g = Book!Lapse(S) /\ v = u
    BY <1>3, <2>1
  <2> QED
    BY <2>1, <2>2 DEF Book!Expire
<1>7. ASSUME NEW key \in Key, Strikes(s, t, key, S)
      PROVE  Book!Revoke(key, S)
  <2>1. /\ t.revoked = s.revoked \cup {key}
        /\ \A l \in Permit :
             t.permits[l] = IF Lapse(s, S, l).fate = "live" /\ s.permits[l].key = key
                            THEN [fate |-> "PERMIT_KEY_REVOKED", key |-> key]
                            ELSE Lapse(s, S, l)
    BY <1>7 DEF Strikes
  <2>2. g = [k \in Permit |-> IF Book!Lapse(S)[k] = "live" /\ u[k] = key
                              THEN "PERMIT_KEY_REVOKED" ELSE Book!Lapse(S)[k]]
    BY <1>3, <2>1
  <2>3. v = u
    <3>1. \A l \in Permit : t.permits[l].key = s.permits[l].key
      BY <1>3, <2>1
    <3> QED
      BY <3>1
  <2> QED
    BY <2>1, <2>2, <2>3 DEF Book!Revoke
<1> QED
  BY <1>2, <1>4, <1>5, <1>6, <1>7 DEF Book!BookNext

\* The processes together are one serial engine, between one restore of an older
\* file and the next.
THEOREM Refinement == Spec => Implements
<1>1. Init => Book!BookInit
  BY DEF Init, Book!BookInit, NoRow, Fresh
<1>2. IInv /\ [Next]_vars => [Book!BookNext \/ era' # era]_<<file, era>>
  <2> SUFFICES ASSUME IInv, [Next]_vars
               PROVE  Book!BookNext \/ era' # era \/ UNCHANGED <<file, era>>
    OBVIOUS
  <2>1. era \in Nat
    BY DEF IInv, TypeOK
  <2>2. ASSUME NEW p \in Process, Answer(p) \/ Interrupt(p)
        PROVE  Book!BookNext
    <3>1. life[p] = "IN_CALL" /\ file' = RowOf(held[p].state)
      BY <2>2 DEF Answer, Interrupt, Ends, Commits, Saves
    <3>2. file'.state = held[p].state
      BY <3>1 DEF RowOf
    <3>3. Sound(file.state) /\ Advances(file.state, held[p].state)
      BY <3>1, CallIs
    <3> QED
      BY <3>2, <3>3, AdvancesIsBookStep
  <2>3. ASSUME NEW p \in Process,
               \/ \E m \in Methods : Call(p, m)
               \/ Fail(p) \/ Read(p) \/ Crash(p)
               \/ \E key \in Key : Start(p, key)
        PROVE  UNCHANGED <<file, era>>
    BY <2>3 DEF Call, Fail, Ends, Read, Crash, Start
  <2>4. ASSUME \/ \E e \in Range(file.state.chain) : Elapse(e)
               \/ Copy
               \/ UNCHANGED vars
        PROVE  UNCHANGED <<file, era>>
    BY <2>4 DEF Elapse, Copy, vars
  <2>5. ASSUME Rewind
        PROVE  era' # era
    BY <2>1, <2>5 DEF Rewind
  <2> QED
    BY <2>2, <2>3, <2>4, <2>5 DEF Next, Engine
<1> QED
  BY <1>1, <1>2, Soundness, PTL DEF Spec, Implements
=============================================================================
