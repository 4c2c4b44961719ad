-------------------------- MODULE HttpAdapterProofs --------------------------
(***************************************************************************)
(* HttpAdapter for any number of threads, clients' requests and faults:    *)
(* type correctness, that a client without the scope learns the route and  *)
(* nothing else, and that what a status says of a request is true when it  *)
(* goes out and stays true.                                                *)
(*                                                                         *)
(* Between the engine's call and the answer other threads act.  What they  *)
(* cannot undo is Grows: identifiers, keys and executions once recorded.   *)
(* That 201 goes out once is about pairs of threads: of those that hold a  *)
(* creation, no two hold the same, and none holds one that was answered.   *)
(***************************************************************************)
EXTENDS HttpAdapter, TLAPS

-----------------------------------------------------------------------------
(* The checks of the wire *)

\* The faults by their names.
Named ==
  {"no route", "scope absent", "scope wrong", "length", "too large", "no stream",
   "not text", "nesting", "not json", "not object", "no validator", "schema",
   "other profile", "other declaration", "key absent", "other key"}

LEMMA Concatenated ==
  ASSUME NEW S, NEW p \in Seq(S), NEW q \in Seq(S)
  PROVE  /\ p \o q \in Seq(S) /\ Len(p \o q) >= Len(p)
         /\ \A n \in 1 .. Len(p) : (p \o q)[n] = p[n]
<1>1. p \o q \in Seq(S)
  OBVIOUS
<1>2. Len(p \o q) = Len(p) + Len(q)
  OBVIOUS
<1>3. \A n \in 1 .. Len(p) : (p \o q)[n] = p[n]
  OBVIOUS
<1> QED
  BY <1>1, <1>2, <1>3

LEMMA PositionType ==
  ASSUME NEW S, NEW q \in Seq(S), NEW n \in DOMAIN q
  PROVE  n \in Nat \ {0}
OBVIOUS

LEMMA Ordinals ==
  ASSUME NEW n \in Nat \ {0}
  PROVE  /\ ~(1 <= n - 1) => n = 1
         /\ ~(2 <= n - 1) => n = 1 \/ n = 2
         /\ ~(3 <= n - 1) => n = 1 \/ n = 2 \/ n = 3
OBVIOUS

LEMMA ChecksAre ==
  ASSUME NEW op \in Operation
  PROVE  /\ Checks(op) \in Seq(Named)
         /\ Checks(op)[1] = "no route"
         /\ Checks(op)[2] = "scope absent"
         /\ Checks(op)[3] = "scope wrong"
<1>1. Arrival \in Seq(Named) /\ Len(Arrival) = 3
  BY DEF Arrival, Named
<1>2. Body \in Seq(Named)
  BY DEF Body, Named
<1>3. Bindings[op] \in Seq(Named)
  <2>1. <<"other profile", "other declaration">> \in Seq(Named)
    BY DEF Named
  <2>2. <<"key absent", "other key">> \in Seq(Named)
    BY DEF Named
  <2>3. <<>> \in Seq(Named)
    OBVIOUS
  <2>4. Operation = {"activate", "issue", "revoke", "evaluate", "consume", "read"}
    BY DEF Operation, Bindings
  <2>5. /\ Bindings["activate"] = <<"other profile", "other declaration">>
        /\ Bindings["evaluate"] = <<"key absent", "other key">>
        /\ Bindings["issue"] = <<>> /\ Bindings["revoke"] = <<>>
        /\ Bindings["consume"] = <<>> /\ Bindings["read"] = <<>>
    BY DEF Bindings
  <2> QED
    BY <2>1, <2>2, <2>3, <2>4, <2>5
<1>4. Checks(op) = Arrival \/ Checks(op) = (Arrival \o Body) \o Bindings[op]
  BY DEF Checks
<1> DEFINE q == Arrival \o Body
<1>5. q \in Seq(Named) /\ Len(q) >= 3 /\ \A n \in 1 .. 3 : q[n] = Arrival[n]
  <2>1. /\ q \in Seq(Named) /\ Len(q) >= Len(Arrival)
        /\ \A n \in 1 .. Len(Arrival) : q[n] = Arrival[n]
    BY <1>1, <1>2, Concatenated
  <2> HIDE DEF q
  <2> QED
    BY <1>1, <2>1
<1> HIDE DEF q
<1>6. q \o Bindings[op] \in Seq(Named) /\ \A n \in 1 .. 3 : (q \o Bindings[op])[n] = q[n]
  <2>1. 1 .. 3 \subseteq 1 .. Len(q)
    BY <1>5
  <2> QED
    BY <1>3, <1>5, <2>1, Concatenated
<1>7. Checks(op) \in Seq(Named) /\ \A n \in 1 .. 3 : Checks(op)[n] = Arrival[n]
  BY <1>1, <1>4, <1>5, <1>6 DEF q
<1>8. Arrival[1] = "no route" /\ Arrival[2] = "scope absent" /\ Arrival[3] = "scope wrong"
  BY DEF Arrival
<1>9. 1 \in 1 .. 3 /\ 2 \in 1 .. 3 /\ 3 \in 1 .. 3
  OBVIOUS
<1> QED
  BY <1>7, <1>8, <1>9

\* A request without the scope fails at the route or at the scope.
LEMMA RefusedForScope ==
  ASSUME NEW op \in Operation, NEW faults, NEW n \in DOMAIN Checks(op), NEW status,
         FirstFailed(op, faults, n), faults \cap Unscoped # {},
         status = Refusal(Checks(op)[n])
  PROVE  /\ "no route" \in faults => status = 404
         /\ "no route" \notin faults => status = 403
<1>1. /\ Checks(op) \in Seq(Named)
      /\ Checks(op)[1] = "no route"
      /\ Checks(op)[2] = "scope absent"
      /\ Checks(op)[3] = "scope wrong"
  BY ChecksAre
<1>2. n \in Nat \ {0}
  BY <1>1, PositionType
<1>3. "scope absent" \in faults \/ "scope wrong" \in faults
  BY DEF Unscoped
<1>4. /\ Checks(op)[n] \in faults
      /\ \A m \in {1, 2, 3} : m <= n - 1 => Checks(op)[m] \notin faults
  BY <1>2 DEF FirstFailed
<1>5. /\ "no route" \in faults => ~(1 <= n - 1)
      /\ "scope absent" \in faults => ~(2 <= n - 1)
      /\ "scope wrong" \in faults => ~(3 <= n - 1)
  BY <1>1, <1>4
<1>6. CASE "no route" \in faults
  <2>1. n = 1
    BY <1>2, <1>5, <1>6, Ordinals
  <2> QED
    BY <1>1, <1>6, <2>1 DEF Refusal
<1>7. CASE "no route" \notin faults
  <2>1. n # 1
    BY <1>1, <1>4, <1>7
  <2>2. n = 2 \/ n = 3
    BY <1>2, <1>3, <1>5, <2>1, Ordinals
  <2> QED
    <3>1. Checks(op)[n] \in Unscoped
      BY <1>1, <2>2 DEF Unscoped
    <3>2. Checks(op)[n] # "no route"
      BY <1>4, <1>7
    <3> QED
      BY <1>7, <3>1, <3>2 DEF Refusal
<1> QED
  BY <1>6, <1>7

LEMMA ScopeStep ==
  ASSUME ScopeFirst, [Next]_vars
  PROVE  ScopeFirst'
<1>1. CASE UNCHANGED last
  BY <1>1 DEF ScopeFirst
<1>2. ASSUME NEW op \in Operation, NEW faults \in FaultSets, Refuse(op, faults)
      PROVE  ScopeFirst'
  <2>1. PICK n \in DOMAIN Checks(op) :
          /\ FirstFailed(op, faults, n)
          /\ last' = [scoped |-> faults \cap Unscoped = {},
                      routed |-> "no route" \notin faults,
                      status |-> Refusal(Checks(op)[n])]
    BY <1>2 DEF Refuse
  <2>2. /\ last'.scoped = (faults \cap Unscoped = {})
        /\ last'.routed = ("no route" \notin faults)
        /\ last'.status = Refusal(Checks(op)[n])
    BY <2>1
  <2>3. CASE faults \cap Unscoped # {}
    <3>1. /\ "no route" \in faults => last'.status = 404
          /\ "no route" \notin faults => last'.status = 403
      <4>1. FirstFailed(op, faults, n)
        BY <2>1
      <4>2. last'.status = Refusal(Checks(op)[n])
        BY <2>2
      <4> DEFINE status == last'.status
      <4> HIDE DEF status
      <4>3. (status = Refusal(Checks(op)[n]))
            => /\ "no route" \in faults => status = 404
               /\ "no route" \notin faults => status = 403
        BY <4>1, <2>3, RefusedForScope
      <4> QED
        BY <4>2, <4>3 DEF status
    <3>2. CASE "no route" \in faults
      <4>1. ~last'.routed /\ last'.status = 404
        BY <2>2, <3>1, <3>2
      <4> QED
        BY <4>1 DEF ScopeFirst
    <3>3. CASE "no route" \notin faults
      <4>1. last'.routed /\ last'.status = 403
        BY <2>2, <3>1, <3>3
      <4> QED
        BY <4>1 DEF ScopeFirst
    <3> QED
      BY <3>2, <3>3
  <2> QED
    BY <2>2, <2>3 DEF ScopeFirst
<1>3. UNCHANGED last \/ \E op \in Operation, faults \in FaultSets : Refuse(op, faults)
  BY DEF Next, Dispatch, Activate, IssueGrant, RevokeGrant, EvaluateNew, EvaluateAgain,
         ConsumePermit, ReadPermit, Declined, Reply, vars
<1> QED
  BY <1>1, <1>2, <1>3

\* Who presents no scope or another learns the route and nothing else, whatever
\* else is wrong with the request and whatever the engine holds.
THEOREM ScopeComesFirst == Spec => []ScopeFirst
<1>1. Init => ScopeFirst
  BY DEF Init, ScopeFirst
<1>2. ScopeFirst /\ [Next]_vars => ScopeFirst'
  BY ScopeStep
<1> QED
  BY <1>1, <1>2, PTL DEF Spec

-----------------------------------------------------------------------------
(* The types *)

\* What a request of each operation is about.
LEMMA RequestType ==
  ASSUME NEW r \in Contents
  PROVE  /\ Op(r) \in Operation
         /\ Op(r) = "activate" => Subject(r) = "declaration"
         /\ Op(r) = "issue" => Subject(r) \in Grant /\ Content(r) \in Version
         /\ Op(r) = "revoke" => Subject(r) \in Grant
         /\ Op(r) = "evaluate" => Subject(r) \in Submission
         /\ Op(r) = "consume" => Subject(r) \in Submission /\ Content(r) \in Version
         /\ Op(r) = "read" => Subject(r) \in Submission
BY DEF Contents, Op, Subject, Content, Operation, Bindings

LEMMA StageType ==
  ASSUME thread \in [Thread -> Stages], NEW t \in Thread
  PROVE  /\ thread[t].stage \in {"dispatched", "served"} => thread[t].request \in Contents
         /\ thread[t].stage = "served" => thread[t].status \in Statuses
BY DEF Stages

\* An outcome is the thread's own, for the request it has.
LEMMA OutcomeType ==
  ASSUME thread \in [Thread -> Stages], NEW t \in Thread, NEW status \in Statuses,
         thread[t].stage = "dispatched", Outcome(t, status)
  PROVE  /\ thread' \in [Thread -> Stages]
         /\ thread'[t] = [stage |-> "served", request |-> thread[t].request, status |-> status]
         /\ \A u \in Thread \ {t} : thread'[u] = thread[u]
<1> DEFINE served == [stage |-> "served", request |-> thread[t].request, status |-> status]
<1>1. thread[t].request \in Contents
  BY StageType
<1>2. served \in Stages
  BY <1>1 DEF Stages
<1> HIDE DEF served
<1>3. thread' = [thread EXCEPT ![t] = served]
  BY DEF Outcome, served
<1>4. thread'[t] = served /\ thread' \in [Thread -> Stages]
      /\ \A u \in Thread \ {t} : thread'[u] = thread[u]
  BY <1>2, <1>3
<1> QED
  BY <1>4 DEF served

LEMMA RefusalType == \A fault : Refusal(fault) \in Statuses
BY DEF Refusal, Statuses

LEMMA StatusType ==
  /\ 200 \in Statuses /\ 201 \in Statuses /\ 204 \in Statuses /\ 400 \in Statuses
  /\ 404 \in Statuses /\ 409 \in Statuses /\ 503 \in Statuses
BY DEF Statuses

\* The engine's calls, whatever the operation.
Call(t) ==
  \/ Activate(t) \/ IssueGrant(t) \/ RevokeGrant(t)
  \/ EvaluateNew(t) \/ EvaluateAgain(t) \/ ConsumePermit(t)
  \/ ReadPermit(t) \/ Declined(t)

\* Every call serves the request it was given, with some status.
LEMMA CallServes ==
  ASSUME NEW t, Call(t)
  PROVE  /\ thread[t].stage = "dispatched"
         /\ \E status \in Statuses : Outcome(t, status)
         /\ UNCHANGED <<last, born>>
<1> USE StatusType
<1>1. CASE Activate(t)
  BY <1>1 DEF Activate, Asks
<1>2. CASE IssueGrant(t)
  <2>1. PICK status : /\ status \in {200, 201, 400, 409}
                      /\ Outcome(t, status)
    BY <1>2 DEF IssueGrant, IssueStatus
  <2> QED
    BY <1>2, <2>1 DEF IssueGrant, Asks
<1>3. CASE RevokeGrant(t)
  BY <1>3 DEF RevokeGrant, Asks
<1>4. CASE EvaluateNew(t)
  BY <1>4 DEF EvaluateNew, Asks
<1>5. CASE EvaluateAgain(t)
  <2>1. PICK status : /\ status \in {200, 400, 409}
                      /\ Outcome(t, status)
    BY <1>5 DEF EvaluateAgain
  <2> QED
    BY <1>5, <2>1 DEF EvaluateAgain, Asks
<1>6. CASE ConsumePermit(t)
  <2>1. PICK status : /\ status \in {200, 400, 404, 409}
                      /\ Outcome(t, status)
    BY <1>6 DEF ConsumePermit, ReplayStatus
  <2> QED
    BY <1>6, <2>1 DEF ConsumePermit, Asks
<1>7. CASE ReadPermit(t)
  BY <1>7 DEF ReadPermit, Asks
<1>8. CASE Declined(t)
  BY <1>8 DEF Declined
<1> QED
  BY <1>1, <1>2, <1>3, <1>4, <1>5, <1>6, <1>7, <1>8 DEF Call

\* The engine's part of the types.
EngineType ==
  /\ active \in BOOLEAN
  /\ grants \in [Grant -> Version \cup {None}]
  /\ ended \subseteq {g \in Grant : grants[g] # None}
  /\ bound \in [Key -> Submission \cup {None}]
  /\ permit \in [Submission -> {"NONE", "LIVE", "SPENT", "DEAD"}]
  /\ spent \in [Submission -> Version \cup {None}]

LEMMA TypeStep ==
  ASSUME TypeOK, [Next]_vars
  PROVE  TypeOK'
<1> USE AdapterAssumption
<1>0. /\ EngineType /\ thread \in [Thread -> Stages]
      /\ last \in [scoped : BOOLEAN, routed : BOOLEAN, status : Statuses]
      /\ \A x \in DOMAIN born : born[x] \in Nat
  BY DEF TypeOK, EngineType
<1>1. CASE UNCHANGED vars
  BY <1>1 DEF vars, TypeOK
<1>2. ASSUME NEW op \in Operation, NEW faults \in FaultSets, Refuse(op, faults)
      PROVE  TypeOK'
  <2>1. PICK n \in DOMAIN Checks(op) :
          last' = [scoped |-> faults \cap Unscoped = {},
                   routed |-> "no route" \notin faults,
                   status |-> Refusal(Checks(op)[n])]
    BY <1>2 DEF Refuse
  <2>2. Refusal(Checks(op)[n]) \in Statuses
    BY RefusalType
  <2>3. last' \in [scoped : BOOLEAN, routed : BOOLEAN, status : Statuses]
    BY <2>1, <2>2
  <2> QED
    BY <1>0, <1>2, <2>3 DEF Refuse, TypeOK, EngineType, engine
<1>3. ASSUME NEW t \in Thread, NEW r \in Contents, Dispatch(t, r)
      PROVE  TypeOK'
  <2>1. [stage |-> "dispatched", request |-> r] \in Stages
    BY DEF Stages
  <2>2. (thread \in [Thread -> Stages])'
    BY <1>0, <1>3, <2>1 DEF Dispatch
  <2>3. EngineType' /\ UNCHANGED <<last, born>>
    BY <1>0, <1>3 DEF Dispatch, EngineType, engine
  <2> QED
    BY <1>0, <2>2, <2>3 DEF TypeOK, EngineType
<1>4. ASSUME NEW t \in Thread, Call(t)
      PROVE  TypeOK'
  <2> DEFINE r == thread[t].request
             i == Subject(r)
  <2>1. thread[t].stage = "dispatched" /\ UNCHANGED <<last, born>>
    BY <1>4, CallServes
  <2>2. (thread \in [Thread -> Stages])'
    BY <1>0, <1>4, CallServes, OutcomeType
  <2>3. r \in Contents
    BY <1>0, <2>1, StageType
  <2> SUFFICES EngineType'
    BY <1>0, <2>1, <2>2 DEF TypeOK, EngineType
  <2>4. CASE Activate(t)
    BY <1>0, <2>4 DEF Activate, EngineType
  <2>5. CASE IssueGrant(t)
    <3>1. i \in Grant /\ Content(r) \in Version
      BY <2>3, <2>5, RequestType DEF IssueGrant, Asks
    <3>2. /\ grants' = [grants EXCEPT ![i] = Recorded(i, Content(r))]
          /\ UNCHANGED <<active, ended, bound, permit, spent>>
      BY <2>5 DEF IssueGrant
    <3>3. Recorded(i, Content(r)) \in Version
      BY <1>0, <3>1 DEF Recorded, EngineType
    <3> HIDE DEF i, r
    <3>4. grants' \in [Grant -> Version \cup {None}]
      BY <1>0, <3>1, <3>2, <3>3 DEF EngineType
    <3>5. \A g \in Grant : grants[g] # None => grants'[g] # None
      BY <1>0, <3>1, <3>2, <3>3 DEF EngineType
    <3> QED
      BY <1>0, <3>2, <3>4, <3>5 DEF EngineType
  <2>6. CASE RevokeGrant(t)
    <3>1. i \in Grant
      BY <2>3, <2>6, RequestType DEF RevokeGrant, Asks
    <3> QED
      BY <1>0, <2>6, <3>1 DEF RevokeGrant, EngineType, Revocable
  <2>7. CASE EvaluateNew(t)
    <3>1. i \in Submission
      BY <2>3, <2>7, RequestType DEF EvaluateNew, Asks
    <3> QED
      BY <1>0, <2>7, <3>1 DEF EvaluateNew, EngineType
  <2>8. CASE ConsumePermit(t)
    <3>1. i \in Submission /\ Content(r) \in Version
      BY <2>3, <2>8, RequestType DEF ConsumePermit, Asks
    <3> QED
      BY <1>0, <2>8, <3>1 DEF ConsumePermit, EngineType
  <2>9. CASE EvaluateAgain(t) \/ ReadPermit(t) \/ Declined(t)
    BY <1>0, <2>9 DEF EvaluateAgain, ReadPermit, Declined, EngineType, engine
  <2> QED
    BY <1>4, <2>4, <2>5, <2>6, <2>7, <2>8, <2>9 DEF Call
<1>5. ASSUME NEW t \in Thread, Reply(t)
      PROVE  TypeOK'
  <2>1. Idle \in Stages
    BY DEF Idle, Stages
  <2>2. (thread \in [Thread -> Stages])'
    BY <1>0, <1>5, <2>1 DEF Reply
  <2>3. EngineType' /\ UNCHANGED last
    BY <1>0, <1>5 DEF Reply, EngineType, engine
  <2>4. (\A x \in DOMAIN born : born[x] \in Nat)'
    BY <1>0, <1>5 DEF Reply
  <2> QED
    BY <1>0, <2>2, <2>3, <2>4 DEF TypeOK, EngineType
<1> QED
  BY <1>1, <1>2, <1>3, <1>4, <1>5 DEF Next, Call

LEMMA InitTypes ==
  ASSUME Init
  PROVE  TypeOK
<1>1. thread \in [Thread -> Stages]
  BY DEF Init, Stages, Idle
<1>2. last \in [scoped : BOOLEAN, routed : BOOLEAN, status : Statuses]
  BY DEF Init, Statuses
<1>3. \A x \in DOMAIN born : born[x] \in Nat
  BY DEF Init
<1>4. EngineType
  BY DEF Init, EngineType
<1> QED
  BY <1>1, <1>2, <1>3, <1>4 DEF TypeOK, EngineType

\* The types hold, and only grants that were issued are revoked.
THEOREM Types == Spec => []TypeOK
<1>1. Init => TypeOK
  BY InitTypes
<1>2. TypeOK /\ [Next]_vars => TypeOK'
  BY TypeStep
<1> QED
  BY <1>1, <1>2, PTL DEF Spec

-----------------------------------------------------------------------------
(* What is recorded stays *)

\* A permit is spent when its execution is recorded, and only a submission that
\* took its key has one.
PermitTold ==
  \A s \in Submission :
    /\ permit[s] = "SPENT" <=> spent[s] # None
    /\ permit[s] # "NONE" => bound[KeyOf[s]] = s

\* No step takes back what is recorded under an identifier.
Grows ==
  /\ active => active'
  /\ \A g \in Grant : grants[g] # None => grants'[g] = grants[g]
  /\ ended \subseteq ended'
  /\ \A k \in Key : bound[k] # None => bound'[k] = bound[k]
  /\ \A s \in Submission : spent[s] # None => spent'[s] = spent[s]

\* What a call does to the engine: each changes what its operation is about.
LEMMA CallGrows ==
  ASSUME TypeOK, PermitTold, NEW t \in Thread, Call(t)
  PROVE  PermitTold' /\ Grows
<1> USE AdapterAssumption
<1> DEFINE r == thread[t].request
           i == Subject(r)
<1>0. EngineType
  BY DEF TypeOK, EngineType
<1>1. thread[t].stage = "dispatched" /\ r \in Contents
  BY CallServes, StageType DEF TypeOK
<1>2. CASE Activate(t)
  BY <1>2 DEF Activate, PermitTold, Grows
<1>3. CASE IssueGrant(t)
  <2>1. i \in Grant
    BY <1>1, <1>3, RequestType DEF IssueGrant, Asks
  <2>2. /\ grants' = [grants EXCEPT ![i] = Recorded(i, Content(r))]
        /\ UNCHANGED <<active, ended, bound, permit, spent>>
    BY <1>3 DEF IssueGrant
  <2>3. grants[i] # None => Recorded(i, Content(r)) = grants[i]
    BY DEF Recorded
  <2> HIDE DEF i, r
  <2>4. \A g \in Grant : grants[g] # None => grants'[g] = grants[g]
    BY <1>0, <2>1, <2>2, <2>3 DEF EngineType
  <2> QED
    BY <2>2, <2>4 DEF PermitTold, Grows
<1>4. CASE RevokeGrant(t)
  <2>1. \A s \in Submission :
          /\ permit'[s] = "SPENT" <=> permit[s] = "SPENT"
          /\ permit'[s] # "NONE" => permit[s] # "NONE"
    BY <1>0, <1>4 DEF RevokeGrant, EngineType
  <2>2. ended \subseteq ended' /\ UNCHANGED <<active, grants, bound, spent>>
    BY <1>4 DEF RevokeGrant
  <2> QED
    BY <2>1, <2>2 DEF PermitTold, Grows
<1>5. CASE EvaluateNew(t)
  <2>1. i \in Submission
    BY <1>1, <1>5, RequestType DEF EvaluateNew, Asks
  <2>2. /\ bound[KeyOf[i]] = None /\ bound' = [bound EXCEPT ![KeyOf[i]] = i]
        /\ permit' = [permit EXCEPT ![i] = "LIVE"] \/ permit' = permit
        /\ UNCHANGED <<active, grants, ended, spent>>
    BY <1>5 DEF EvaluateNew
  <2> HIDE DEF i
  <2>3. permit[i] = "NONE" /\ spent[i] = None
    BY <1>0, <2>1, <2>2 DEF PermitTold, EngineType
  <2>4. \A k \in Key : bound[k] # None => bound'[k] = bound[k]
    BY <1>0, <2>2 DEF EngineType
  <2>5. bound'[KeyOf[i]] = i
    BY <1>0, <2>1, <2>2 DEF EngineType
  <2>6. PermitTold'
    <3> SUFFICES ASSUME NEW s \in Submission
                 PROVE  /\ permit'[s] = "SPENT" <=> spent[s] # None
                        /\ permit'[s] # "NONE" => bound'[KeyOf[s]] = s
      BY <2>2 DEF PermitTold
    <3>1. CASE s = i
      BY <1>0, <2>1, <2>2, <2>3, <2>5, <3>1 DEF EngineType
    <3>2. CASE s # i
      <4>1. permit'[s] = permit[s]
        BY <1>0, <2>2, <3>2 DEF EngineType
      <4>2. KeyOf[s] \in Key /\ s # None
        OBVIOUS
      <4> QED
        BY <2>4, <4>1, <4>2 DEF PermitTold
    <3> QED
      BY <3>1, <3>2
  <2> QED
    BY <2>2, <2>4, <2>6 DEF Grows
<1>6. CASE ConsumePermit(t)
  <2>1. i \in Submission /\ Content(r) \in Version
    BY <1>1, <1>6, RequestType DEF ConsumePermit, Asks
  <2>2. UNCHANGED <<active, grants, ended, bound>>
    BY <1>6 DEF ConsumePermit
  <2>3. \/ /\ permit[i] = "LIVE" /\ permit' = [permit EXCEPT ![i] = "SPENT"]
           /\ spent' = [spent EXCEPT ![i] = Content(r)]
        \/ /\ permit[i] = "LIVE" /\ permit' = [permit EXCEPT ![i] = "DEAD"]
           /\ spent' = spent
        \/ permit' = permit /\ spent' = spent
    BY <1>6 DEF ConsumePermit
  <2> HIDE DEF i, r
  <2> QED
    BY <1>0, <2>1, <2>2, <2>3 DEF PermitTold, Grows, EngineType
<1>7. CASE EvaluateAgain(t) \/ ReadPermit(t) \/ Declined(t)
  BY <1>7 DEF EvaluateAgain, ReadPermit, Declined, engine, PermitTold, Grows
<1> QED
  BY <1>2, <1>3, <1>4, <1>5, <1>6, <1>7 DEF Call

LEMMA NextGrows ==
  ASSUME TypeOK, PermitTold, [Next]_vars
  PROVE  PermitTold' /\ Grows
<1>1. CASE UNCHANGED engine
  BY <1>1 DEF engine, PermitTold, Grows
<1>2. ASSUME NEW t \in Thread, Call(t)
      PROVE  PermitTold' /\ Grows
  BY <1>2, CallGrows
<1>3. UNCHANGED engine \/ \E t \in Thread : Call(t)
  BY DEF Next, vars, engine, Refuse, Dispatch, Reply, Call
<1> QED
  BY <1>1, <1>2, <1>3

\* What a status says is said of what stays.
LEMMA HoldsStays ==
  ASSUME Grows, NEW a \in Answer, Holds(a)
  PROVE  Holds(a)'
<1> USE AdapterAssumption
<1> DEFINE r == a.request
           i == Subject(r)
<1>1. r \in Contents
  BY DEF Answer
<1>2. CASE Op(r) = "activate"
  BY <1>2 DEF Holds, Grows
<1>3. CASE Op(r) = "issue"
  <2>1. i \in Grant
    BY <1>1, <1>3, RequestType
  <2>2. grants[i] # None /\ (a.status # 409 <=> grants[i] = Content(r))
    BY <1>3 DEF Holds
  <2>3. grants'[i] = grants[i]
    BY <2>1, <2>2 DEF Grows
  <2> QED
    BY <1>3, <2>2, <2>3 DEF Holds
<1>4. CASE Op(r) = "revoke"
  BY <1>4 DEF Holds, Grows
<1>5. CASE Op(r) = "evaluate"
  <2>1. KeyOf[i] \in Key
    BY <1>1, <1>5, RequestType
  <2>2. bound[KeyOf[i]] # None /\ (a.status # 409 <=> bound[KeyOf[i]] = i)
    BY <1>5 DEF Holds
  <2>3. bound'[KeyOf[i]] = bound[KeyOf[i]]
    BY <2>1, <2>2 DEF Grows
  <2> QED
    BY <1>5, <2>2, <2>3 DEF Holds
<1>6. CASE Op(r) = "consume"
  <2>1. i \in Submission
    BY <1>1, <1>6, RequestType
  <2>2. spent[i] # None /\ (a.status # 409 <=> spent[i] = Content(r))
    BY <1>6 DEF Holds
  <2>3. spent'[i] = spent[i]
    BY <2>1, <2>2 DEF Grows
  <2> QED
    BY <1>6, <2>2, <2>3 DEF Holds
<1>7. CASE Op(r) \notin {"activate", "issue", "revoke", "evaluate", "consume"}
  BY <1>7 DEF Holds
<1> QED
  BY <1>2, <1>3, <1>4, <1>5, <1>6, <1>7

LEMMA InitTold == Init => PermitTold
BY AdapterAssumption DEF Init, PermitTold

\* An answer stays true: no request that could be told success can ever be told a
\* conflict, or the other way round, however it is repeated and whoever else asks.
THEOREM AnswersStand == Spec => NoAnswerTurns
<1>1. Init => TypeOK /\ PermitTold
  BY InitTypes, InitTold
<1>2. TypeOK /\ PermitTold /\ [Next]_vars => TypeOK' /\ PermitTold'
  BY TypeStep, NextGrows
<1>3. TypeOK /\ PermitTold /\ [Next]_vars
      => [\A a \in Answer : Holds(a) => Holds(a)']_vars
  BY NextGrows, HoldsStays
<1> QED
  BY <1>1, <1>2, <1>3, PTL DEF Spec, NoAnswerTurns

-----------------------------------------------------------------------------
(* What an answer says when it goes out *)

\* What Holds says of a request and a status.
Said(r, status) ==
  LET i == Subject(r)
      did == status # 409
  IN /\ Op(r) = "activate" => active
     /\ Op(r) = "issue" => grants[i] # None /\ (did <=> grants[i] = Content(r))
     /\ Op(r) = "revoke" => did /\ i \in ended
     /\ Op(r) = "evaluate" => bound[KeyOf[i]] # None /\ (did <=> bound[KeyOf[i]] = i)
     /\ Op(r) = "consume" => spent[i] # None /\ (did <=> spent[i] = Content(r))

LEMMA HoldsIsSaid ==
  ASSUME NEW r, NEW status
  PROVE  /\ Holds([request |-> r, status |-> status]) <=> Said(r, status)
         /\ Holds([request |-> r, status |-> status])' <=> Said(r, status)'
BY DEF Holds, Said

LEMMA Served ==
  ASSUME thread \in [Thread -> Stages], NEW t \in Thread, NEW status, Outcome(t, status)
  PROVE  /\ thread'[t].stage = "served" /\ thread'[t].status = status
         /\ thread'[t].request = thread[t].request
BY DEF Outcome

\* A call that succeeds or conflicts leaves the engine as it says.
LEMMA CallSays ==
  ASSUME TypeOK, PermitTold, NEW t \in Thread, Call(t), NEW r, r = thread[t].request,
         NEW status, status = thread'[t].status, status \in {200, 201, 204, 409}
  PROVE  Said(r, status)'
<1> USE AdapterAssumption
<1> DEFINE i == Subject(r)
<1>0. EngineType /\ thread \in [Thread -> Stages]
  BY DEF TypeOK, EngineType
<1>1. thread[t].stage = "dispatched" /\ r \in Contents
  BY <1>0, CallServes, StageType
<1>2. CASE Activate(t)
  BY <1>2 DEF Activate, Asks, Said
<1>3. CASE IssueGrant(t)
  <2>1. Op(r) = "issue" /\ i \in Grant /\ Content(r) \in Version
    BY <1>1, <1>3, RequestType DEF IssueGrant, Asks
  <2>2. thread'[t].status = IF i \in ended THEN 400 ELSE IssueStatus(i, Content(r))
    BY <1>0, <1>3, Served DEF IssueGrant
  <2>3. grants'[i] = Recorded(i, Content(r))
    BY <1>0, <1>3, <2>1 DEF IssueGrant, EngineType
  <2> QED
    BY <1>0, <2>1, <2>2, <2>3 DEF Said, IssueStatus, Recorded, EngineType
<1>4. CASE RevokeGrant(t)
  <2>1. Op(r) = "revoke"
    BY <1>4 DEF RevokeGrant, Asks
  <2>2. thread'[t].status = 404 \/ (thread'[t].status = 204 /\ ended' = ended \cup {i})
    BY <1>0, <1>4, Served DEF RevokeGrant
  <2> QED
    BY <2>1, <2>2 DEF Said
<1>5. CASE EvaluateNew(t)
  <2>1. Op(r) = "evaluate" /\ i \in Submission
    BY <1>1, <1>5, RequestType DEF EvaluateNew, Asks
  <2>2. thread'[t].status = 200
    BY <1>0, <1>5, Served DEF EvaluateNew
  <2>3. bound'[KeyOf[i]] = i
    BY <1>0, <1>5, <2>1 DEF EvaluateNew, EngineType
  <2> QED
    BY <2>1, <2>2, <2>3 DEF Said
<1>6. CASE EvaluateAgain(t)
  <2>1. Op(r) = "evaluate" /\ i \in Submission
    BY <1>1, <1>6, RequestType DEF EvaluateAgain, Asks
  <2>2. /\ bound[KeyOf[i]] # None /\ bound' = bound
        /\ bound[KeyOf[i]] # i => thread'[t].status = 409
        /\ bound[KeyOf[i]] = i => thread'[t].status \in {200, 400}
    <3>1. PICK answer : /\ answer \in IF bound[KeyOf[i]] # i THEN {409}
                                      ELSE IF permit[i] = "SPENT" THEN {400}
                                      ELSE IF permit[i] = "DEAD" THEN {200, 400} ELSE {200}
                        /\ Outcome(t, answer)
      BY <1>6 DEF EvaluateAgain
    <3>2. thread'[t].status = answer
      BY <1>0, <3>1, Served
    <3> QED
      BY <1>6, <3>1, <3>2 DEF EvaluateAgain, engine
  <2> QED
    BY <2>1, <2>2 DEF Said
<1>7. CASE ConsumePermit(t)
  <2>1. Op(r) = "consume" /\ i \in Submission /\ Content(r) \in Version
    BY <1>1, <1>7, RequestType DEF ConsumePermit, Asks
  <2>2. \/ thread'[t].status = 200 /\ spent'[i] = Content(r)
        \/ thread'[t].status \in {400, 404}
        \/ /\ permit[i] = "SPENT" /\ spent' = spent
           /\ thread'[t].status = ReplayStatus(i, Content(r))
    BY <1>0, <1>7, <2>1, Served DEF ConsumePermit, EngineType
  <2> QED
    BY <2>1, <2>2 DEF Said, ReplayStatus, PermitTold
<1>8. CASE ReadPermit(t)
  <2>1. Op(r) = "read"
    BY <1>8 DEF ReadPermit, Asks
  <2> QED
    BY <2>1 DEF Said
<1>9. CASE Declined(t)
  <2>1. thread'[t].status \in {400, 503}
    BY <1>0, <1>9, Served DEF Declined
  <2> QED
    BY <2>1
<1> QED
  BY <1>2, <1>3, <1>4, <1>5, <1>6, <1>7, <1>8, <1>9 DEF Call

\* The answer a thread is about to give is true.
Tells ==
  \A t \in Thread : thread[t].stage = "served" =>
    LET a == [request |-> thread[t].request, status |-> thread[t].status] IN
    a \in Answer => Holds(a)

\* What a creation creates, and that it is.
Creations == {"activate"} \X {"declaration"} \cup {"issue"} \X Grant
Done(x) == IF x[1] = "activate" THEN active ELSE grants[x[2]] # None

\* The thread is about to say that it created something.
Creates(t) == thread[t].stage = "served" /\ thread[t].status = 201
Creation(t) == <<Op(thread[t].request), Subject(thread[t].request)>>

\* What is about to be said to be created is there and was never said to be; and no
\* two threads are about to say it of the same.
Births ==
  /\ born \in [Creations -> {0, 1}]
  /\ \A x \in Creations : born[x] = 1 => Done(x)
  /\ \A t \in Thread : Creates(t) =>
       /\ Creation(t) \in Creations /\ Done(Creation(t))
       /\ born[Creation(t)] = 0
  /\ \A t, u \in Thread : Creates(t) /\ Creates(u) /\ Creation(t) = Creation(u) => t = u

\* What a thread serves stays as it is until the thread acts again.
LEMMA OthersStay ==
  ASSUME thread \in [Thread -> Stages], NEW t \in Thread, NEW stage,
         thread' = [thread EXCEPT ![t] = stage], NEW u \in Thread, u # t
  PROVE  thread'[u] = thread[u]
OBVIOUS

\* What was true of another thread's answer stays true.
LEMMA OthersTell ==
  ASSUME Tells, Grows, NEW u \in Thread, thread'[u] = thread[u],
         NEW a \in Answer, thread'[u].stage = "served",
         a = [request |-> thread'[u].request, status |-> thread'[u].status]
  PROVE  Holds(a)'
<1>1. Holds(a)
  BY DEF Tells
<1> QED
  BY <1>1, HoldsStays

LEMMA TellsStep ==
  ASSUME TypeOK, PermitTold, Tells, [Next]_vars
  PROVE  Tells'
<1>0. thread \in [Thread -> Stages] /\ Grows
  BY NextGrows DEF TypeOK
<1> SUFFICES ASSUME NEW u \in Thread, thread'[u].stage = "served", NEW a \in Answer,
                    a = [request |-> thread'[u].request, status |-> thread'[u].status]
             PROVE  Holds(a)'
  BY DEF Tells
<1>1. CASE thread'[u] = thread[u]
  BY <1>0, <1>1, OthersTell
<1>2. ASSUME NEW t \in Thread, Call(t), t = u
      PROVE  Holds(a)'
  <2>1. PICK status \in Statuses : Outcome(t, status)
    BY <1>2, CallServes
  <2>2. thread'[u].status = status /\ thread'[u].request = thread[u].request
    BY <1>0, <1>2, <2>1, Served
  <2>3. status \in {200, 201, 204, 409}
    BY <2>2 DEF Answer
  <2>4. PICK r : r = thread[u].request
    OBVIOUS
  <2>5. Said(r, status)'
    BY <1>2, <2>2, <2>3, <2>4, CallSays
  <2>6. a = [request |-> r, status |-> status]
    BY <2>2, <2>4
  <2> QED
    BY <2>5, <2>6, HoldsIsSaid
<1>3. \/ thread'[u] = thread[u]
      \/ thread'[u].stage # "served"
      \/ \E t \in Thread : Call(t) /\ t = u
  <2>1. CASE UNCHANGED thread
    BY <2>1
  <2>2. ASSUME NEW t \in Thread, NEW r \in Contents, Dispatch(t, r)
        PROVE  thread'[u] = thread[u] \/ thread'[u].stage # "served"
    BY <1>0, <2>2 DEF Dispatch
  <2>3. ASSUME NEW t \in Thread, Reply(t)
        PROVE  thread'[u] = thread[u] \/ thread'[u].stage # "served"
    BY <1>0, <2>3 DEF Reply, Idle
  <2>4. ASSUME NEW t \in Thread, Call(t), t # u
        PROVE  thread'[u] = thread[u]
    BY <1>0, <2>4, CallServes, OutcomeType
  <2> QED
    BY <2>1, <2>2, <2>3, <2>4 DEF Next, vars, Refuse, Call
<1> QED
  BY <1>1, <1>2, <1>3

\* A call that is to answer 201 finds its subject missing and leaves it there.
LEMMA CallCreates ==
  ASSUME TypeOK, NEW t \in Thread, Call(t), NEW x, x = Creation(t),
         thread'[t].status = 201
  PROVE  x \in Creations /\ ~Done(x) /\ Done(x)'
<1> USE AdapterAssumption
<1> DEFINE r == thread[t].request
           i == Subject(r)
<1>0. EngineType /\ thread \in [Thread -> Stages]
  BY DEF TypeOK, EngineType
<1>1. thread[t].stage = "dispatched" /\ r \in Contents
  BY <1>0, CallServes, StageType
<1>2. x = <<Op(r), i>>
  BY DEF Creation
<1>3. CASE Activate(t)
  <2>1. Op(r) = "activate" /\ i = "declaration"
    BY <1>1, <1>3, RequestType DEF Activate, Asks
  <2>2. ~active /\ active'
    BY <1>0, <1>3, Served DEF Activate
  <2> QED
    BY <1>2, <2>1, <2>2 DEF Creations, Done
<1>4. CASE IssueGrant(t)
  <2>1. Op(r) = "issue" /\ i \in Grant /\ Content(r) \in Version
    BY <1>1, <1>4, RequestType DEF IssueGrant, Asks
  <2>2. thread'[t].status = IF i \in ended THEN 400 ELSE IssueStatus(i, Content(r))
    BY <1>0, <1>4, Served DEF IssueGrant
  <2>3. grants'[i] = Recorded(i, Content(r))
    BY <1>0, <1>4, <2>1 DEF IssueGrant, EngineType
  <2>4. grants[i] = None /\ grants'[i] # None
    BY <2>1, <2>2, <2>3 DEF IssueStatus, Recorded
  <2> QED
    BY <1>2, <2>1, <2>4 DEF Creations, Done
<1>5. CASE RevokeGrant(t)
  <2>1. thread'[t].status \in {204, 404}
    BY <1>0, <1>5, Served DEF RevokeGrant
  <2> QED
    BY <2>1
<1>6. CASE EvaluateNew(t)
  <2>1. thread'[t].status = 200
    BY <1>0, <1>6, Served DEF EvaluateNew
  <2> QED
    BY <2>1
<1>7. CASE EvaluateAgain(t)
  <2>1. PICK answer \in {200, 400, 409} : Outcome(t, answer)
    BY <1>7 DEF EvaluateAgain
  <2>2. thread'[t].status = answer
    BY <1>0, <2>1, Served
  <2> QED
    BY <2>2
<1>8. CASE ConsumePermit(t)
  <2>1. PICK answer \in {200, 400, 404, 409} : Outcome(t, answer)
    BY <1>8 DEF ConsumePermit, ReplayStatus
  <2>2. thread'[t].status = answer
    BY <1>0, <2>1, Served
  <2> QED
    BY <2>2
<1>9. CASE ReadPermit(t) \/ Declined(t)
  <2>1. PICK answer \in {200, 400, 404, 503} : Outcome(t, answer)
    BY <1>9 DEF ReadPermit, Declined
  <2>2. thread'[t].status = answer
    BY <1>0, <2>1, Served
  <2> QED
    BY <2>2
<1> QED
  BY <1>3, <1>4, <1>5, <1>6, <1>7, <1>8, <1>9 DEF Call

\* What was created stays.
LEMMA DoneStays ==
  ASSUME Grows, NEW x \in Creations, Done(x)
  PROVE  Done(x)'
BY AdapterAssumption DEF Grows, Creations, Done

\* What is said of a thread that keeps its stage.
LEMMA CreatesStays ==
  ASSUME NEW u, thread'[u] = thread[u]
  PROVE  (Creates(u)' <=> Creates(u)) /\ Creation(u)' = Creation(u)
BY DEF Creates, Creation

LEMMA BirthsKept ==
  ASSUME Births, Grows, UNCHANGED born,
         \A u \in Thread : thread'[u] = thread[u] \/ ~Creates(u)'
  PROVE  Births'
<1>1. \A u \in Thread : Creates(u)' => Creates(u) /\ Creation(u)' = Creation(u)
  BY CreatesStays
<1>2. \A x \in Creations : Done(x) => Done(x)'
  BY DoneStays
<1>3. /\ born \in [Creations -> {0, 1}]
      /\ \A x \in Creations : born[x] = 1 => Done(x)
      /\ \A t \in Thread : Creates(t) =>
           /\ Creation(t) \in Creations /\ Done(Creation(t))
           /\ born[Creation(t)] = 0
      /\ \A t, u \in Thread : Creates(t) /\ Creates(u) /\ Creation(t) = Creation(u) => t = u
  BY DEF Births
<1>4. (born \in [Creations -> {0, 1}])' /\ \A x \in Creations : born'[x] = 1 => Done(x)'
  BY <1>2, <1>3 DEF Creations
<1>5. ASSUME NEW t \in Thread, Creates(t)'
      PROVE  (Creation(t) \in Creations /\ Done(Creation(t)) /\ born[Creation(t)] = 0)'
  <2>1. PICK x : x = Creation(t)
    OBVIOUS
  <2>2. x = Creation(t)' /\ x \in Creations /\ Done(x)' /\ born'[x] = 0
    BY <1>1, <1>2, <1>3, <1>5, <2>1
  <2> QED
    BY <2>2 DEF Done, Creations
<1>6. (\A t, u \in Thread : Creates(t) /\ Creates(u) /\ Creation(t) = Creation(u) => t = u)'
  BY <1>1, <1>3
<1> QED
  BY <1>4, <1>5, <1>6 DEF Births, Creations

LEMMA BirthsStep ==
  ASSUME TypeOK, PermitTold, Births, [Next]_vars
  PROVE  Births'
<1>0. thread \in [Thread -> Stages] /\ Grows
  BY NextGrows DEF TypeOK
<1>1. CASE UNCHANGED <<thread, born>>
  BY <1>0, <1>1, BirthsKept
<1>2. ASSUME NEW t \in Thread, NEW r \in Contents, Dispatch(t, r)
      PROVE  Births'
  <2>1. \A u \in Thread : thread'[u] = thread[u] \/ ~Creates(u)'
    BY <1>0, <1>2 DEF Dispatch, Creates
  <2> QED
    BY <1>0, <1>2, <2>1, BirthsKept DEF Dispatch
<1>3. ASSUME NEW t \in Thread, Call(t)
      PROVE  Births'
  <2>1. /\ UNCHANGED born
        /\ \A u \in Thread \ {t} : thread'[u] = thread[u]
        /\ thread'[t].request = thread[t].request
    <3>1. PICK status \in Statuses : Outcome(t, status)
      BY <1>3, CallServes
    <3>2. UNCHANGED born /\ thread[t].stage = "dispatched"
      BY <1>3, CallServes
    <3> QED
      BY <1>0, <3>1, <3>2, OutcomeType, Served
  <2>2. CASE thread'[t].status # 201
    BY <1>0, <2>1, <2>2, BirthsKept DEF Creates
  <2>3. CASE thread'[t].status = 201
    <3>1. PICK x : x = Creation(t)
      OBVIOUS
    <3>2. x \in Creations /\ ~Done(x) /\ Done(x)'
      BY <1>3, <2>3, <3>1, CallCreates
    <3>3. Creation(t)' = x
      BY <2>1, <3>1 DEF Creation
    <3>4. \A u \in Thread \ {t} :
            (Creates(u)' <=> Creates(u)) /\ Creation(u)' = Creation(u)
      BY <2>1, CreatesStays
    <3>5. \A u \in Thread \ {t} : Creates(u)' => Creation(u)' # x
      BY <3>2, <3>4 DEF Births
    <3>6. born[x] = 0
      BY <3>2 DEF Births
    <3>7. (born \in [Creations -> {0, 1}])' /\ \A y \in Creations : born'[y] = 1 => Done(y)'
      BY <1>0, <2>1, DoneStays DEF Births, Creations
    <3>8. ASSUME NEW u \in Thread, Creates(u)'
          PROVE  (Creation(u) \in Creations /\ Done(Creation(u)) /\ born[Creation(u)] = 0)'
      <4>1. PICK y : y = Creation(u)'
        OBVIOUS
      <4>2. y \in Creations /\ Done(y)' /\ born[y] = 0
        <5>1. CASE u = t
          BY <3>2, <3>3, <3>6, <4>1, <5>1
        <5>2. CASE u # t
          <6>1. Creates(u) /\ y = Creation(u)
            BY <3>4, <3>8, <4>1, <5>2
          <6> QED
            BY <1>0, <6>1, DoneStays DEF Births
        <5> QED
          BY <5>1, <5>2
      <4> QED
        BY <2>1, <4>1, <4>2 DEF Done, Creations
    <3>9. (\A u, w \in Thread : Creates(u) /\ Creates(w) /\ Creation(u) = Creation(w) => u = w)'
      BY <3>3, <3>4, <3>5 DEF Births
    <3> QED
      BY <3>7, <3>8, <3>9 DEF Births, Creations
  <2> QED
    BY <2>2, <2>3
<1>4. ASSUME NEW t \in Thread, Reply(t)
      PROVE  Births'
  <2>1. \A u \in Thread \ {t} : thread'[u] = thread[u]
    BY <1>0, <1>4 DEF Reply
  <2>2. ~Creates(t)'
    BY <1>0, <1>4 DEF Reply, Creates, Idle
  <2>3. CASE born' = born
    BY <1>0, <2>1, <2>2, <2>3, BirthsKept
  <2>4. CASE born' # born
    <3>1. PICK x : x = Creation(t)
      OBVIOUS
    <3>2. Creates(t) /\ born' = [born EXCEPT ![x] = @ + 1]
      BY <1>4, <2>4, <3>1 DEF Reply, Creates, Creation
    <3>3. x \in Creations /\ Done(x) /\ born[x] = 0
      BY <3>1, <3>2 DEF Births
    <3>4. born' = [born EXCEPT ![x] = 1]
      BY <3>2, <3>3 DEF Births
    <3>5. \A u \in Thread : Creates(u)' =>
            /\ u # t /\ Creates(u) /\ Creation(u)' = Creation(u) /\ Creation(u) # x
      BY <2>1, <2>2, <3>1, <3>2, CreatesStays DEF Births
    <3>6. (born \in [Creations -> {0, 1}])'
      BY <3>3, <3>4 DEF Births, Creations
    <3>7. \A y \in Creations : born'[y] = 1 => Done(y)'
      BY <1>0, <3>3, <3>4, DoneStays DEF Births
    <3>8. ASSUME NEW u \in Thread, Creates(u)'
          PROVE  (Creation(u) \in Creations /\ Done(Creation(u)) /\ born[Creation(u)] = 0)'
      <4>1. PICK y : y = Creation(u)
        OBVIOUS
      <4>2. y = Creation(u)' /\ y # x /\ y \in Creations /\ Done(y) /\ born[y] = 0
        BY <3>5, <3>8, <4>1 DEF Births
      <4>3. Done(y)' /\ born'[y] = 0
        BY <1>0, <3>4, <4>2, DoneStays DEF Births
      <4> QED
        BY <4>2, <4>3 DEF Done, Creations
    <3>9. (\A u, w \in Thread : Creates(u) /\ Creates(w) /\ Creation(u) = Creation(w) => u = w)'
      BY <3>5 DEF Births
    <3> QED
      BY <3>6, <3>7, <3>8, <3>9 DEF Births, Creations
  <2> QED
    BY <2>3, <2>4
<1> QED
  BY <1>1, <1>2, <1>3, <1>4 DEF Next, vars, Refuse, Call

\* The answer that a thread is about to give is still true, whatever other threads
\* do between the engine's call and the answer, and a creation is answered as such
\* at most once, though threads and clients race.
THEOREM AnswersAreTrue == Spec => []AnswersTell
<1> DEFINE Inv == TypeOK /\ PermitTold /\ Tells /\ Births
<1>1. Init => Inv
  <2>1. Init => TypeOK /\ PermitTold
    BY InitTypes, InitTold
  <2>2. Init => Tells /\ Births
    BY DEF Init, Tells, Births, Idle, Creates, Creations
  <2> QED
    BY <2>1, <2>2
<1>2. Inv /\ [Next]_vars => Inv'
  BY TypeStep, NextGrows, TellsStep, BirthsStep
<1>3. Inv => AnswersTell
  BY DEF Births, Creations, Tells, AnswersTell, CreatedOnce
<1> QED
  BY <1>1, <1>2, <1>3, PTL DEF Spec
=============================================================================
