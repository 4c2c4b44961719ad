----------------------------- MODULE HttpAdapter -----------------------------
(***************************************************************************)
(* The HTTP adapter (sdk/python/nc25_universal_adapter.py): server threads *)
(* take requests through the checks of the wire to one call of the engine, *)
(* and turn its outcome into a status.  Clients repeat requests, at once or*)
(* later, and may not get the answer.                                      *)
(*                                                                         *)
(* A request is its operation, its content reduced to what can conflict,   *)
(* and the set of things wrong with it on the wire.  Of the engine, whose  *)
(* calls are atomic (StateStore), only what conflicts is kept: the         *)
(* activation, the grants, the keys of submissions and the permits.        *)
(***************************************************************************)
EXTENDS Integers, Sequences

CONSTANTS
  Thread,      \* server threads
  Grant,       \* identifiers of grants
  Key,         \* idempotency keys
  Submission,  \* intents, a permit each
  KeyOf,       \* per submission, its key
  GrantOf,     \* per submission, the grant it names
  Version,     \* contents that share an identifier
  FaultSets    \* what may be wrong with a request on the wire

None == "none"

\* What the adapter checks, in its order, by the fault each check finds.
Arrival == <<"no route", "scope absent", "scope wrong">>

Body == <<"length", "too large", "no stream", "not text", "nesting", "not json",
          "not object", "no validator", "schema">>

Bindings == [activate |-> <<"other profile", "other declaration">>,
             issue |-> <<>>, revoke |-> <<>>,
             evaluate |-> <<"key absent", "other key">>,
             consume |-> <<>>, read |-> <<>>]

Operation == DOMAIN Bindings

\* Mutation: the body is read before the scope is asked for.
ChecksBodyFirst(op) == Body \o Arrival \o Bindings[op]

Checks(op) == IF op = "read" THEN Arrival ELSE Arrival \o Body \o Bindings[op]

Faults == UNION {{Checks(op)[n] : n \in DOMAIN Checks(op)} : op \in Operation}
Unscoped == {"scope absent", "scope wrong"}

\* The status that each fault is refused with.
Refusal(fault) ==
  IF fault = "no route" THEN 404
  ELSE IF fault \in Unscoped THEN 403
  ELSE IF fault = "too large" THEN 413
  ELSE IF fault = "no validator" THEN 503
  ELSE IF fault \in {"other profile", "other declaration", "other key"} THEN 409
  ELSE 400

Statuses == {200, 201, 204, 400, 403, 404, 409, 413, 503}

ASSUME AdapterAssumption ==
  /\ KeyOf \in [Submission -> Key]
  /\ GrantOf \in [Submission -> Grant]
  /\ FaultSets \subseteq SUBSET Faults /\ {} \in FaultSets
  /\ None \notin Grant \cup Key \cup Submission \cup Version

VARIABLES
  active,  \* the declaration is activated
  grants,  \* per grant identifier, the grant issued under it
  ended,   \* the grants revoked
  bound,   \* per key, the submission it is bound to
  permit,  \* per submission, its permit
  spent,   \* per submission, the execution recorded
  thread,  \* what each thread is at
  last,    \* the refusal that went out last, to whom and where
  born     \* per operation and subject, how often 201 was answered

engine == <<active, grants, ended, bound, permit, spent>>
vars == <<active, grants, ended, bound, permit, spent, thread, last, born>>

Contents ==
  ({"activate"} \X {"declaration"} \X {None})
  \cup ({"issue"} \X Grant \X Version)
  \cup ({"revoke"} \X Grant \X {None})
  \cup ({"evaluate"} \X Submission \X {None})
  \cup ({"consume"} \X Submission \X Version)
  \cup ({"read"} \X Submission \X {None})

Op(r) == r[1]
Subject(r) == r[2]
Content(r) == r[3]

\* A thread is idle, has a request for the engine, or has its outcome.
Stages == [stage : {"idle"}]
          \cup [stage : {"dispatched"}, request : Contents]
          \cup [stage : {"served"}, request : Contents, status : Statuses]

Idle == [stage |-> "idle"]

-----------------------------------------------------------------------------
(* _dispatch, _read_json, the schemas and the handlers, up to the engine *)

FirstFailed(op, faults, n) ==
  /\ Checks(op)[n] \in faults
  /\ \A m \in 1 .. n - 1 : Checks(op)[m] \notin faults

\* A request with a fault is answered at once, for the first check it fails.
Refuse(op, faults) ==
  /\ \E n \in DOMAIN Checks(op) :
       /\ FirstFailed(op, faults, n)
       /\ last' = [scoped |-> faults \cap Unscoped = {},
                   routed |-> "no route" \notin faults,
                   status |-> Refusal(Checks(op)[n])]
  /\ UNCHANGED <<engine, thread, born>>

Dispatch(t, r) ==
  /\ thread[t].stage = "idle"
  /\ thread' = [thread EXCEPT ![t] = [stage |-> "dispatched", request |-> r]]
  /\ UNCHANGED <<engine, last, born>>

Asks(t, op) == thread[t].stage = "dispatched" /\ Op(thread[t].request) = op

Outcome(t, status) ==
  thread' = [thread EXCEPT ![t] =
    [stage |-> "served", request |-> thread[t].request, status |-> status]]

-----------------------------------------------------------------------------
(* The engine's calls, and the statuses their outcomes become *)

Activate(t) ==
  /\ Asks(t, "activate")
  /\ Outcome(t, IF active THEN 409 ELSE 201)
  /\ active' = TRUE
  /\ UNCHANGED <<grants, ended, bound, permit, spent, last, born>>

\* Whether the grant is new is found in the same call that records it.
IssueStatus(g, v) ==
  IF grants[g] = None THEN 201 ELSE IF grants[g] = v THEN 200 ELSE 409

\* Mutation: the last content issued under an identifier counts.
RecordedLast(g, v) == v

Recorded(g, v) == IF grants[g] = None THEN v ELSE grants[g]

IssueGrant(t) ==
  /\ Asks(t, "issue") /\ active
  /\ LET r == thread[t].request
         g == Subject(r) IN
     /\ Outcome(t, IF g \in ended THEN 400 ELSE IssueStatus(g, Content(r)))
     /\ grants' = [grants EXCEPT ![g] = Recorded(g, Content(r))]
  /\ UNCHANGED <<active, ended, bound, permit, spent, last, born>>

\* Mutation: a revocation needs no grant.
RevocableAlways(g) == TRUE

Revocable(g) == grants[g] # None

RevokeGrant(t) ==
  /\ Asks(t, "revoke")
  /\ LET g == Subject(thread[t].request) IN
     \/ /\ ~Revocable(g)
        /\ Outcome(t, 404)
        /\ UNCHANGED <<ended, permit>>
     \/ /\ Revocable(g)
        /\ Outcome(t, 204)
        /\ ended' = ended \cup {g}
        /\ permit' = [s \in Submission |-> IF permit[s] = "LIVE" /\ GrantOf[s] = g
                                           THEN "DEAD" ELSE permit[s]]
  /\ UNCHANGED <<active, grants, bound, spent, last, born>>

\* A new submission is admitted, if there is a grant, or turned down; either way
\* it takes its key.
EvaluateNew(t) ==
  /\ Asks(t, "evaluate") /\ active
  /\ LET s == Subject(thread[t].request) IN
     /\ bound[KeyOf[s]] = None
     /\ bound' = [bound EXCEPT ![KeyOf[s]] = s]
     /\ \E admitted \in BOOLEAN :
          /\ admitted => grants[GrantOf[s]] # None /\ GrantOf[s] \notin ended
          /\ permit' = IF admitted THEN [permit EXCEPT ![s] = "LIVE"] ELSE permit
  /\ Outcome(t, 200)
  /\ UNCHANGED <<active, grants, ended, spent, last, born>>

\* A submission is replayed: an error if its permit is consumed or expired.
EvaluateAgain(t) ==
  /\ Asks(t, "evaluate") /\ active
  /\ LET s == Subject(thread[t].request) IN
     /\ bound[KeyOf[s]] # None
     /\ \E status \in IF bound[KeyOf[s]] # s THEN {409}
                      ELSE IF permit[s] = "SPENT" THEN {400}
                      ELSE IF permit[s] = "DEAD" THEN {200, 400} ELSE {200} :
          Outcome(t, status)
  /\ UNCHANGED <<engine, last, born>>

\* Mutation: a consumed permit replays its receipt to any request.
ReplayStatusOfPermit(s, v) == 200

ReplayStatus(s, v) == IF spent[s] = v THEN 200 ELSE 409

\* A live permit is consumed, or refused and dead for it.
ConsumePermit(t) ==
  /\ Asks(t, "consume")
  /\ LET r == thread[t].request
         s == Subject(r) IN
     \/ /\ permit[s] = "LIVE"
        /\ permit' = [permit EXCEPT ![s] = "SPENT"]
        /\ spent' = [spent EXCEPT ![s] = Content(r)]
        /\ Outcome(t, 200)
     \/ /\ permit[s] = "LIVE"
        /\ permit' = [permit EXCEPT ![s] = "DEAD"]
        /\ UNCHANGED spent
        /\ Outcome(t, 400)
     \/ /\ \/ permit[s] = "NONE" /\ Outcome(t, 404)
           \/ permit[s] = "DEAD" /\ Outcome(t, 400)
           \/ permit[s] = "SPENT" /\ Outcome(t, ReplayStatus(s, Content(r)))
        /\ UNCHANGED <<permit, spent>>
  /\ UNCHANGED <<active, grants, ended, bound, last, born>>

\* A read by the architect.
ReadPermit(t) ==
  /\ Asks(t, "read")
  /\ Outcome(t, IF permit[Subject(thread[t].request)] = "NONE" THEN 404 ELSE 200)
  /\ UNCHANGED <<engine, last, born>>

\* What the engine refuses for what the request says, or halts on.
Declined(t) ==
  /\ thread[t].stage = "dispatched"
  /\ \E status \in {400, 503} : Outcome(t, status)
  /\ UNCHANGED <<engine, last, born>>

-----------------------------------------------------------------------------
(* The answer *)

\* The status goes out; or the rest fails and INTERNAL_FAILURE does; or the client
\* is gone.
Reply(t) ==
  /\ thread[t].stage = "served"
  /\ LET r == thread[t].request
         x == <<Op(r), Subject(r)>> IN
     \/ /\ thread[t].status = 201
        /\ born' = [born EXCEPT ![x] = @ + 1]
     \/ UNCHANGED born
  /\ thread' = [thread EXCEPT ![t] = Idle]
  /\ UNCHANGED <<engine, last>>

Init ==
  /\ active = FALSE
  /\ grants = [g \in Grant |-> None] /\ ended = {}
  /\ bound = [k \in Key |-> None]
  /\ permit = [s \in Submission |-> "NONE"]
  /\ spent = [s \in Submission |-> None]
  /\ thread = [t \in Thread |-> Idle]
  /\ last = [scoped |-> TRUE, routed |-> TRUE, status |-> 404]
  /\ born = [x \in {"activate"} \X {"declaration"} \cup {"issue"} \X Grant |-> 0]

Next ==
  \/ \E op \in Operation, faults \in FaultSets : Refuse(op, faults)
  \/ \E t \in Thread :
       \/ \E r \in Contents : Dispatch(t, r)
       \/ Activate(t) \/ IssueGrant(t) \/ RevokeGrant(t)
       \/ EvaluateNew(t) \/ EvaluateAgain(t) \/ ConsumePermit(t)
       \/ ReadPermit(t) \/ Declined(t)
       \/ Reply(t)

Spec == Init /\ [][Next]_vars

-----------------------------------------------------------------------------
(* Properties *)

\* The types of the variables; only grants that were issued are revoked.
TypeOK ==
  /\ active \in BOOLEAN
  /\ grants \in [Grant -> Version \cup {None}]
  /\ ended \subseteq {g \in Grant : grants[g] # None}
  /\ bound \in [Key -> Submission \cup {None}]
  /\ permit \in [Submission -> {"NONE", "LIVE", "SPENT", "DEAD"}]
  /\ spent \in [Submission -> Version \cup {None}]
  /\ thread \in [Thread -> Stages]
  /\ last \in [scoped : BOOLEAN, routed : BOOLEAN, status : Statuses]
  /\ \A x \in DOMAIN born : born[x] \in Nat

Answer == [request : {r \in Contents : Op(r) # "read"}, status : {200, 201, 204, 409}]

\* What a status says of a request.
Holds(a) ==
  LET r == a.request
      i == Subject(r)
      did == a.status # 409
  IN /\ Op(r) = "activate" => active
     /\ Op(r) = "issue" => grants[i] # None /\ (did <=> grants[i] = Content(r))
     /\ Op(r) = "revoke" => did /\ i \in ended
     /\ Op(r) = "evaluate" => bound[KeyOf[i]] # None /\ (did <=> bound[KeyOf[i]] = i)
     /\ Op(r) = "consume" => spent[i] # None /\ (did <=> spent[i] = Content(r))

CreatedOnce == \A x \in DOMAIN born : born[x] <= 1

\* The answer that a thread is about to give is still true, whatever other threads
\* do between the engine's call and the answer: success says that what was asked
\* is recorded under its identifier, and a conflict that something else is.  And a
\* creation is answered as such at most once, though threads and clients race.
AnswersTell ==
  /\ \A t \in Thread : thread[t].stage = "served" =>
       LET a == [request |-> thread[t].request, status |-> thread[t].status] IN
       a \in Answer => Holds(a)
  /\ CreatedOnce

\* And it stays true: no request that could be told success can ever be told a
\* conflict, or the other way round, however it is repeated and whoever else asks.
NoAnswerTurns == [][\A a \in Answer : Holds(a) => Holds(a)']_vars

\* Who presents no scope or another learns the route and nothing else: not what
\* is wrong with the body, nor what the engine holds.
ScopeFirst == ~last.scoped => last.status = IF last.routed THEN 403 ELSE 404
=============================================================================
