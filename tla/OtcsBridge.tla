----------------------------- MODULE OtcsBridge -----------------------------
(***************************************************************************)
(* The OTCS bridge (sdk/python/nc25_otcs_bridge.py): workers drive the     *)
(* rows of an outbox from the admission of an operation, over one          *)
(* downstream append, to the execution recorded in the ledger engine.      *)
(*                                                                         *)
(* Three stores and no transaction across them: a worker's step is one     *)
(* call of the engine, one statement of the outbox or one downstream call, *)
(* and anything may happen between two steps.  Of the engine the bridge    *)
(* needs what PermitBook promises; a permit that lapsed is no longer LIVE. *)
(*                                                                         *)
(* A submission is a member of Intent: the intent, its evidence and its    *)
(* operation, which are bound to each other by their hashes and share one  *)
(* key in the outbox.  Validation of documents is abstracted: an           *)
(* IntegrityViolation or a refused document ends the call as a crash does. *)
(***************************************************************************)
EXTENDS PermitBook

CONSTANTS
  Worker,      \* threads or processes that call the bridge
  Expect,      \* per operation, the project head it expects
  MaxHead,     \* bound: appends of others move the head up to here
  MaxCrashes,  \* bound: workers that are lost in a behaviour
  MayStepBack  \* whether the engine's clock may be set back

ASSUME BridgeAssumption ==
  /\ Expect \in [Intent -> Nat]
  /\ MaxHead \in Nat /\ MaxCrashes \in Nat
  /\ MayStepBack \in BOOLEAN

VARIABLES
  row,      \* the outbox: per operation its state and stored execution request
  job,      \* per worker, the call it is in
  head,     \* OTCS: the project head
  effects,  \* OTCS: the operations appended
  wire,     \* requests sent by calls that nobody waits for any more
  crashes   \* how many workers were lost

outside == <<head, effects, wire>>
vars == <<life, left, row, job, head, effects, wire, crashes>>

-----------------------------------------------------------------------------
(* Outbox rows and jobs *)

None == "NONE"

Unknown == {"CALLING", "AMBIGUOUS"}
Answered == {"DOWNSTREAM_COMMITTED", "DOWNSTREAM_REJECTED"}
Settled == {"LOCAL_COMMITTED", "LOCAL_FAILED", "NOT_EXECUTED"}
Final == Settled \cup {"RECONCILIATION_REQUIRED"}
States == {"PREPARED"} \cup Unknown \cup Answered \cup Final

\* The outcome of the execution request that a row stores.
Requests == {None, "COMMITTED", "FAILED"}

NoRow == [state |-> None, request |-> None]
Rows == [state : States, request : Requests]

\* Where a call stands: admit .. prepare .. load are execute's, the rest is _advance.
Places == {"idle", "admit", "prepare", "load", "drive", "claim", "call", "record",
           "reread", "finalize", "settle"}

\* seen is the row as last read, to the state the next write gives it.
Jobs == [pc : Places, op : Intent \cup {None}, recovery : BOOLEAN,
         seen : Rows \cup {NoRow}, to : States \cup {None}]

NoJob == [pc |-> "idle", op |-> None, recovery |-> FALSE, seen |-> NoRow, to |-> None]

Op(w) == job[w].op
At(w, place) == job[w].pc = place
Goes(w, place) == job' = [job EXCEPT ![w].pc = place]
Returns(w) == job' = [job EXCEPT ![w] = NoJob]

\* transition() is a compare-and-set: a row in another state is a conflict.
Transition(o, expected, new) ==
  /\ row[o].state \in expected
  /\ row' = [row EXCEPT ![o] = new]

-----------------------------------------------------------------------------
(* OTCS: an append takes effect once, at the head it expects, and a repeated
   request is answered with the first receipt. *)

Accepts(o) == o \in effects \/ head = Expect[o]

Appends(o) ==
  /\ Accepts(o)
  /\ effects' = effects \cup {o}
  /\ head' = IF o \in effects THEN head ELSE head + 1

Rejects(o) ==
  /\ ~Accepts(o)
  /\ UNCHANGED <<effects, head>>

OthersAppend ==
  /\ head < MaxHead
  /\ head' = head + 1
  /\ UNCHANGED <<life, left, row, job, effects, wire, crashes>>

\* A request whose caller is gone arrives.
ArrivesLate(o) ==
  /\ o \in wire
  /\ wire' = wire \ {o}
  /\ Appends(o) \/ Rejects(o)
  /\ UNCHANGED <<life, left, row, job, crashes>>

\* A request for o has left or is about to, and may yet be handled.
OnItsWay(o) == o \in wire \/ \E w \in Worker : At(w, "call") /\ Op(w) = o

-----------------------------------------------------------------------------
(* execute and recover *)

\* The evidence of a submission names a head that OTCS has had.
Execute(w, o) ==
  /\ At(w, "idle")
  /\ Expect[o] <= head
  /\ job' = [job EXCEPT ![w] =
               [NoJob EXCEPT !.pc = IF row[o] = NoRow THEN "admit" ELSE "drive",
                             !.op = o, !.seen = row[o]]]
  /\ UNCHANGED <<life, left, row, outside, crashes>>

Recover(w, o) ==
  /\ At(w, "idle")
  /\ row[o] # NoRow
  /\ job' = [job EXCEPT ![w] =
               [NoJob EXCEPT !.pc = "drive", !.op = o, !.recovery = TRUE, !.seen = row[o]]]
  /\ UNCHANGED <<life, left, row, outside, crashes>>

\* evaluate_intent: a permit, or the live permit of an earlier submission again.
Admit(w) ==
  /\ At(w, "admit")
  /\ Promise(Op(w), {}) \/ (life[Op(w)] = "LIVE" /\ UNCHANGED bookVars)
  /\ Goes(w, "prepare")
  /\ UNCHANGED <<row, outside, crashes>>

\* Any other answer ends the call, with no row: NOT_ADMISSIBLE, or an error.
TurnedDown(w) ==
  /\ At(w, "admit")
  /\ Returns(w)
  /\ UNCHANGED <<life, left, row, outside, crashes>>

\* prepare() inserts the row unless another worker did.
Prepare(w) ==
  /\ At(w, "prepare")
  /\ row' = IF row[Op(w)] = NoRow
            THEN [row EXCEPT ![Op(w)] = [state |-> "PREPARED", request |-> None]]
            ELSE row
  /\ Goes(w, "load")
  /\ UNCHANGED <<life, left, outside, crashes>>

\* prepare() and transition() return the row by a read of its own, after their
\* write was committed.
Reread(w) ==
  /\ job[w].pc \in {"load", "reread"}
  /\ job' = [job EXCEPT ![w].seen = row[Op(w)],
                        ![w].pc = IF At(w, "load") THEN "drive" ELSE "finalize"]
  /\ UNCHANGED <<life, left, row, outside, crashes>>

-----------------------------------------------------------------------------
(* _advance, up to the downstream call *)

\* A row that is final is answered as it is; one that may have been sent needs
\* recover.
Ends(w) ==
  /\ At(w, "drive")
  /\ LET s == job[w].seen.state IN
     s \in Final \/ (s \in Unknown /\ ~job[w].recovery)
  /\ Returns(w)
  /\ UNCHANGED <<life, left, row, outside, crashes>>

\* Mutation: a row that may have been sent is closed as not executed.
AbandonedAlways(s) == "NOT_EXECUTED"

\* A row whose permit is dead is never sent.  Only PREPARED proves that it was
\* not sent before.
Abandoned(s) == IF s = "PREPARED" THEN "NOT_EXECUTED" ELSE "RECONCILIATION_REQUIRED"

\* _permit_not_live_reason
Check(w) ==
  /\ At(w, "drive")
  /\ LET s == job[w].seen.state IN
     /\ s = "PREPARED" \/ (s \in Unknown /\ job[w].recovery)
     /\ IF life[Op(w)] = "LIVE"
        THEN Goes(w, "claim")
        ELSE job' = [job EXCEPT ![w].pc = "settle", ![w].to = Abandoned(s)]
  /\ UNCHANGED <<life, left, row, outside, crashes>>

Resume(w) ==
  /\ At(w, "drive")
  /\ job[w].seen.state \in Answered
  /\ Goes(w, "finalize")
  /\ UNCHANGED <<life, left, row, outside, crashes>>

Callable(w) == {"PREPARED"} \cup (IF job[w].recovery THEN Unknown ELSE {})

\* The write of CALLING, before the request leaves.
Claim(w) ==
  /\ At(w, "claim")
  /\ Transition(Op(w), Callable(w), [state |-> "CALLING", request |-> None])
  /\ job' = [job EXCEPT ![w].pc = "call", ![w].seen = NoRow]
  /\ UNCHANGED <<life, left, outside, crashes>>

Answers(w, s) == job' = [job EXCEPT ![w].pc = "record", ![w].to = s]

\* append_event returns a receipt; or one that is unusable; or the receipt is lost.
CallAccepted(w) ==
  /\ At(w, "call")
  /\ Appends(Op(w))
  /\ \E s \in {"DOWNSTREAM_COMMITTED", "RECONCILIATION_REQUIRED", "AMBIGUOUS"} :
       Answers(w, s)
  /\ UNCHANGED <<life, left, row, wire, crashes>>

CallRejected(w) ==
  /\ At(w, "call")
  /\ Rejects(Op(w))
  /\ \E s \in {"DOWNSTREAM_REJECTED", "AMBIGUOUS"} : Answers(w, s)
  /\ UNCHANGED <<life, left, row, wire, crashes>>

\* append_event raises before OTCS has handled the request, which may be on its way.
CallFails(w) ==
  /\ At(w, "call")
  /\ wire' \in {wire, wire \cup {Op(w)}}
  /\ Answers(w, "AMBIGUOUS")
  /\ UNCHANGED <<life, left, row, head, effects, crashes>>

\* Mutation: what OTCS answered is taken for a commit.
RequestAlways(s) == IF s \in Answered THEN "COMMITTED" ELSE None

\* The execution request made of an answer.
RequestFor(s) ==
  CASE s = "DOWNSTREAM_COMMITTED" -> "COMMITTED"
    [] s = "DOWNSTREAM_REJECTED" -> "FAILED"
    [] OTHER -> None

\* The write of the answer.
Record(w) ==
  /\ At(w, "record")
  /\ LET s == job[w].to IN
     /\ Transition(Op(w), {"CALLING"}, [state |-> s, request |-> RequestFor(s)])
     /\ IF s \in Answered
        THEN job' = [job EXCEPT ![w].pc = "reread", ![w].to = None]
        ELSE Returns(w)
  /\ UNCHANGED <<life, left, outside, crashes>>

-----------------------------------------------------------------------------
(* _advance, local finalization *)

Settles(w, s) == job' = [job EXCEPT ![w].pc = "settle", ![w].to = s]

\* Mutation: any state but a rejection ends as committed.
EndUnlessRejected(s) == IF s = "DOWNSTREAM_REJECTED" THEN "LOCAL_FAILED" ELSE "LOCAL_COMMITTED"

\* The state of the row as read decides, and not the execution request.
EndOf(s) == IF s = "DOWNSTREAM_COMMITTED" THEN "LOCAL_COMMITTED" ELSE "LOCAL_FAILED"

\* commit_execution records the stored request, or replays its receipt.
Commit(w) ==
  /\ At(w, "finalize")
  /\ LET o == Op(w)
         request == job[w].seen.request
     IN \/ request = "COMMITTED" /\ Spend(o)
        \/ request = "FAILED" /\ Close(o)
        \/ request = "COMMITTED" /\ life[o] = "SPENT" /\ UNCHANGED bookVars
        \/ request = "FAILED" /\ life[o] = "CLOSED" /\ UNCHANGED bookVars
  /\ Settles(w, EndOf(job[w].seen.state))
  /\ UNCHANGED <<row, outside, crashes>>

\* Mutation: a rejection under a dead permit is left where it stands.
RefusedNever(s, dead) ==
  IF s = "DOWNSTREAM_COMMITTED" THEN "RECONCILIATION_REQUIRED" ELSE None

\* Where a refused finalization leaves the row; None: the error leaves it alone.
RefusedTo(s, dead) ==
  CASE s = "DOWNSTREAM_COMMITTED" -> "RECONCILIATION_REQUIRED"
    [] s = "DOWNSTREAM_REJECTED" /\ dead -> "NOT_EXECUTED"
    [] OTHER -> None

\* commit_execution refuses a dead permit, another request than the one it
\* recorded, and a request stamped ahead of a clock that was set back.
Refused(w) ==
  /\ At(w, "finalize")
  /\ LET o == Op(w)
         seen == job[w].seen
         to == RefusedTo(seen.state, life[o] # "LIVE")
     IN /\ \/ seen.request = None
           \/ life[o] = "LIVE" /\ MayStepBack
           \/ life[o] \notin {"LIVE", IF seen.request = "COMMITTED" THEN "SPENT" ELSE "CLOSED"}
        /\ IF seen.request = None \/ to = None THEN Returns(w) ELSE Settles(w, to)
  /\ UNCHANGED <<life, left, row, outside, crashes>>

\* Mutation: the last write does not compare.
UncomparedSettle(w) == States

SettlesFrom(w) == {job[w].seen.state}

\* The last write of a call keeps the execution request.
Settle(w) ==
  /\ At(w, "settle")
  /\ Transition(Op(w), SettlesFrom(w),
                [state |-> job[w].to, request |-> job[w].seen.request])
  /\ Returns(w)
  /\ UNCHANGED <<life, left, outside, crashes>>

\* A lost compare-and-set raises OTCS_OUTBOX_CONFLICT and changes nothing.
Conflict(w) ==
  /\ \/ At(w, "claim") /\ row[Op(w)].state \notin Callable(w)
     \/ At(w, "record") /\ row[Op(w)].state # "CALLING"
     \/ At(w, "settle") /\ row[Op(w)].state \notin SettlesFrom(w)
  /\ Returns(w)
  /\ UNCHANGED <<life, left, row, outside, crashes>>

-----------------------------------------------------------------------------
(* What happens to a worker and to a permit *)

\* A worker is lost, or a check of documents raises.  A request on its way may
\* still arrive.
Crash(w) ==
  /\ crashes < MaxCrashes
  /\ ~At(w, "idle")
  /\ crashes' = crashes + 1
  /\ wire' = IF At(w, "call") THEN wire \cup {Op(w)} ELSE wire
  /\ Returns(w)
  /\ UNCHANGED <<life, left, row, head, effects>>

\* Expiry, revocation, or another call that ends the permit.
PermitEnds(o) ==
  /\ End({o})
  /\ UNCHANGED <<row, job, outside, crashes>>

-----------------------------------------------------------------------------
Init ==
  /\ BookInit
  /\ row = [o \in Intent |-> NoRow]
  /\ job = [w \in Worker |-> NoJob]
  /\ head = 0
  /\ effects = {}
  /\ wire = {}
  /\ crashes = 0

\* The steps of a call that was made.
Steps(w) ==
  \/ Admit(w) \/ TurnedDown(w) \/ Prepare(w) \/ Reread(w)
  \/ Ends(w) \/ Check(w) \/ Resume(w) \/ Claim(w)
  \/ CallAccepted(w) \/ CallRejected(w) \/ CallFails(w) \/ Record(w)
  \/ Commit(w) \/ Refused(w) \/ Settle(w) \/ Conflict(w)

Next ==
  \/ \E w \in Worker, o \in Intent : Execute(w, o) \/ Recover(w, o)
  \/ \E w \in Worker : Steps(w) \/ Crash(w)
  \/ \E o \in Intent : PermitEnds(o) \/ ArrivesLate(o)
  \/ OthersAppend

Spec == Init /\ [][Next]_vars

\* A call that was made goes on; permits have a lifetime; and whoever runs the
\* bridge keeps recovering each row, between the other calls.
Fairness ==
  /\ \A w \in Worker : WF_vars(Steps(w))
  /\ \A o \in Intent : /\ SF_vars(\E w \in Worker : Recover(w, o))
                       /\ WF_vars(PermitEnds(o))

FairSpec == Spec /\ Fairness

-----------------------------------------------------------------------------
(* Properties *)

\* A call is about an operation, and knows what it is going to write.
WellFormed(j) ==
  /\ j.pc # "idle" => j.op \in Intent
  /\ j.pc \in {"record", "settle"} => j.to \in States

Typed ==
  /\ life \in [Intent -> {"NONE", "LIVE", "SPENT", "CLOSED", "DEAD"}]
  /\ row \in [Intent -> Rows \cup {NoRow}]
  /\ job \in [Worker -> {j \in Jobs : WellFormed(j)}]
  /\ head \in Nat /\ crashes \in 0 .. MaxCrashes
  /\ effects \subseteq Intent /\ wire \subseteq Intent

\* The types of the variables; and a row keeps the execution request that its
\* state needs: the one that commit_execution was or will be asked to record,
\* which every transition writes anew.
TypeOK ==
  /\ Typed
  /\ \A o \in Intent :
       /\ row[o].state \in {"DOWNSTREAM_COMMITTED", "LOCAL_COMMITTED"}
            => row[o].request = "COMMITTED"
       /\ row[o].state = "DOWNSTREAM_REJECTED" => row[o].request = "FAILED"

\* A row that says LOCAL_COMMITTED stands for an effect that took place and was
\* charged, whatever several workers do to the row (the last write of _advance).
CommittedTells ==
  \A o \in Intent : row[o].state = "LOCAL_COMMITTED" => o \in effects /\ life[o] = "SPENT"

\* A row that says NOT_EXECUTED stands for an operation without effect, now and
\* later: no request that is still on its way can append it (_advance: PREPARED
\* was never sent, and a definitive refusal stays one).
NotExecutedTells ==
  \A o \in Intent :
    row[o].state = "NOT_EXECUTED"
      => o \notin effects /\ (OnItsWay(o) => head > Expect[o])

\* Nothing is charged that did not take place: the engine records COMMITTED only
\* from a stored receipt.
DebitsFollowEffects == \A o \in Intent : life[o] = "SPENT" => o \in effects

\* "A definitive OTCS refusal known to have produced no external effect": a row
\* that says LOCAL_FAILED stands for an operation without effect.
FailedTells == \A o \in Intent : row[o].state = "LOCAL_FAILED" => o \notin effects

\* Under repeated recovery every row is settled or handed over: no state of the
\* row, of the permit and of OTCS leaves _advance without a way on.
EveryRowEnds == \A o \in Intent : row[o] # NoRow ~> row[o].state \in Final

-----------------------------------------------------------------------------
(* The abstract specification *)

VerdictOf(o) ==
  CASE row[o].state = "LOCAL_COMMITTED" -> "COMMITTED"
    [] row[o].state = "LOCAL_FAILED" -> "FAILED"
    [] row[o].state = "NOT_EXECUTED" -> "NOT_EXECUTED"
    [] row[o].state = "RECONCILIATION_REQUIRED" -> "HANDED_OVER"
    [] OTHER -> "OPEN"

Promised == INSTANCE AppendPromise
  WITH verdict <- [o \in Intent |-> VerdictOf(o)],
       debited <- {o \in Intent : life[o] = "SPENT"}

\* One worker at a time, with crashes, lost answers and late requests, keeps the
\* promise of a governed append: one effect at most, one verdict, a true one.
KeepsPromise == Promised!PromiseSpec
=============================================================================
