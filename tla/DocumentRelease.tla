--------------------------- MODULE DocumentRelease ---------------------------
(***************************************************************************)
(* The document gateway (examples/local_release/document_release.py): one  *)
(* gateway, serialized by its lock, takes a document from the admission of *)
(* its intent, over one request to a target in another process, to the     *)
(* execution recorded in the ledger engine.                                *)
(*                                                                         *)
(* Engine, outbox and target have a store each and no transaction in       *)
(* common, so a step is one call of the engine, one _save or one event at  *)
(* the target.  The gateway may die between two steps and is then opened   *)
(* anew on the same outbox.  Its lock makes it the one that writes a row,  *)
(* so the row in memory is the row in the outbox.  Unlike OtcsBridge it    *)
(* writes without comparing, takes no refusal of the target for an answer, *)
(* and re-drives every row that is not final.                              *)
(*                                                                         *)
(* A submission is an operation, its intent and its evidence, bound to each*)
(* other (_bind) under one key.  A MAC or a binding that does not verify   *)
(* raises, and ends the call as a crash does.                              *)
(***************************************************************************)
EXTENDS PermitBook, Sequences

CONSTANTS
  Expect,       \* per submission, how many releases its expected_head has seen
  MaxCrashes,   \* bound: gateways that die in a behaviour
  ClocksDiffer  \* whether the target's clock may run ahead of the engine's

None == "NONE"

ASSUME ReleaseAssumption ==
  /\ None \notin Intent
  /\ IsFiniteSet(Intent) /\ Cost \in [Intent -> Nat] /\ Capacity \in Nat
  /\ Expect \in [Intent -> Nat]
  /\ MaxCrashes \in Nat
  /\ ClocksDiffer \in BOOLEAN

VARIABLES
  row,       \* the outbox: per submission the state of its row
  job,       \* the call that holds the lock
  released,  \* target: the submissions released, in the order of the head chain
  overdue,   \* target: the submissions whose expires_at its clock has passed
  wire,      \* requests in flight that no caller waits for
  crashes    \* how many gateways died

outside == <<released, overdue, wire>>
vars == <<life, left, row, job, released, overdue, wire, crashes>>

Final == {"COMMITTED", "NOT_EXECUTED", "RECONCILIATION_REQUIRED"}
States == {"PREPARED", "CALLING", "AMBIGUOUS", "TARGET_COMMITTED"} \cup Final

Places == {"idle", "evaluate", "prepare", "advance", "claim", "call", "record",
           "finalize", "settle"}

\* Where a call stands, and the state its next _save writes.
Jobs == [pc : Places, op : Intent \cup {None}, to : States \cup {None}]
NoJob == [pc |-> "idle", op |-> None, to |-> None]

At(place) == job.pc = place
Goes(place) == job' = [job EXCEPT !.pc = place]
Writes(place, s) == job' = [job EXCEPT !.pc = place, !.to = s]
Returns == job' = NoJob

Save(s) == row' = [row EXCEPT ![job.op] = s]

-----------------------------------------------------------------------------
(* The target *)

Effects == {released[n] : n \in DOMAIN released}

\* A stored receipt is answered whatever the time and the head are; a first
\* effect needs both.
Admits(o) == o \in Effects \/ (o \notin overdue /\ Expect[o] = Len(released))

\* Mutation: a repeated request is taken for a new one.
ReleasesAlways(o) == released' = Append(released, o)

Releases(o) == released' = IF o \in Effects THEN released ELSE Append(released, o)

\* Target.append: one transaction.
Appends(o) == Admits(o) /\ Releases(o)

Refuses(o) == ~Admits(o) /\ UNCHANGED released

\* A request whose caller gave up is handled.
ArrivesLate(o) ==
  /\ o \in wire
  /\ wire' = wire \ {o}
  /\ Appends(o) \/ Refuses(o)
  /\ UNCHANGED <<life, left, row, job, overdue, crashes>>

\* The target's clock passes the lifetime of a permit.
Overdue(o) ==
  /\ life[o] # "NONE"
  /\ overdue' = overdue \cup {o}
  /\ UNCHANGED <<life, left, row, job, released, wire, crashes>>

-----------------------------------------------------------------------------
(* submit and recover *)

Submit(o) ==
  /\ At("idle")
  /\ Expect[o] <= Len(released)
  /\ job' = [NoJob EXCEPT !.pc = IF row[o] = None THEN "evaluate" ELSE "advance",
                          !.op = o]
  /\ UNCHANGED <<life, left, row, outside, crashes>>

Recover(o) ==
  /\ At("idle")
  /\ row[o] # None
  /\ job' = [NoJob EXCEPT !.pc = "advance", !.op = o]
  /\ UNCHANGED <<life, left, row, outside, crashes>>

\* evaluate_intent: a permit, or the live one of a submission whose gateway died.
Evaluate ==
  /\ At("evaluate")
  /\ Promise(job.op, {}) \/ (life[job.op] = "LIVE" /\ UNCHANGED bookVars)
  /\ Goes("prepare")
  /\ UNCHANGED <<row, outside, crashes>>

\* Any other answer leaves no row.
NotAdmissible ==
  /\ At("evaluate")
  /\ Returns
  /\ UNCHANGED <<life, left, row, outside, crashes>>

Prepare ==
  /\ At("prepare")
  /\ Save("PREPARED")
  /\ Goes("advance")
  /\ UNCHANGED <<life, left, outside, crashes>>

-----------------------------------------------------------------------------
(* _advance *)

\* A row that is final is answered as it is; COMMITTED only if the engine replays
\* the execution.
Ends ==
  /\ At("advance")
  /\ row[job.op] \in Final
  /\ row[job.op] = "COMMITTED" => life[job.op] = "SPENT"
  /\ Returns
  /\ UNCHANGED <<life, left, row, outside, crashes>>

\* Where a row goes whose permit is refused: only PREPARED was never sent.
Abandoned(s) == IF s = "PREPARED" THEN "NOT_EXECUTED" ELSE "RECONCILIATION_REQUIRED"

\* The intent is evaluated again before each request.
Check ==
  /\ At("advance")
  /\ row[job.op] \in {"PREPARED", "CALLING", "AMBIGUOUS"}
  /\ IF life[job.op] = "LIVE"
     THEN Goes("claim")
     ELSE Writes("settle", Abandoned(row[job.op]))
  /\ UNCHANGED <<life, left, row, outside, crashes>>

\* Mutation: CALLING is not written before the request leaves.
UnsavedClaim == "PREPARED"

Claimed == "CALLING"

Claim ==
  /\ At("claim")
  /\ Save(Claimed)
  /\ Goes("call")
  /\ UNCHANGED <<life, left, outside, crashes>>

\* The target answers with a receipt; the gateway gets it, gets it unusable, or
\* does not get it.
CallAnswered ==
  /\ At("call")
  /\ Appends(job.op)
  /\ \E s \in {"TARGET_COMMITTED", "RECONCILIATION_REQUIRED", "AMBIGUOUS"} :
       Writes("record", s)
  /\ UNCHANGED <<life, left, row, overdue, wire, crashes>>

\* A refusal of the target proves nothing: it may come from a proxy.
CallRefused ==
  /\ At("call")
  /\ Refuses(job.op)
  /\ Writes("record", "AMBIGUOUS")
  /\ UNCHANGED <<life, left, row, overdue, wire, crashes>>

\* The client gives up after 3 s; its request may still be handled.
CallFails ==
  /\ At("call")
  /\ wire' \in {wire, wire \cup {job.op}}
  /\ Writes("record", "AMBIGUOUS")
  /\ UNCHANGED <<life, left, row, released, overdue, crashes>>

\* AMBIGUOUS is raised, RECONCILIATION_REQUIRED returned, and a receipt goes on.
Record ==
  /\ At("record")
  /\ Save(job.to)
  /\ IF job.to = "TARGET_COMMITTED" THEN Writes("finalize", None) ELSE Returns
  /\ UNCHANGED <<life, left, outside, crashes>>

Resume ==
  /\ At("advance")
  /\ row[job.op] = "TARGET_COMMITTED"
  /\ Goes("finalize")
  /\ UNCHANGED <<life, left, row, outside, crashes>>

\* commit_execution: recorded now, or replayed to a gateway that died after it.
Commit ==
  /\ At("finalize")
  /\ Spend(job.op) \/ (life[job.op] = "SPENT" /\ UNCHANGED bookVars)
  /\ Writes("settle", "COMMITTED")
  /\ UNCHANGED <<row, outside, crashes>>

\* Mutation: a refused commit is retried for ever.
FinalizedAgain == "TARGET_COMMITTED"

Unfinalized == "RECONCILIATION_REQUIRED"

\* commit_execution refuses a dead permit, and a time of effect ahead of its own.
Refused ==
  /\ At("finalize")
  /\ life[job.op] = "DEAD" \/ (life[job.op] = "LIVE" /\ ClocksDiffer)
  /\ Writes("settle", Unfinalized)
  /\ UNCHANGED <<life, left, row, outside, crashes>>

Settle ==
  /\ At("settle")
  /\ Save(job.to)
  /\ Returns
  /\ UNCHANGED <<life, left, outside, crashes>>

-----------------------------------------------------------------------------
\* The gateway dies, or a check raises; its request may still be handled.
Crash ==
  /\ crashes < MaxCrashes
  /\ ~At("idle")
  /\ crashes' = crashes + 1
  /\ wire' \in {wire, IF At("call") THEN wire \cup {job.op} ELSE wire}
  /\ Returns
  /\ UNCHANGED <<life, left, row, released, overdue>>

\* A permit expires, or is revoked.
PermitEnds(o) ==
  /\ End({o})
  /\ UNCHANGED <<row, job, outside, crashes>>

Init ==
  /\ BookInit
  /\ row = [o \in Intent |-> None]
  /\ job = NoJob
  /\ released = <<>>
  /\ overdue = {} /\ wire = {}
  /\ crashes = 0

Steps ==
  \/ Evaluate \/ NotAdmissible \/ Prepare
  \/ Ends \/ Check \/ Claim \/ CallAnswered \/ CallRefused \/ CallFails \/ Record
  \/ Resume \/ Commit \/ Refused \/ Settle

Next ==
  \/ \E o \in Intent : Submit(o) \/ Recover(o)
  \/ Steps
  \/ Crash
  \/ \E o \in Intent : PermitEnds(o) \/ ArrivesLate(o) \/ Overdue(o)

Spec == Init /\ [][Next]_vars

\* A call that was made goes on; permits have a lifetime; and whoever runs the
\* gateway recovers each row again and again, between the other calls.
Fairness ==
  /\ WF_vars(Steps)
  /\ \A o \in Intent : SF_vars(Recover(o)) /\ WF_vars(PermitEnds(o))

FairSpec == Spec /\ Fairness

-----------------------------------------------------------------------------
(* Properties *)

\* The types of the variables.
TypeOK ==
  /\ life \in [Intent -> {"NONE", "LIVE", "SPENT", "DEAD"}]
  /\ left \in Nat
  /\ row \in [Intent -> States \cup {None}]
  /\ job \in Jobs /\ (At("idle") <=> job.op = None)
  /\ released \in Seq(Intent)
  /\ overdue \subseteq Intent /\ wire \subseteq Intent
  /\ crashes \in 0 .. MaxCrashes

\* The target's history is the one each submission was approved on: whatever is
\* retried or arrives late, a document is released once and in its own place in
\* the head chain, so of two approved on one head one at most is released.
ReleasedInPlace == \A n \in DOMAIN released : Expect[released[n]] = n - 1

\* What the outbox says of the two other stores is so after any crash: a
\* TARGET_COMMITTED row has its release to finalize, and a COMMITTED row its
\* release and its execution, so the replay that proves it succeeds.
OutboxTells ==
  \A o \in Intent :
    /\ row[o] = "TARGET_COMMITTED" => o \in Effects
    /\ row[o] = "COMMITTED" => o \in Effects /\ life[o] = "SPENT"

\* Under repeated recovery every row is committed, closed or handed over, though
\* its gateway dies, its answers get lost or its permit ends at any point.
EveryRowEnds == \A o \in Intent : row[o] # None ~> row[o] \in Final

VerdictOf(o) ==
  CASE row[o] = "RECONCILIATION_REQUIRED" -> "HANDED_OVER"
    [] row[o] \in {"COMMITTED", "NOT_EXECUTED"} -> row[o]
    [] OTHER -> "OPEN"

Promised == INSTANCE AppendPromise
  WITH verdict <- [o \in Intent |-> VerdictOf(o)],
       effects <- Effects,
       debited <- {o \in Intent : life[o] = "SPENT"}

\* The gateway keeps the promise of a governed append, the one the OTCS bridge
\* keeps: one release at most, one verdict, a true one; NOT_EXECUTED is never
\* followed by a release, and what is handed over is never charged.
KeepsPromise == Promised!PromiseSpec
=============================================================================
