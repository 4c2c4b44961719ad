# NC25OL in TLA+

A verification development of NC25OL (Non-Commutative 25 Operational Ledger):
the permit ledger engine of `sdk/python/nc25_universal_ledger.py` and the
programs around it. Line numbers refer to the files of this repository.

## 1. Inventory

| Component | State it keeps | Operations |
|---|---|---|
| **Permit ledger engine**, `UniversalConnectionLedger` | declaration status, grants and revoked grants, idempotency table, decisions, permits, `structural_remaining`, `committed_resources`, execution replays, permit signer, verifier registry, event chain | `activate`, `issue_grant`, `revoke_grant`, `evaluate_intent`, `commit_execution`, `rotate_permit_signer`, `revoke_permit_key`; reads for the architect, the observer and the registry |
| **Durable engine**, `_state_locked` over `SQLiteStateStore` | one snapshot row in SQLite; signers and verifiers stay in the process | `BEGIN IMMEDIATE`, load, refuse a rolled-back store, restore, run the call, save or roll back |
| **Validation**, `validate_profile`, `validate_declaration`, grant and intent checks | none; the engine keeps what was accepted | accept or refuse a document, judge an intent |
| **Event chain and export**, `AppendOnlyLedger`, `build_observer_export` | a hash-linked list of signed events | `append`, `verify`, `head`, projection, export |
| **Offline reader**, `nc25ol_reader.py` | none | `verify_export`, `read_export` |
| **OTCS bridge**, `OTCSBridge` and `SQLiteOTCSOutbox` | an outbox row per operation: PREPARED, CALLING, AMBIGUOUS, DOWNSTREAM_COMMITTED, DOWNSTREAM_REJECTED, LOCAL_COMMITTED, LOCAL_FAILED, NOT_EXECUTED, RECONCILIATION_REQUIRED | `execute`, `recover`, compare-and-set `transition` |
| **Document gateway and target**, `document_release.py` | an outbox row per document, and the target's documents | `submit`, `recover`; `Target.append` |
| **HTTP adapter**, `nc25_universal_adapter.py` | none of its own | dispatch: route, scope, body, schema, engine call, status |
| **Spectrum observation and release sessions** | snapshots of the sources, the observation's report, the package, the document session | observe, receive, prepare, open, submit once |
| **Exchange of views and objections**, `exchange.py` | the owner's pinned view, each reader's pinned view | export, read, object, attribute |
| **Primitives, tools** | none | hashes, signatures, report builders |

How they interact. The adapter, the bridge and the gateway call the engine, and
nothing else changes its state. The engine takes one re-entrant lock per public
call; with a store, the lock is followed by an SQLite transaction, so calls from
several processes are serialised too. The bridge asks the engine for a permit,
writes its outbox, calls the downstream system, and then commits the execution
in the engine: three stores, and no transaction across them. The gateway does
the same against its own target. The release session submits through the gateway
what the observation was made of. The clock and the resolvers of controls and
evidence are called back from inside an evaluation.

What is hard.

- *Time inside a call.* A call reads the clock several times: at
  `_assert_active` (3070), at its own `_now()`, at every purge, and when an event
  is stamped. The declaration, a grant or a permit can lapse in between.
- *Lazy expiry.* An expired permit stays active until a read of capacity
  purges it, and a revocation may come first.
- *Races between permits.* Permits for a resource without
  `reservation_required` hold nothing until they commit.
- *Retries.* A submission may return under its idempotency key at any time, and
  an execution after its permit, grant or declaration has ended.
- *Custody.* Permit keys rotate and are revoked while permits are live, and
  each process has a registry of its own.
- *Partial failure and recovery.* A save fails, a process dies or is interrupted
  between two stores, an older file is put back, an answer is lost or late.
- *Documents accepted apart and used together.* An evaluation looks things up in
  four documents, each of which was validated without the later ones.
- *Sources without a lock.* A checkout may change and change back between any
  two reads of one release.

What makes each component correct.

- Engine: the budget is a counter of committed actions and nothing else; live
  reservations can always be paid; windows are never exceeded; nothing commits
  outside its authority; an ended permit stays ended, of one cause; a replay
  tells the truth; the event chain tells the executions.
- Durable engine: the processes together are one serial engine; what was
  acknowledged is stored; no process works on a store older than what it has seen.
- Validation: what was accepted is enough for the evaluation that relies on it,
  and what is allowed is within every document.
- Bridge and gateway: at most one external effect per operation, none under a
  dead permit, every effect finally accounted for or handed to reconciliation.
- Export and reader: what a reader accepts under the operator's key is an export
  that the operator built; the exports of which a read was what had been verified
  tell one story, and tell what happened as far as the comparison of the two reads
  goes.
- Adapter: what a status says is so and stays so, and refusals come in one order.
- Sessions: what is released is the pinned commit under the declaration that was
  observed, and what ran was the pinned sources, unless one was changed and put
  back around the run; an objection is attributed
  only to the one who wrote it, about the view it was written about.

## 2. Modules

| Modules | Content |
|---|---|
| `UnitSums`, `PermitBook`, `PermitLedger` | the engine in memory and its abstract promise |
| `PermitLedgerProofs` | the laws of sums, and the proofs about the engine |
| `StateStore`, `SharedBook`, `StateStoreProofs` | processes over one file, the serial engine they implement, and the proofs |
| `ConnectionContract`, `ConnectionContractProofs` | profile, declaration, grant, intent, evidence and controls, and the judgement over all of them; the proofs |
| `AppendPromise` | what a governed append promises, to whichever downstream system |
| `OtcsBridge`, `OtcsBridgeProofs` | the bridge over `PermitBook`, and the proofs |
| `DocumentRelease`, `DocumentReleaseProofs` | the gateway and its target over `PermitBook`, and the proofs |
| `HttpAdapter`, `HttpAdapterProofs` | server threads and clients over what of the engine can conflict, and the proofs |
| `ObserverExport`, `ObserverExportProofs` | chain, projection, export, and the reader of a file on its way; the proofs |
| `SpectrumRelease` | the observation and the release of the Spectrum sources |
| `ViewExchange` | views and objections between an owner and its readers |
| `SessionsProofs` | proofs about `SpectrumRelease` and `ViewExchange` |
| `MC...` | the instances that TLC runs |

How they compose. `PermitBook` is the interface between the engine and what is
built on it: `PermitLedger` implements it, and `OtcsBridge` and
`DocumentRelease` extend it with their own stores and steps. Bridge and gateway
implement the same `AppendPromise`. `StateStore` takes an engine call as a step
and adds what the file, the crashes and the other processes do to it;
`HttpAdapter` takes it as a step and adds what threads and lost answers do.
`MCSessions` puts `SpectrumRelease` and `ViewExchange` in one instance.

Parameters are CONSTANTS with named assumptions, each operation is one action,
and no module declares a RECURSIVE operator, so each of them can be proved about.
Operators marked "Mutation" are plausible mistakes; no specification uses them.

## 3. The engine: `PermitLedger`

A call holds the engine's lock from its first to its last statement, so a call
is one action. Time is different: the clock moves while a call runs. Every
action starts at `now` and takes its later readings as parameters (`t`, and `u`
for the second reading of a replay); `MayStepBack` says whether the wall clock
may be set back.

| Code | Action |
|---|---|
| `activate` | `Activate` |
| `issue_grant`, `revoke_grant` | `IssueGrant`, `RevokeGrant` (with `_release_reservations` as `Released`) |
| `evaluate_intent`, first submission | `ScreenOut` (refused before the gate), `RefuseAtGate`, `IssuePermit` |
| `evaluate_intent`, key already taken | `ReplayRefusal`, `ReplayAllow` |
| `commit_execution` | `RecordExecution`, `RefuseExecution` |
| `rotate_permit_signer`, `revoke_permit_key` | `RotateSigner`, `RevokeKey` |
| a refused or repeated call that changes nothing, and passing time | `ClockStep` |

What is abstracted.

- A submission is a value of `Intent`; its key, grant, cost and claims are
  functions of it. Two submissions may share a key. What the content, the flags
  and the resolvers lead to is a `Finding`, chosen as the submission is first
  evaluated; the stages keep the order of the code (`Screening`, `Gate`). How
  the documents lead to it is `ConnectionContract`.
- `execution_replays` is `receipts`, the request each receipt answers. An exact
  repeat of it, and a conflicting one, change nothing.
- The event chain is the sequence of its events' types and subjects. Hashes and
  signatures are ideal.
- `_assert_integrity` never fails: nothing but the engine writes its memory.
  (`ObserverExport` has a memory that is overwritten.)
- Time is in whole seconds; `Skew` stands for the tolerated five.

`UnitSums` writes a sum of natural numbers as the cardinality of a set of units,
because the library's theorems about cardinality then prove its laws.
`MCPermitLedger` has TLC compare it with the usual fold.

`PermitBook` is the abstract specification: a permit lives once, ends once, and
a new one is promised only if it fits next to the live ones in what is left.
`PermitLedger!LifeOf` maps each permit record to its life in the book.

## 4. The durable engine: `StateStore`

Several processes, each with its memory, its signer and its verifier registry,
share one SQLite file. The file changes only at a commit, so a mutating call is
two steps: `Call`, up to the end of the method, and one of four ends.

| Code | Action |
|---|---|
| `_state_locked`: begin, load, `_refuse_state_rollback`, `_restore_state`, the method | `Call` (`RollsBack`, `Restorable`, `Adopted`, `Run`) |
| save, commit, answer (a refusal is saved too) | `Answer` |
| the save or the commit raises; memory and registry go back | `Fail` |
| an interrupt between the commit and the line after it (2375) | `Interrupt` |
| `_state_read_locked` | `Read` |
| the constructor; a process that dies | `Start`, `Crash` |
| the file copied, and a copy put back | `Copy`, `Rewind` (external) |
| a permit's time passes | `Elapse` |

What is abstracted. The snapshot keeps what the wrapper compares and what must
not be lost: the event chain, the fate of each permit, the revoked keys. The
methods are the four whose effects differ to the wrapper: an event, an
invalidation without one, a revocation, and a change of the local registry only.
A file whose MAC or form does not verify is refused before anything changes and
is no step. `era` counts the times an older file was put back; it stands for
what tells two events at one place of the chain apart (their time and
predecessor). `told`, `done` and `vested` record what callers were told, how
often each permit's execution reached the file, and which signers were
acknowledged; no guard reads them.

`SharedBook` is the abstract specification, one serial engine. `Implements`
says that each commit applies one call to what the file held, so no update of
another process is lost; a step that puts an older file back is exempt, and
nothing else is. What holds even then is `NeverUnsees` (a running process keeps
what it has seen) and `OneExecution` (one execution more per file put back: a
process that starts on an old file has nothing to compare it with).

## 5. The bridge and the gateway

The bridge keeps three stores in step with no transaction across them: the
engine, its outbox and OTCS. A call is therefore not one action but a walk: each
worker has a `job`, the place its call stands at with the row as it last saw it,
and one action is one call of the engine, one statement of the outbox or one
downstream call. Anything may happen between two of them.

| Code of the bridge | Action of `OtcsBridge` |
|---|---|
| `execute`, `recover` | `Execute`, `Recover` (the outbox is read; the rest is `_advance`) |
| `evaluate_intent` in `execute` | `Admit`, `TurnedDown` |
| `SQLiteOTCSOutbox.prepare` and its read | `Prepare`, `Reread` |
| `_advance`: a final row, a row that needs recovery | `Ends` |
| `_permit_not_live_reason` before a call | `Check` |
| `_advance`: a row that has its answer | `Resume` |
| the write of CALLING | `Claim` |
| `append_event` answers, refuses, or raises | `CallAccepted`, `CallRejected`, `CallFails` |
| the write of the answer, and its read | `Record`, `Reread` |
| `commit_execution`, recorded or refused | `Commit`, `Refused` |
| the last write | `Settle` |
| `OTCS_OUTBOX_CONFLICT` | `Conflict` |
| a worker lost; a permit that expires or is revoked | `Crash`, `PermitEnds` |
| OTCS: a late request, appends of others | `ArrivesLate`, `OthersAppend` (external) |

What is abstracted.

- The engine is `PermitBook`: the bridge needs of it what the book promises, and
  the engine is proved to keep that promise. A permit ends when it likes
  (`PermitEnds`), whatever the reason.
- OTCS is modelled from the client contract (`OTCSClient`): an append takes
  effect once, at the head it expects; a repeated request is answered with its
  first receipt; a head never goes back, so a refusal for a stale head stays one.
- Operation, intent and evidence are bound by their hashes and are one value.
  `_validate_row_admission`, `_validate_row_engine_binding` and the checks of
  receipts raise or do nothing; where they raise, the call ends as in `Crash`.
- `transition()` commits its write and then reads the row by another statement.
  Both steps are kept, because another worker may come between them. The second
  `get` of `_advance` (2276) only repeats a read of a row that is already final.

`DocumentRelease` is the same walk in the gateway: `Submit`, `Evaluate` or
`NotAdmissible`, `Prepare`, `Check`, `Claim`, the call with its three outcomes,
`Record`, `Commit` or `Refused`, `Settle`, and `Recover` on any row that is not
final. Two things differ. The gateway holds its lock over a call, so there is
one `job` and the row in memory is the row in the outbox; and its target is code
of this repository: `Appends` and `Refuses` are `Target.append` with its
repeated request, its expired permit and its head. What the client gave up on
after three seconds may still be handled (`wire`, `ArrivesLate`), and the
target's clock is not the engine's (`Overdue`, `ClocksDiffer`).

`AppendPromise` is what both promise: one effect at most, one verdict, given
once and true, and no charge without the effect. Each maps a row to its verdict
(`VerdictOf`) and the spent permits to the charges.

## 6. The other modules

**`HttpAdapter`.** A request is its operation, what of its content can conflict,
and a set of things wrong with it on the wire. `Dispatch` and `Refuse` take it
through `Checks(op)`, the checks in the order of `_dispatch` (340) and
`_read_json` (405); the engine's call (`Activate`, `IssueGrant`, `RevokeGrant`,
`EvaluateNew`, `EvaluateAgain`, `ConsumePermit`, `ReadPermit`, `Declined`) is a
second step, and `Reply` a third, in which the answer goes out, or an internal
fault does, or nobody waits for it. Of the engine only what can conflict is kept.

**`ObserverExport`.** A link's hash stands for all it covers, so it is the
content itself. A decision stands for an idempotency key and an execution for the
permit it consumes, so one intent may be decided and executed several times.
`build_observer_export` reads the events three times under one lock, and the
module has a step for each: `VerifyExport` (the chain is verified),
`ProjectExport` (`observer_projection` reads them), and `SignExport` or
`RefuseExport` (`events_copy` reads them again, 4714, and the comparison of 4715
decides). The lock keeps events out until then. `Spoil` overwrites the memory,
with or without the hashes after it, and `Restore` puts it back: neither takes a
lock, so both come at any moment of an export. The second read is not verified,
and the comparison takes PERMIT_ISSUED and EXECUTION_RECORDED for the same
(4663, 4670), so an overwriting in between may be signed. `told` and `whole` keep
the exports of which one read, or the second, was what had been verified, and the
properties say what each of the two can tell. A file that was
exported, or made by somebody without the operator's key, is changed on its way
(`Damaged`): events lost, swapped or changed, chains and heads computed anew,
parts of another export put in, another key. `Accepts` is `verify_export`.

**`SpectrumRelease`.** Each look at the checkout is a walk that reads one thing at
a time, in any order: the commit and each file clean (`CheckCommitted`), each
digest (`ReadDigest`), and in an inventory each file against its blob, everything
clean again and each digest again; then what was read is compared (`EndInventory`,
`EndSnapshot`). The child loads the runner and then its modules (`Load`), and the
runner reports digests of the modules (`Claim`); this stands for `xiv_stitch.py`,
which belongs to another repository, and another runner in its place reports anything. `Provenance` holds the
reported digests against the snapshot, for the modules only (153-159).
`Change` may happen between any two reads, and `Overwrite` is a caller that assigns
to the attributes of the release or of its session.

A source that others change after its last digest before the run and put back
before the next look is not noticed: `spectrum_release/README.md` says so of runner
and modules (55-59), and `spectrum_observation/README.md` (61-63) leaves it outside its
guarantee. The history variable `disturbed` records exactly these sources, and
`ReleasedAsObserved` promises of all others that the committed bytes ran.

**`ViewExchange`.** Owner (`Edit`, `NewSession`, `Export`, `Attribute`), readers
(`Pin`, `Read`, `Object`) and a wire that damages and recombines (`Damage`).

**`ConnectionContract`.** Four kinds of document are accepted one after the
other (`Bind`, `IssueGrant`), then an intent is judged (`EvaluateIntent`) as
`evaluate_intent` does it: `Unauthorised`, then the resolvers, `HeldBack`, then
`Gates`, which asks both gates as the code does. Every lookup of the gates that nothing guards is kept, and a miss is an
outcome of its own, so that the assumption of the code is a property.

## 7. Runs

| Run | Question | Bounds |
|---|---|---|
| `budget` | Are the budget, the reservations, the windows, the verdicts and the causes right, and is every call a step of the book? | 3 submissions of cost 2, 2, 1, two under one key; capacity 3, so that two never fit with a third; an unreserved fee of 2, 1, 2 against a limit of 2 in a window of 1; 1 grant; clock 0..2 in any order, TTL 1, declaration until 2 |
| `authority` | Does anything commit outside its authority; is revocation complete; are replays true; does what is reserved always fit? | 2 submissions under 2 grants, one that starts late and one that ends early; 2 signing keys; a reserved quota of which one claim fits, window 1; declaration from 1 until 4, clock 0..4, so that every validity begins late or lapses inside a call |
| `sealed_lifetime` | Does `issued_at + ttl_seconds` equal `expires_at`? | 1 submission: it does not (first finding) |
| `shared_file` | Are two processes over one file one engine? | 2 processes, 1 permit, 2 keys, 1 older file put back |
| `recovery` | Does one worker keep the promise of a governed append? | 1 worker, 2 operations that expect the same head, so that one is refused; 1 append of others, 2 crashes |
| `rivals` | What do rows and charges still tell when two workers drive them, and does each row end? | 2 workers, 1 operation, 1 append of others, 1 crash, clock set back |
| `overtaken` | Is LOCAL_FAILED true when two workers drive a row? | 2 workers, 1 operation, no crash: it is not (second finding) |
| `release` | Does the gateway keep the promise, and does each row end? | 2 documents approved on one head, 2 deaths of the gateway, a target whose clock runs ahead |
| `clients` | Are statuses true, once and for all, and in order? | 2 threads, 1 grant identifier with 2 contents, 2 submissions under 1 key |
| `export` | Is what a reader accepts an export, and which exports tell what happened? | 2 decisions on one intent, 3 events, 2 exports, memory overwritten once and put back, 2 changes of a file |
| `sessions` | Is what is released what was observed; is what is attributed what was said? | the runner, 1 module, 1 other file and the commit, 4 changes, 2 calls of submit; 3 declarations, two alike in their view, 2 readers, 3 messages, 2 damaged, 2 objections |
| `contract` | Is what was accepted enough, and what is allowed within it? | one profile with its declaration, grant and intents, and every document one or two changes away, under any evidence, controls and load |

Why the bounds are enough. Two is the smallest number of submissions, workers,
processes, threads or documents that race, and where the race is for what two
others share (a budget, a key) there is a third. A submission is evaluated
afresh once and committed once, a grant is issued and revoked once, a key is
registered once, so most variables are finite by themselves; the bounds that are
not of the code have names: `Instant`, `MaxHead`, `MaxCrashes`, `MaxRewinds`,
`MaxEvents`, `MaxSpoils`, `MaxMade`, `MaxDamage`, `MaxChanges`, `MaxCalls`,
`MaxMessages`, `MaxWritten`. Two crashes are one in a call and one in its recovery.
Four changes are two files, or a file and the commit, that change and change back.
Two exports are the least of which one can contradict the other, and one
overwriting is enough for a read that is not what was verified. Two changes of a
file change an event or take those of another export, and mend the head. Where a theorem names
the property (section 8) there is no bound at all.

Choices that keep a run small. In `export` the engine rests while a file is on
its way, because what the reader does is no matter of the engine's, and memory is
not overwritten in the middle of a call that appends. In `sessions` the commits of
the three repositories are one item of the walk, and the two sessions, which
have no state in common, take turns by behaviour: `MCSessions` checks each in
full. `shared_file`, `clients` and `sessions` take identical processes, permits,
keys, threads, contents, authors and alike declarations up to symmetry; no run
with a liveness property does. `clients` takes few sets of faults, because only
which check comes first is asked.

Deadlock is checked except where a behaviour ends: a judged intent (`contract`),
a chain, a file and a reader with all bounds spent (`export`), a release that was
refused or sent (`sessions`).

Fairness. The engine is a passive object whose calls come from outside, so none
is assumed for it. `rivals` and `release` assume three things: a call that was
made goes on (weak fairness of `Steps(w)`, of `Steps`: a thread that is not lost
runs); permits have a lifetime (weak fairness of `PermitEnds(o)`: the engine caps
it by the TTL); and whoever runs the program keeps recovering each row (strong
fairness of `Recover(o)`: the runbook's step 7 asks for it, and weak fairness
would be lost to a worker or a gateway that is busy with another call). Nothing
is assumed of OTCS or of the target: it may lose every answer, and the row then
ends because its permit does.

**First finding.** `evaluate_intent` checks the declaration at one reading of the
clock (3804) and computes the permit's end at a later one (4156-4170). If the
declaration expires in between, an ALLOW permit is issued whose `expires_at` is
not after its `issued_at` and whose sealed `ttl_seconds` is 1, while README.md:397
says that `issued_at + ttl_seconds` equals `expires_at` to the second. The permit
can do no harm: `DebitsUnderAuthority` holds in the configuration `authority`,
where declarations expire inside calls as well.

**Second finding.** `_advance` chooses the last state of a row by
`row["state"] == "DOWNSTREAM_COMMITTED"` (2341), and the row is the one that
`transition()` read again after its own write (1600). Worker A writes
DOWNSTREAM_COMMITTED; worker B recovers the row, records the execution and writes
LOCAL_COMMITTED; A now reads LOCAL_COMMITTED, has its execution replayed by the
engine, takes the other branch and writes LOCAL_FAILED, which the compare-and-set
admits because it expects the state just read (2349). The outbox then says that
the append was refused, while OTCS holds it and the engine charged it. README.md
lets a stale head, and nothing else, end as a failed execution with no debit
(156), and the bridge calls a refusal "known to have produced no external effect"
(279). `rivals` shows what survives: LOCAL_COMMITTED, NOT_EXECUTED and every
charge stay true. With one worker at a time the whole promise holds (`recovery`).

## 8. Proofs

Theorems about the engine are checked by TLAPS for every value of the constants that meets
`IntentAssumption`, `DeclarationAssumption` and `EnvironmentAssumption`: finitely
many submissions, natural costs, claims, limits and capacity, positive windows
and TTL, no claim on a resource that is not needed.

| Theorem of `PermitLedgerProofs` | Says |
|---|---|
| `TypeCorrect` | `Spec => []TypeOK` |
| `Safety` | `Spec => []Safe`, the inductive invariant |
| `Covered`, `Conserved`, `SingleCause`, `Releases`, `Custody` | the properties `ReservationsCovered`, `BudgetConserved`, `OneCause`, `RevocationReleases`, `CustodySound` |
| `Permanence` | the action property `EndsForGood` |
| `Windows` | `WindowHolds` |
| `InTime` | no debit at or after the end of its permit, its grant or the declaration, nor before its grant begins, however the clock moves |
| `OneVerdict`, `ChainTells`, `Lifecycle` | `OneVerdictPerKey`, `ChainTellsExecutions`, `ReplayTellsLifecycle` |
| `Authority`, `Promise`, `Usability` | `DebitsUnderAuthority`, `ReservationIsAPromise` and the action property `AllowIsUsable`, for a clock that is not set back |
| `Refinement` | `Spec => Book!BookSpec` |

The argument. `Safe` joins the five safety properties with the types and with
`KeyTaken`: a submission that has a verdict took its key. None of the five is
inductive alone. A permit issued on top of an old record of the same submission
would break `BudgetConserved` and `OneCause`; what excludes it is that a fresh
key means no verdict, which is `KeyTaken`. A commit keeps `ReservationsCovered`
only because the committed permit was live, and so counted, which `OneCause`
gives from `reason = None`.

`StepKinds` shows that every step is one of three: *quiet* (some live permits
end, the budget and what is issued stay), one permit is *issued*, or one
execution is *recorded*. Most conjuncts, `EndsForGood` and the refinement then
need three cases rather than fourteen. The windows are proved from their own
invariant: a commit at instant t is admitted against all debits at or after
t - W, and any interval of length W that holds t has only such debits, also when
the clock was set back.

The other properties rest on `Safe` and on one fact more each. `InTime`: no
permit outlives its grant or the declaration (`Capped`), so a commit that finds
its permit unexpired finds all three unexpired; this needs no assumption about the
clock, because the grant and the permit are held against one reading. `Authority`
adds that the declaration had begun. The code checks that at an earlier reading
(`_assert_active`, 4330) than the one it debits at (4337), so a clock set back in
between could debit before the declaration begins; the theorem assumes
`~MayStepBack`. `OneVerdict`: the
key of every verdict on the chain is taken (`VerdictsTakeKeys`), and only a fresh
key gets one. `ChainTells`: every permit issued is on the chain (`IssuedTold`),
and a grant not revoked is not there as a revoked one (`RevokedTold`). `Lifecycle`:
a permit that was never issued has no story (`Unissued`). `Promise` and
`Usability` assume `~MayStepBack` too: after the clock is set back, an earlier debit
may enter the window again, and a permit may be answered whose grant has not
begun. The three properties are promised for a clock that only advances, and the
configuration that checks them has one; all other theorems hold for either.

Theorems about the durable engine assume `StoreAssumption`: any set of
processes, permits and keys, any number of older files put back.

| Theorem of `StateStoreProofs` | Says |
|---|---|
| `Soundness` | `Spec => []IInv`, the inductive invariant |
| `StoreTypes`, `Acknowledged`, `Once`, `Keys` | the properties `TypeOK`, `AnswersStand`, `OneExecution`, `KeysSound` |
| `Unforgetting` | the action property `NeverUnsees` |
| `Refinement` | `Spec => Implements` |

The argument. `Advances(s, t)` says what one call does to a snapshot: one permit
issued, one spent, some lapsed, or one key struck. `MethodsAreProper` shows that
each method is such a step, keeps the process's registry and answers what is true
of its result. A snapshot is `Sound` if its chain tells its permits: which were
issued, under which key, and which were consumed. That is what
`_refuse_state_rollback` relies on: it compares the chain, the invalidated
permits and the revoked keys, and never the live or consumed ones. A chain that
extends another then holds all of them too (`NotRolledBack`), which yields
`NeverUnsees`, and the adopted state of every `Call`. `IInv` says that a process
between calls holds a sound snapshot and the registry it was told, and that
inside a call it works on what the file holds now: the transaction keeps all
others out, so its commit is one `Advances` step of the file, which is a step of
`SharedBook`.

Theorems about the bridge assume `BridgeAssumption` only: any set of workers, any
heads, any bound on crashes.

| Theorem of `OtcsBridgeProofs` | Says |
|---|---|
| `Soundness` | `Spec => []IInv`, the inductive invariant |
| `BridgeTypes`, `Committed`, `NotExecuted`, `Debits` | the properties `TypeOK`, `CommittedTells`, `NotExecutedTells`, `DebitsFollowEffects` |
| `Refinement` | `Spec => KeepsPromise`, for one worker |

The argument. A worker acts on a row that it read some time ago, so an invariant
about the present row does not help it. What does is that the facts a row stands
for are never undone: an effect stays, a head that passed stays passed, a spent
permit stays spent (`Onward`). `Reliable(o, r)` collects these facts for any
reading r of the row, so what was true when the row was read is still true when
the worker writes (`Backed`). NOT_EXECUTED also needs `Unsent`: no request leaves
before CALLING is written, so a row that is still PREPARED has none on its way;
here the compare-and-set of the last write is what counts, and the mutant of
`NotExecutedTells` removes it.

The refinement adds `Aligned`: a single worker finds the row as it last saw it.
That is what two workers lack, and why the theorem assumes `OneWorker`. A step is
then an effect, a charge, a verdict or a stutter (`EffectStep`, `CommitStep`,
`RowStep`, `PromiseStep`).

Theorems about the gateway assume `ReleaseAssumption`: finitely many documents
of natural cost, any heads, any bound on deaths, either choice of clocks.

| Theorem of `DocumentReleaseProofs` | Says |
|---|---|
| `Soundness` | `Spec => []IInv`, the inductive invariant |
| `ReleaseTypes`, `InPlace`, `Outbox` | the properties `TypeOK`, `ReleasedInPlace`, `OutboxTells` |
| `Refinement` | `Spec => KeepsPromise` |

The argument. The gateway writes without comparing, so its invariant ties the
place of the one call to the row: what the call is about to write is still true,
because its lock keeps every other call away and the target only adds. As in the
bridge, a row that is PREPARED has no request on its way, which makes
NOT_EXECUTED final; a row that reached CALLING can only be finished, or handed
over, and what is handed over was never charged.

Theorems about the adapter assume `AdapterAssumption`: any threads, grants, keys,
submissions and contents, any sets of faults.

| Theorem of `HttpAdapterProofs` | Says |
|---|---|
| `ScopeComesFirst`, `Types` | `ScopeFirst`, `TypeOK` |
| `AnswersStand` | the action property `NoAnswerTurns` |
| `AnswersAreTrue` | `AnswersTell` |

The argument. `ScopeComesFirst` needs no invariant but itself: in every `Checks`
the route and the scope precede all else, so a request without scope cannot fail
first at another check. What is recorded under an identifier is never taken back
(`Grows`), and `PermitTold` ties a permit to the submission its key is bound to
and to its one execution; with both, each thing that an answer says stays true
(`HoldsStays`). `Tells` says that each answer was true when the engine gave it;
`Births` says that what a thread is about to announce as created exists, was not
announced before, and is announced by no other thread.

Theorems about the sessions assume `SourceAssumption` and `ViewAssumption`: any
modules and files, any declarations and views, any number of changes, calls,
messages and objections.

| Theorem of `SessionsProofs` | Says |
|---|---|
| `Releases`, `Freshness` | `ReleasedAsObserved`, `FreshWhenSent` |
| `Attribution` | `AttributedIsSaid` |

The argument. No look at the checkout shows what it was at one instant, so the
invariant follows what was compared with what. `Bindings`: the release's snapshot
holds committed digests only, the collector's equals it once the observation is
verified, and the digests that the runner reported equal the collector's. `Child`
carries through the run that each source is as its last digest said or is
`disturbed` (`Holds`), first of the checkout and then of what the child read;
the comparison of the two looks ties those digests to the collector's. `Sealed`
says that submit compares the archive and the session's operation before
anything goes out, and that nothing went out before. `Seen`
follows, through the first look of a submission, what was as committed at
some moment since the call. For objections, `ExchangeInv` says that a MAC on the wire is one of an
objection that was written, and that it was written under the view its author
had pinned; a message pieced together needs a MAC over its own body.

Theorems about the documents assume `AmountAssumption` only, that claims and
limits are natural numbers: the sets of documents and of evidence, controls and
loads are otherwise any at all, so what is concluded follows from the validations.

| Theorem of `ConnectionContractProofs` | Says |
|---|---|
| `Sufficiency` | `AcceptedSuffices` |
| `Governance` | `AllowedIsGoverned` |
| `Reticence` | `StrangersLearnNothing` |

The argument. `Accepted` says which validations each stage has behind it. From it
follows, one gate after the other, that a lookup which nothing guards finds what
it asks for (`Answered` holds of every verdict that can be given).

Theorems about exports assume `ExportAssumption`: any decisions on any intents,
any number of events, of overwritings, of exports and of changes of a file.

| Theorem of `ObserverExportProofs` | Says |
|---|---|
| `Genuine` | `AcceptedIsGenuine` |
| `Story` | `OneStory` |
| `Tally` | `SummaryTells` |

The argument. The inductive invariant `ExportInv` says that the signatures in
memory are those of what happened, whatever was written over the events
(`ChainInv`), that what an export in progress has verified is still the history,
since the lock keeps events out (`ReadInv`), what an export in `whole` or in `told` is
(`MadeInv`), and that a file signed by the operator bears the signature of an
export (`FileInv`). A chain that holds is the chain of its contents (`ChainedIs`)
and its head determines them (`HeadDetermines`), so a verified memory is the
history (`VerifiedTold`), and an accepted file has the events of the export whose
head was signed. An export in `whole` is that of some moment, word for word; of
one in `told`, the comparison gives the same up to authorized and executed
(`Originals`). The k-th row stays what it was as the history grows
(`ProjectionGrows`, `OriginalsGrow`), which gives both halves of `Story`. `Tally`
counts the same two ways (`SummaryNow`, `TotalsNow`): rows that agree up to
authorized and executed have the same totals (`SameTotals`). It needs
`PermitsFirst`, that an execution comes after the permit of its decision and is
the only one of it, and two mappings: of the rows of a code to the events that they
tell (`CountIs`), and of executions to their permits.

Where a proof walks along a chain it takes the least place that fails
(`FirstPlace`), from the well-foundedness of the subsets of a finite set, in place
of an induction.

Some forms were chosen with the provers in mind. The chains of early returns in
`ConnectionContract` and `HttpAdapter`, and `MessageCode`, are IF/ELSE in the
order of the code. A set of faults comes with its status by name (`Refusal`), and
what a wire makes of an objection or of an export is split into its body and the rest
(`DamagedBodies`, `DamagedEvents`). Counts are cardinalities. A chain
(`Rechained`) and a projection (`Projection`, by the places of what is surfaced)
are given by what stands at each place, where the code appends one element after
the other; `ASSUME`s of `MCObserverExport` compare both with those folds.

Only model-checked: `EveryRowEnds` of bridge and gateway, since liveness under
fairness and ENABLED are out of this prover's reach. So is induction over data: that
`SumOver`, `Rechained` and `Projection` equal the folds of the code for every
input is checked on small inputs only.

## 9. Not modelled

- *Primitives.* Hashes and signatures are taken as ideal: equal inputs give equal
  hashes, and a signature verifies under its key only. The canonical form of JSON
  and the checks of single fields are pure and change nothing.
- *Tools.* `tools/` builds reports, censuses and packages from the sources. It is
  not part of the running system.
- *Of the engine:* the halts of `_assert_integrity`, and the registry record.
- *Of the durable engine:* the form of the stored JSON and the schema of the
  file, which are refused before anything changes.
- *Of the export:* the times of events, the kinds of event never surfaced, and
  the size limits; an overwriting in the middle of a call that appends; a reader
  without a pinned key, who learns only that the file is intact.
- *Of bridge and gateway:* the validation of documents and the MACs, which raise
  before anything changes, and reads for others.
- *Of the sessions:* the form of trees, paths, images and archives, and the
  rules on the observation's output text, which enter as a refusal that may
  always happen; and the `session.submit` that `run` tries before the owner activates the
  declaration, which the engine refuses and which changes nothing.
