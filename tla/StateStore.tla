------------------------------ MODULE StateStore ------------------------------
(***************************************************************************)
(* The durable engine: several processes, each a UniversalConnectionLedger *)
(* with its own memory, signer and verifier registry, over one SQLite      *)
(* file.  _state_locked runs a mutating call as: BEGIN IMMEDIATE, load,    *)
(* _refuse_state_rollback, _restore_state, the method, save, commit.  The  *)
(* file changes only at the commit, so a call is two steps: Call, up to    *)
(* the end of the method, and one of Answer, Fail, Interrupt and Crash.    *)
(*                                                                         *)
(* The snapshot is reduced to what the wrapper compares and what must not  *)
(* be lost: the event chain, the fate of each permit and the revoked keys. *)
(* The methods are reduced to the four whose effects differ to the wrapper *)
(* (an event, an invalidation without one, a revocation, a change of the   *)
(* local registry); PermitLedger models them in full.  A call refused      *)
(* before it takes the lock, or when it loads, changes nothing and is no   *)
(* step.                                                                   *)
(***************************************************************************)
EXTENDS Naturals, SequencesExt

CONSTANTS
  Process,     \* engines over the file
  Permit,      \* one per submission
  Key,         \* permit signing keys
  MaxRewinds   \* how often an older file is put back

None == "none"

ASSUME StoreAssumption ==
  /\ None \notin Process /\ None \notin Permit /\ None \notin Key
  /\ MaxRewinds \in Nat

VARIABLES
  file,     \* the committed row, if there is one
  backup,   \* a row the file once held
  era,      \* how often the file was put back
  writer,   \* the process inside BEGIN IMMEDIATE
  life,     \* per process: DOWN, IDLE or IN_CALL
  held,     \* per process, its memory: snapshot, signer and verifiers
  call,     \* per process, the call in flight: rollback state and answer
  due,      \* the issues whose expires_at has passed
  told,     \* what callers were told about permits in this era
  done,     \* per permit, the executions that reached the file
  vested    \* per process, the signers whose installation was acknowledged

vars == <<file, backup, era, writer, life, held, call, due, told, done, vested>>

Fates == {"absent", "live", "consumed", "PERMIT_EXPIRED", "PERMIT_KEY_REVOKED"}
Invalid == {"PERMIT_EXPIRED", "PERMIT_KEY_REVOKED"}

\* Within an era the file grows along one line, so the era stands for what
\* tells an event from another at its place: its time and its predecessor.  The
\* event of an issue holds the signature of the permit, and with it the key.
Event == [type: {"PERMIT_ISSUED", "EXECUTION_RECORDED"}, permit: Permit,
          key: Key \cup {None}, era: Nat]

Snapshot == [chain: Seq(Event),
             permits: [Permit -> [fate: Fates, key: Key \cup {None}]],
             revoked: SUBSET Key]

Fresh == [chain |-> <<>>,
          permits |-> [k \in Permit |-> [fate |-> "absent", key |-> None]],
          revoked |-> {}]

Row == [there: BOOLEAN, state: Snapshot]
NoRow == [there |-> FALSE, state |-> Fresh]
RowOf(s) == [there |-> TRUE, state |-> s]

Holding == [state: Snapshot, signer: Key \cup {None}, verifiers: SUBSET Key]
Unloaded == [state |-> Fresh, signer |-> None, verifiers |-> {}]

Answers == {"ALLOW", "REFUSAL", "PERMIT_ALREADY_CONSUMED", "EXECUTED"} \cup Invalid

\* An answer about a permit.
Tells(answer, k) == [answer |-> answer, permit |-> k]
Silence == Tells(None, None)

NoCall == [before |-> Unloaded, tells |-> Silence]

-----------------------------------------------------------------------------
(* _refuse_state_rollback and _restore_state *)

\* Mutation: the comparison is with the chain alone.
RollsBackByChain(row, s) ==
  IF ~row.there THEN s.revoked # {} \/ s.chain # <<>>
  ELSE ~IsPrefix(s.chain, row.state.chain)

\* The row holds less than s.  The head hash covers the chain before it, so
\* that hash at the place of the head says that s.chain is a prefix.
RollsBack(row, s) ==
  IF ~row.there THEN s.revoked # {} \/ s.chain # <<>>
  ELSE \/ ~(s.revoked \subseteq row.state.revoked)
       \/ \E k \in Permit : /\ s.permits[k].fate \in Invalid
                            /\ row.state.permits[k].fate # s.permits[k].fate
       \/ ~IsPrefix(s.chain, row.state.chain)

\* Mutation: the signer is not held against the stored revocations.
RestorableBySnapshot(row, h) == TRUE

\* STATE_REVOKED_ACTIVE_KEY: nobody goes on signing under a revoked key.
Restorable(row, h) == h.signer \notin row.state.revoked

\* What the process holds once the row is restored.  With no row it keeps
\* what it has.
Restored(row, h) ==
  IF ~row.there THEN h
  ELSE [state |-> row.state, signer |-> h.signer,
        verifiers |-> h.verifiers \ row.state.revoked]

-----------------------------------------------------------------------------
(* The methods: what a process holding h ends with and tells, or a halt *)

Done(h, tells) == [halts |-> FALSE, holding |-> h, tells |-> tells]
Halt(h) == [halts |-> TRUE, holding |-> h, tells |-> Silence]

PastDue(s, k) == \E e \in due \cap Range(s.chain) : e.permit = k

\* _purge_expired_reservations
Purged(s) ==
  [s EXCEPT !.permits =
     [k \in Permit |-> IF PastDue(s, k) /\ s.permits[k].fate = "live"
                       THEN [fate |-> "PERMIT_EXPIRED", key |-> s.permits[k].key]
                       ELSE s.permits[k]]]

Recorded(s, type, k, key) ==
  [s EXCEPT !.chain =
     Append(s.chain, [type |-> type, permit |-> k, key |-> key, era |-> era])]

\* The permit k takes the state fate, under the key that signs it.
Marked(s, k, fate, key) ==
  [s EXCEPT !.permits = [s.permits EXCEPT ![k] = [fate |-> fate, key |-> key]]]

Knows(h, k) ==
  h.state.permits[k].key \in h.verifiers \cup h.state.revoked

\* evaluate_intent, admitted and new: purge, event, permit.
IssuePermit(h, k) ==
  LET s == Recorded(Purged(h.state), "PERMIT_ISSUED", k, h.signer) IN
  Done([h EXCEPT !.state = Marked(s, k, "live", h.signer)], Tells("ALLOW", k))

ReplayAnswer(s, k) ==
  IF s.permits[k].fate = "consumed" THEN "PERMIT_ALREADY_CONSUMED"
  ELSE IF s.permits[k].fate = "PERMIT_EXPIRED" THEN "PERMIT_EXPIRED"
  ELSE IF s.permits[k].key \in s.revoked THEN "REFUSAL"
  ELSE "ALLOW"

\* evaluate_intent, resubmitted: no purge under a revoked key.
ReplayIntent(h, k) ==
  LET s == IF h.state.permits[k].key \in h.state.revoked
           THEN h.state ELSE Purged(h.state) IN
  IF ~Knows(h, k) THEN Halt(h)
  ELSE Done([h EXCEPT !.state = s], Tells(ReplayAnswer(s, k), k))

Evaluate(h, k) ==
  IF h.state.permits[k].fate = "absent" THEN IssuePermit(h, k) ELSE ReplayIntent(h, k)

\* commit_execution: a recorded execution is replayed whatever became of its
\* key; an expired permit is refused, and the refusal is kept.
Execute(h, k) ==
  LET s == h.state
      fate == s.permits[k].fate
      key == s.permits[k].key
      t == Marked(Recorded(s, "EXECUTION_RECORDED", k, None), k, "consumed", key)
  IN IF fate = "consumed" THEN Done(h, Tells("EXECUTED", k))
     ELSE IF fate = "absent" THEN Done(h, Silence)
     ELSE IF fate \in Invalid THEN Done(h, Tells(fate, k))
     ELSE IF PastDue(s, k)
     THEN Done([h EXCEPT !.state = Marked(s, k, "PERMIT_EXPIRED", key)],
               Tells("PERMIT_EXPIRED", k))
     ELSE IF ~Knows(h, k) THEN Halt(h)
     ELSE Done([h EXCEPT !.state = t], Tells("EXECUTED", k))

\* rotate_permit_signer changes only what is local.
Rotate(h, key) ==
  IF key \in h.state.revoked \cup h.verifiers THEN Done(h, Silence)
  ELSE Done([state |-> h.state, signer |-> key, verifiers |-> h.verifiers \cup {key}],
            Silence)

\* Mutation: the reason recorded is the key.
ReleasedUnderKey(s, key) ==
  [chain |-> s.chain, revoked |-> s.revoked \cup {key},
   permits |-> [k \in Permit |->
                  IF s.permits[k].fate = "live" /\ s.permits[k].key = key
                  THEN [fate |-> key, key |-> key] ELSE s.permits[k]]]

Released(s, key) ==
  [chain |-> s.chain, revoked |-> s.revoked \cup {key},
   permits |-> [k \in Permit |->
                  IF s.permits[k].fate = "live" /\ s.permits[k].key = key
                  THEN [fate |-> "PERMIT_KEY_REVOKED", key |-> key] ELSE s.permits[k]]]

\* revoke_permit_key: registered, and not the signer.
Revoke(h, key) ==
  IF key \notin h.verifiers \ {h.signer} THEN Done(h, Silence)
  ELSE Done([state |-> Released(Purged(h.state), key), signer |-> h.signer,
             verifiers |-> h.verifiers \ {key}], Silence)

Methods == {"evaluate_intent", "commit_execution"} \X Permit
           \cup {"rotate_permit_signer", "revoke_permit_key"} \X Key

Run(h, m) ==
  CASE m[1] = "evaluate_intent" -> Evaluate(h, m[2])
    [] m[1] = "commit_execution" -> Execute(h, m[2])
    [] m[1] = "rotate_permit_signer" -> Rotate(h, m[2])
    [] m[1] = "revoke_permit_key" -> Revoke(h, m[2])

-----------------------------------------------------------------------------
(* _state_locked *)

\* Mutation: the method runs on what the process remembers.
AdoptedFromMemory(p) == held[p]

Adopted(p) == Restored(file, held[p])

\* The call loads, compares and restores, and the method runs.  An
\* IntegrityViolation ends it there: nothing is saved, and the memory and the
\* registry are what they were after the restore.
Call(p, m) ==
  LET ran == Run(Adopted(p), m) IN
  /\ life[p] = "IDLE" /\ writer = None
  /\ ~RollsBack(file, held[p].state)
  /\ Restorable(file, held[p])
  /\ IF ran.halts
     THEN /\ held' = [held EXCEPT ![p] = Adopted(p)]
          /\ UNCHANGED <<writer, life, call>>
     ELSE /\ writer' = p
          /\ life' = [life EXCEPT ![p] = "IN_CALL"]
          /\ held' = [held EXCEPT ![p] = ran.holding]
          /\ call' = [call EXCEPT ![p] = [before |-> Adopted(p), tells |-> ran.tells]]
  /\ UNCHANGED <<file, backup, era, due, told, done, vested>>

Ends(p) ==
  /\ life[p] = "IN_CALL"
  /\ writer' = None
  /\ call' = [call EXCEPT ![p] = NoCall]
  /\ life' = [life EXCEPT ![p] = "IDLE"]
  /\ UNCHANGED <<backup, era, due>>

\* Mutation: a call that was refused is not saved.
SavesUnlessRefused(p) ==
  IF call[p].tells.answer \in Invalid THEN file ELSE RowOf(held[p].state)

\* A refused call is saved like one that succeeded.
Saves(p) == RowOf(held[p].state)

Executes(p, k) ==
  /\ call[p].before.state.permits[k].fate # "consumed"
  /\ held[p].state.permits[k].fate = "consumed"

Commits(p) ==
  /\ file' = Saves(p)
  /\ done' = [k \in Permit |-> IF Executes(p, k) THEN done[k] + 1 ELSE done[k]]

\* Saved, committed and answered, or refused.
Answer(p) ==
  /\ Ends(p)
  /\ Commits(p)
  /\ told' = told \cup ({call[p].tells} \ {Silence})
  /\ vested' = [vested EXCEPT ![p] = @ \cup {held[p].signer}]
  /\ UNCHANGED held

\* Mutation: the registry is not part of what is rolled back.
UndoneBySnapshot(p) == [held[p] EXCEPT !.state = call[p].before.state]

\* The memory and the signer registry go back to where the method started.
Undone(p) == call[p].before

\* The save or the commit fails: the database rolls back, and so does memory.
Fail(p) ==
  /\ Ends(p)
  /\ held' = [held EXCEPT ![p] = Undone(p)]
  /\ UNCHANGED <<file, told, done, vested>>

\* An interrupt lands between the commit and the line after it: the file has
\* the effect, the memory does not, and the caller sees an exception.
Interrupt(p) ==
  /\ Ends(p)
  /\ Commits(p)
  /\ held' = [held EXCEPT ![p] = Undone(p)]
  /\ UNCHANGED <<told, vested>>

-----------------------------------------------------------------------------
(* _state_read_locked, start and crash, the file and the clock *)

\* A read takes no write lock and saves nothing; it answers from the restored
\* row.
Read(p) ==
  /\ life[p] = "IDLE"
  /\ ~RollsBack(file, held[p].state)
  /\ Restorable(file, held[p])
  /\ held' = [held EXCEPT ![p] = Adopted(p)]
  /\ UNCHANGED <<file, backup, era, writer, life, call, due, told, done, vested>>

\* The constructor with the signer key: no history to compare with.
Start(p, key) ==
  LET h == [state |-> Fresh, signer |-> key, verifiers |-> {key}] IN
  /\ life[p] = "DOWN"
  /\ Restorable(file, h)
  /\ life' = [life EXCEPT ![p] = "IDLE"]
  /\ held' = [held EXCEPT ![p] = Restored(file, h)]
  /\ vested' = [vested EXCEPT ![p] = {key}]
  /\ UNCHANGED <<file, backup, era, writer, call, due, told, done>>

\* The process dies, at any point; SQLite drops what was not committed.
Crash(p) ==
  /\ life[p] # "DOWN"
  /\ life' = [life EXCEPT ![p] = "DOWN"]
  /\ held' = [held EXCEPT ![p] = Unloaded]
  /\ call' = [call EXCEPT ![p] = NoCall]
  /\ writer' = IF writer = p THEN None ELSE writer
  /\ vested' = [vested EXCEPT ![p] = {}]
  /\ UNCHANGED <<file, backup, era, due, told, done>>

\* Somebody copies the file, and later puts the copy back.  Each copy is
\* genuine: its MAC verifies.
Copy ==
  /\ era < MaxRewinds
  /\ backup' = file
  /\ UNCHANGED <<file, era, writer, life, held, call, due, told, done, vested>>

Rewind ==
  /\ era < MaxRewinds
  /\ writer = None
  /\ file' = backup
  /\ era' = era + 1
  /\ told' = {}
  /\ UNCHANGED <<backup, writer, life, held, call, due, done, vested>>

\* The lifetime of a permit passes.
Elapse(e) ==
  /\ e.type = "PERMIT_ISSUED"
  /\ due' = due \cup {e}
  /\ UNCHANGED <<file, backup, era, writer, life, held, call, told, done, vested>>

Init ==
  /\ file = NoRow /\ backup = NoRow /\ era = 0
  /\ writer = None
  /\ life = [p \in Process |-> "DOWN"]
  /\ held = [p \in Process |-> Unloaded]
  /\ call = [p \in Process |-> NoCall]
  /\ due = {} /\ told = {}
  /\ done = [k \in Permit |-> 0]
  /\ vested = [p \in Process |-> {}]

Engine(p) ==
  \/ \E m \in Methods : Call(p, m)
  \/ Answer(p)
  \/ Fail(p)
  \/ Interrupt(p)
  \/ Read(p)
  \/ \E key \in Key : Start(p, key)
  \/ Crash(p)

Next ==
  \/ \E p \in Process : Engine(p)
  \/ \E e \in Range(file.state.chain) : Elapse(e)
  \/ Copy
  \/ Rewind

Spec == Init /\ [][Next]_vars

-----------------------------------------------------------------------------
(* Properties *)

\* Every variable keeps its type.
TypeOK ==
  /\ file \in Row
  /\ backup \in Row
  /\ era \in 0 .. MaxRewinds
  /\ writer \in Process \cup {None}
  /\ life \in [Process -> {"DOWN", "IDLE", "IN_CALL"}]
  /\ held \in [Process -> Holding]
  /\ call \in [Process -> [before: Holding,
                            tells: [answer: Answers \cup {None},
                                    permit: Permit \cup {None}]]]
  /\ due \subseteq Event
  /\ \A a \in told : a.answer \in Answers /\ a.permit \in Permit
  /\ done \in [Permit -> Nat]
  /\ vested \in [Process -> SUBSET Key]

\* s holds everything that r holds.
Extends(s, r) ==
  /\ IsPrefix(r.chain, s.chain)
  /\ r.revoked \subseteq s.revoked
  /\ \A k \in Permit :
       /\ r.permits[k].fate # "absent" => s.permits[k].key = r.permits[k].key
       /\ r.permits[k].fate \notin {"absent", "live"} =>
            s.permits[k].fate = r.permits[k].fate
       /\ r.permits[k].fate = "live" => s.permits[k].fate # "absent"

\* What a process has seen of the store: a call that has not ended counts
\* for nothing.
Seen(p) == IF life[p] = "IN_CALL" THEN call[p].before.state ELSE held[p].state

\* A running process never unsees anything: whatever row is put into the file
\* and whatever fails, what it knew before a step it knows after it, so it
\* never executes again what it saw executed, revives a permit it saw dead or
\* accepts a key it saw revoked.
NeverUnsees ==
  [][\A p \in Process :
       life[p] # "DOWN" /\ life'[p] # "DOWN" => Extends(Seen(p)', Seen(p))]_vars

Stands(a, s) ==
  LET fate == s.permits[a.permit].fate IN
  CASE a.answer = "ALLOW" -> fate # "absent"
    [] a.answer \in {"EXECUTED", "PERMIT_ALREADY_CONSUMED"} -> fate = "consumed"
    [] a.answer = "REFUSAL" -> fate = "PERMIT_KEY_REVOKED"
    [] OTHER -> fate = a.answer

\* What any process told any caller since the file was last put back is what
\* the file says, through crashes, failed saves and interrupts: what was
\* acknowledged is stored, and a permit refused for good is refused by every
\* process from then on.
AnswersStand == \A a \in told : Stands(a, file.state)

\* A permit is executed once across all processes, and each old file put back
\* allows one execution more: those that saw the first refuse the file, but a
\* process started on it, or behind the copy, has nothing to compare with.
OneExecution == \A k \in Permit : done[k] <= 1 + era

\* A revoked key is dead in every process: the file holds no live permit under
\* it, not even one a process with an older registry has just signed.
RevokedKeyIsDead ==
  \A k \in Permit : LET s == file.state IN
    s.permits[k].fate = "live" => s.permits[k].key \notin s.revoked

\* Between calls the registry of a process is the signers it was told are
\* installed, less the revoked ones: a rotation or revocation that failed
\* leaves no trace, in particular no signer nobody acknowledged.
RegistryAsAcknowledged ==
  \A p \in Process : life[p] = "IDLE" =>
    /\ held[p].signer \in held[p].verifiers
    /\ held[p].verifiers = vested[p] \ held[p].state.revoked

\* Keys are what their processes were told: the dead ones in the file, the installed
\* ones in each memory.
KeysSound == RevokedKeyIsDead /\ RegistryAsAcknowledged

Book == INSTANCE SharedBook WITH
  fate <- [k \in Permit |-> file.state.permits[k].fate],
  sealed <- [k \in Permit |-> file.state.permits[k].key],
  revoked <- file.state.revoked

\* Until somebody puts an older file back, and from one time to the next, the
\* processes together are one serial engine: each commit applies one call to
\* what the file held, so no update of another process is lost.
Implements ==
  Book!BookInit /\ [][Book!BookNext \/ era' # era]_<<file, era>>
=============================================================================
