--------------------------- MODULE ObserverExport ---------------------------
(***************************************************************************)
(* The event chain of the engine (AppendOnlyLedger), the public export made*)
(* of it (build_observer_export) and the offline reader of exports         *)
(* (sdk/python/nc25ol_reader.py), which shares no code with the engine.    *)
(*                                                                         *)
(* Hashes and signatures are ideal: the hash of a link stands for all that *)
(* it covers, the hash before it, its place and what it says.  The chain   *)
(* in memory may be overwritten, and a file may be damaged on its way to   *)
(* its reader or pieced together, by anybody without the operator's keys.  *)
(***************************************************************************)
EXTENDS Naturals, FiniteSets, SequencesExt

CONSTANTS
  Decision,   \* decisions, each asked for under an idempotency key of its own
  Subject,    \* intents, the subject_ref of their events
  IntentOf,   \* [Decision -> Subject], the intent of each: several may have one
  MaxEvents,  \* bound: events in a chain
  MaxSpoils,  \* bound: how often the memory is overwritten
  MaxMade,    \* bound: exports built
  MaxDamage   \* bound: how often a file is changed

ASSUME ExportAssumption ==
  /\ IntentOf \in [Decision -> Subject]
  /\ MaxEvents \in Nat /\ MaxSpoils \in Nat /\ MaxMade \in Nat /\ MaxDamage \in Nat

VARIABLES
  chain,    \* the engine's events in memory, linked and signed
  history,  \* what the engine did, in order
  spoils,   \* how often the memory was overwritten
  export,   \* the export in progress: its stage, what was verified, the first read
  made,     \* the exports built
  told,     \* those of which one read found what had been verified
  whole,    \* those of which the second read did, of which the file is made
  file,     \* the export a reader has
  damage    \* how often it was changed

memory == <<chain, history, spoils>>
exports == <<export, made, told, whole>>
vars == <<memory, exports, file, damage>>

-----------------------------------------------------------------------------
(* Chains *)

\* What an event says: its type, its decision, and its disposition or outcome.
Says == ({"PERMIT_ISSUED"} \X Decision \X {"ALLOW"})
        \cup ({"INTENT_NON_EXECUTABLE"} \X Decision \X {"REFUSAL", "MANUAL_REVIEW"})
        \cup ({"EXECUTION_RECORDED"} \X Decision \X {"COMMITTED", "FAILED"})

Genesis == <<>>

HashOf(index, previous, what) == Append(previous, <<index, what>>)

Link(index, previous, what) ==
  [index |-> index, previous |-> previous, what |-> what,
   hash |-> HashOf(index, previous, what)]

HeadOf(links) ==
  [count |-> Len(links), hash |-> IF links = <<>> THEN Genesis ELSE Last(links).hash]

\* Each link is at its place, follows the one before it, and hashes to its hash.
Chained(links) ==
  \A i \in DOMAIN links :
    /\ links[i].index = i - 1
    /\ links[i].previous = IF i = 1 THEN Genesis ELSE links[i - 1].hash
    /\ links[i].hash = HashOf(links[i].index, links[i].previous, links[i].what)

\* What the hash of the n-th link of these contents stands for.
Covered(contents, n) == [j \in 1 .. n |-> <<j - 1, contents[j]>>]

\* A chain of these contents, whoever computes it.
Rechained(contents) ==
  [i \in DOMAIN contents |-> Link(i - 1, Covered(contents, i - 1), contents[i])]

Contents(links) == [i \in DOMAIN links |-> links[i].what]

-----------------------------------------------------------------------------
(* The engine: its chain and the export of it *)

Signed(link) == [link |-> link, seal |-> link.hash]

\* AppendOnlyLedger.verify: the links hold, and each has the signature of its hash.
Verifies(c) ==
  /\ Chained([i \in DOMAIN c |-> c[i].link])
  /\ \A i \in DOMAIN c : c[i].seal = c[i].link.hash

Told(c) == [i \in DOMAIN c |-> c[i].link.what]

\* Mutation: an execution that failed is surfaced as well.
SurfacesOutcomes(what) == TRUE

Surfaces(what) == what[3] # "FAILED"

Channel == [EXECUTION_AUTHORIZED |-> "OUTPUT", EXECUTION_COMMITTED |-> "OUTPUT",
            EXECUTION_DENIED |-> "REFUSAL", HUMAN_REVIEW_REQUIRED |-> "REFUSAL"]

MessageCode(what) ==
  IF what[1] = "PERMIT_ISSUED" THEN "EXECUTION_AUTHORIZED"
  ELSE IF what[1] = "EXECUTION_RECORDED" THEN "EXECUTION_COMMITTED"
  ELSE IF what[3] = "REFUSAL" THEN "EXECUTION_DENIED"
  ELSE "HUMAN_REVIEW_REQUIRED"

PublicRecord(what) ==
  LET code == MessageCode(what) IN
  [channel |-> Channel[code], message_code |-> code, subject_ref |-> IntentOf[what[2]]]

\* The places of the events that are surfaced, and the k-th of them.
Surfaced(events) == {i \in DOMAIN events : Surfaces(events[i])}
Rank(P, i) == Cardinality({j \in P : j <= i})
Place(P, k) == CHOOSE i \in P : Rank(P, i) = k

\* The rows of the export.
Projection(events) ==
  LET P == Surfaced(events) IN
  [k \in 1 .. Cardinality(P) |-> PublicRecord(events[Place(P, k)])]

\* The same rows as observer_projection gives them, where what was executed has the
\* code of what was authorized.
Original(row) ==
  IF row.message_code = "EXECUTION_COMMITTED"
  THEN [row EXCEPT !.message_code = "EXECUTION_AUTHORIZED"] ELSE row

Originals(rows) == [k \in DOMAIN rows |-> Original(rows[k])]

\* Mutation: the two reads of an export are not compared.
ComparesNothing(first, second) == TRUE

Agree(first, second) == Originals(Projection(first)) = Originals(Projection(second))

\* The signature covers the head and the key, and the head the events.
Sign(key, head) == [by |-> key, over |-> head]

Bundle(records, key) ==
  LET links == Rechained(records) IN
  [events |-> links, head |-> HeadOf(links), key |-> key,
   signature |-> Sign(key, HeadOf(links))]

\* Bound: the engine rests while a file is on its way.  What can become of the file
\* depends on the exports made before, and it may set out at any time.
NoFile == Bundle(<<>>, "other")
Resting == file # NoFile

\* A key that was decided is answered without a new event.
MayDecide(d) == \A e \in Range(history) : e[2] # d

\* An execution needs a permit, and a permit that was consumed is answered.
MayExecute(d) ==
  /\ <<"PERMIT_ISSUED", d, "ALLOW">> \in Range(history)
  /\ \A o \in {"COMMITTED", "FAILED"} : <<"EXECUTION_RECORDED", d, o>> \notin Range(history)

Idle == [stage |-> "IDLE", verified |-> <<>>, first |-> <<>>]

\* Whatever appends takes the lock that an export holds over its reads.  Bound: the
\* memory is not overwritten in the middle of a call that appends.
Event(what) ==
  /\ ~Resting
  /\ export = Idle
  /\ Verifies(chain)
  /\ Len(chain) < MaxEvents
  /\ IF what[1] = "EXECUTION_RECORDED" THEN MayExecute(what[2]) ELSE MayDecide(what[2])
  /\ chain' = Append(chain, Signed(Link(Len(chain),
                 HeadOf([i \in DOMAIN chain |-> chain[i].link]).hash, what)))
  /\ history' = Append(history, what)
  /\ UNCHANGED <<spoils, exports, file, damage>>

\* build_observer_export takes the lock and has observer_projection verify the chain.
VerifyExport ==
  /\ ~Resting
  /\ export = Idle
  /\ Cardinality(made) < MaxMade
  /\ Verifies(chain)
  /\ export' = [Idle EXCEPT !.stage = "VERIFIED", !.verified = Told(chain)]
  /\ UNCHANGED <<memory, made, told, whole, file, damage>>

\* observer_projection reads the events after it verified them.
ProjectExport ==
  /\ export.stage = "VERIFIED"
  /\ export' = [export EXCEPT !.stage = "PROJECTED", !.first = Told(chain)]
  /\ UNCHANGED <<memory, made, told, whole, file, damage>>

\* The events are read again, and what the second read gives is signed.
SignExport ==
  LET second == Told(chain)
      b == Bundle(Projection(second), "operator")
      now == second = export.verified
  IN
  /\ export.stage = "PROJECTED"
  /\ Agree(export.first, second)
  /\ export' = Idle
  /\ made' = made \cup {b}
  /\ told' = told \cup {o \in {b} : now \/ export.first = export.verified}
  /\ whole' = whole \cup {o \in {b} : now}
  /\ UNCHANGED <<memory, file, damage>>

\* OBSERVER_EXPORT_PROJECTION_MISMATCH
RefuseExport ==
  /\ export.stage = "PROJECTED"
  /\ ~Agree(export.first, Told(chain))
  /\ export' = Idle
  /\ UNCHANGED <<memory, made, told, whole, file, damage>>

\* Something in the process overwrites an event, with or without the hashes after
\* it, at any moment of an export: it takes no lock.  It cannot sign.
Spoil ==
  /\ ~Resting
  /\ spoils < MaxSpoils
  /\ Verifies(chain)
  /\ chain # <<>>
  /\ \E i \in DOMAIN chain : \E what \in Says \ {chain[i].link.what} :
       LET forged == [Told(chain) EXCEPT ![i] = what] IN
       chain' \in {[chain EXCEPT ![i].link.what = what],
                   [n \in DOMAIN chain |-> [chain[n] EXCEPT !.link = Rechained(forged)[n]]]}
  /\ spoils' = spoils + 1
  /\ UNCHANGED <<history, exports, file, damage>>

\* It puts back what was there.
Restore ==
  /\ ~Resting
  /\ ~Verifies(chain)
  /\ chain' = [n \in DOMAIN history |-> Signed(Rechained(history)[n])]
  /\ UNCHANGED <<history, spoils, exports, file, damage>>

-----------------------------------------------------------------------------
(* The file on its way *)

Receive(b) ==
  /\ ~Resting
  /\ export = Idle
  /\ Verifies(chain)
  /\ file' = b /\ damage' = 0
  /\ UNCHANGED <<memory, exports>>

\* An event is lost, two are swapped, a record is changed; the chain is computed
\* anew, the head is; parts of another export are put in; another key signs.
DamagedEvents(events) ==
  LET n == Len(events) IN
  {RemoveAt(events, i) : i \in 1 .. n}
  \cup {[events EXCEPT ![i] = events[j], ![j] = events[i]] : i \in 1 .. n, j \in 1 .. n}
  \cup {[events EXCEPT ![i] = [@ EXCEPT !.what = PublicRecord(what)]] :
          i \in 1 .. n, what \in Says}
  \cup {Rechained(Contents(events))} \cup {o.events : o \in made}

Damaged(b) ==
  {[b EXCEPT !.events = e] : e \in DamagedEvents(b.events)}
  \cup {[b EXCEPT !.head = h] : h \in {HeadOf(b.events)} \cup {o.head : o \in made}}
  \cup {[b EXCEPT !.signature = o.signature] : o \in made}
  \cup {[b EXCEPT !.key = "other", !.signature = Sign("other", b.head)]}

\* The reader is done with the file.
Discard ==
  /\ Resting
  /\ file' = NoFile /\ damage' = 0
  /\ UNCHANGED <<memory, exports>>

Damage ==
  /\ Resting
  /\ damage < MaxDamage
  /\ damage' = damage + 1
  /\ file' \in Damaged(file)
  /\ UNCHANGED <<memory, exports>>

-----------------------------------------------------------------------------
(* The reader *)

\* Mutation: the head's hash is not held against the events.
HeadFitsCount(b) == b.head.count = Len(b.events)

HeadFits(b) == b.head = HeadOf(b.events)

SoundRecord(r) ==
  /\ r.message_code \in DOMAIN Channel
  /\ Channel[r.message_code] = r.channel

\* verify_export with a pinned key; nothing stands for no pin.
Accepts(b, pin) ==
  /\ b.key \in pin
  /\ Len(b.events) <= MaxEvents
  /\ \A i \in DOMAIN b.events : SoundRecord(b.events[i].what)
  /\ Chained(b.events)
  /\ HeadFits(b)
  /\ b.signature = Sign(b.key, b.head)

Count(b, code) ==
  Cardinality({i \in DOMAIN b.events : b.events[i].what.message_code = code})

Summary(b) == [authorized |-> Count(b, "EXECUTION_AUTHORIZED"),
               executed |-> Count(b, "EXECUTION_COMMITTED"),
               denied |-> Count(b, "EXECUTION_DENIED"),
               review |-> Count(b, "HUMAN_REVIEW_REQUIRED")]

Init ==
  /\ chain = <<>> /\ history = <<>> /\ spoils = 0
  /\ export = Idle
  /\ made = {} /\ told = {} /\ whole = {}
  /\ file = NoFile
  /\ damage = 0

Next ==
  \/ \E what \in Says : Event(what)
  \/ VerifyExport
  \/ ProjectExport
  \/ SignExport
  \/ RefuseExport
  \/ Spoil
  \/ Restore
  \/ \E b \in made : Receive(b)
  \/ Damage
  \/ Discard

Spec == Init /\ [][Next]_vars

-----------------------------------------------------------------------------
(* Properties *)

\* A reader that knows the operator's key accepts no file but an export that the
\* operator built, whole and in order, however files are damaged or mixed.
AcceptedIsGenuine == Accepts(file, {"operator"}) => file \in made

CountOf(n, what) ==
  Cardinality({i \in 1 .. n : history[i][1] = what[1] /\ history[i][3] = what[2]})

\* What the reader counts is what the engine had done at some moment, and no execution
\* without its permit, if what was signed is what was verified.  If only the first read
\* was, the file can call what was authorized executed or the other way round, for the
\* comparison takes both for one: the rest, and the two together, are still right.
SummaryTells ==
  Accepts(file, {"operator"}) =>
    /\ file \in whole =>
         /\ \E n \in 0 .. Len(history) :
              Summary(file) = [authorized |-> CountOf(n, <<"PERMIT_ISSUED", "ALLOW">>),
                               executed |-> CountOf(n, <<"EXECUTION_RECORDED", "COMMITTED">>),
                               denied |-> CountOf(n, <<"INTENT_NON_EXECUTABLE", "REFUSAL">>),
                               review |-> CountOf(n, <<"INTENT_NON_EXECUTABLE", "MANUAL_REVIEW">>)]
         /\ Summary(file).executed <= Summary(file).authorized
    /\ file \in told =>
         \E n \in 0 .. Len(history) :
           /\ Summary(file).denied = CountOf(n, <<"INTENT_NON_EXECUTABLE", "REFUSAL">>)
           /\ Summary(file).review = CountOf(n, <<"INTENT_NON_EXECUTABLE", "MANUAL_REVIEW">>)
           /\ Summary(file).authorized + Summary(file).executed =
                CountOf(n, <<"PERMIT_ISSUED", "ALLOW">>)
                  + CountOf(n, <<"EXECUTION_RECORDED", "COMMITTED">>)

Begins(p, q) == IsPrefix(p, q) \/ IsPrefix(q, p)

\* Exports tell one story, the earlier the beginning of the later, though the memory be
\* overwritten and put back at any moment: those of which what was signed is what was
\* verified, word for word, and those of which either read was, but for the difference
\* between authorized and executed.
OneStory ==
  /\ \A b, c \in whole : Begins(b.events, c.events)
  /\ \A b, c \in told :
       Begins(Originals(Contents(b.events)), Originals(Contents(c.events)))
=============================================================================
