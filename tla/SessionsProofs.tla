--------------------------- MODULE SessionsProofs ---------------------------
(***************************************************************************)
(* The sessions of the examples, for any sources, readers and declarations *)
(* and any number of changes and messages.                                 *)
(*                                                                         *)
(* A release is tied to the pinned commit by snapshots that must be equal, *)
(* though they are taken apart: the collector's around the child's run,    *)
(* and the release's own (Bindings).  The child read a file as the         *)
(* collector's digest of it, or after others had changed it (Child).  An   *)
(* objection is tied to the owner's view by its MAC: none is on the wire   *)
(* but of an objection written under the view its author had pinned        *)
(* (Authored).                                                             *)
(***************************************************************************)
EXTENDS MCSessions, TLAPS

-----------------------------------------------------------------------------
(* The release *)

Committed == [f \in Source |-> "COMMITTED"]

\* The stages up to the run, after it, and those at which the release rests on it.
ToRun == {"PREPARE", "ASSOCIATE", "BEFORE"}
Observed == {"AFTER", "INTERPRET", "RECEIVE", "RECEIVED"}
Prepared == {"RECHECK", "PREPARED", "OPEN", "SUBMIT", "SEND"}
WithSession == {"OPEN", "SUBMIT", "SEND"}

Read == [Source -> Content \cup {"UNREAD"}]

ReleaseType ==
  /\ tree \in [Checkout -> Content]
  /\ fixture \in Fixture
  /\ stage \in {"RUN", "REFUSED"} \cup ToRun \cup Observed \cup Prepared
  /\ digests \in Read /\ again \in Read /\ source \in Read /\ collector \in Read /\ ran \in Read
  /\ report \in [registry : Fixture \cup {"NONE"}, status : {"NONE", "VERIFIED"}]
  /\ session \in [registry : Fixture \cup {"NONE"}, content : {"NONE", "BUILT", "SWAPPED"}]
  /\ archive \in {"NONE", "BUILT", "SWAPPED"}

\* The snapshots agree, from the stage on at which they were held against each other,
\* and what the child reported agrees with them.
Bindings ==
  /\ stage \notin {"PREPARE", "REFUSED"} => source = Committed
  /\ stage \in {"RECEIVE", "RECEIVED"} \cup Prepared => Provenance
  /\ stage \in Prepared => collector = source

\* A file is as the collector's digest of it, or was changed by others since; the child
\* read it so.
Holds(content, taken, f) == content = taken[f] \/ f \in disturbed

Child ==
  /\ stage \in ToRun => ran = NotRead
  /\ stage = "BEFORE" =>
       /\ step \in {"CLEAN", "DIGEST", "TAKEN"}
       /\ step = "TAKEN" => unread = {}
       /\ step # "CLEAN" => \A f \in Source \ unread : Holds(tree[f], digests, f)
  /\ stage = "RUN" => \A f \in Source :
       Holds(IF ran[f] = "UNREAD" THEN tree[f] ELSE ran[f], collector, f)
  /\ stage \in Observed \cup Prepared => \A f \in Source : Holds(ran[f], collector, f)

\* What a session and what went out is made of.
Sealed ==
  /\ stage \in WithSession => session.registry = report.registry
  /\ stage \in {"SUBMIT", "SEND"} => session.content = "BUILT" /\ sent = <<>>
  /\ stage \notin WithSession => sent = <<>>
  /\ sent = <<>> \/ sent = <<"BUILT">>

\* What was as committed since submit was called: all that is read already, and
\* everything once the first look is over.
Seen ==
  /\ stood \subseteq Checkout
  /\ stage = "SUBMIT" =>
       /\ {x \in Checkout : tree[x] = "COMMITTED"} \subseteq stood
       /\ step = "CLEAN" => Checkout \ unread \subseteq stood
       /\ step # "CLEAN" => stood = Checkout
  /\ stage = "SEND" => stood = Checkout

ReleaseInv == ReleaseType /\ Bindings /\ Child /\ Sealed /\ Seen

LEMMA ReleaseInit ==
  ASSUME Init
  PROVE  ReleaseInv
<1>1. ReleaseType
  BY DEF Init, ReleaseType, Content, Fixture, NotRead, NoReport, NoSession, ToRun, Read
<1>2. Bindings /\ Child /\ Sealed /\ Seen
  BY DEF Init, Bindings, Child, Sealed, Seen, ToRun, Observed, Prepared, WithSession
<1> QED
  BY <1>1, <1>2 DEF ReleaseInv

\* A refusal keeps what is known; a refused call leaves the release open.
LEMMA RefuseKeeps ==
  ASSUME ReleaseInv, Refuse, stage \notin WithSession
  PROVE  ReleaseInv'
<1>1. /\ stage' = "REFUSED"
      /\ UNCHANGED <<world, reading, source, collector, child, report, caller, stood>>
  BY DEF Refuse
<1> QED
  BY <1>1 DEF ReleaseInv, ReleaseType, Bindings, Child, Sealed, Seen, ToRun, Observed, Prepared,
     WithSession, Read, world, reading, child, caller

LEMMA RefuseCallKeeps ==
  ASSUME ReleaseInv, RefuseCall, stage = "SUBMIT"
  PROVE  ReleaseInv'
<1>1. /\ stage' = "OPEN"
      /\ UNCHANGED <<world, reading, source, collector, child, report, caller, stood>>
  BY DEF RefuseCall
<1>2. ReleaseType'
  BY <1>1 DEF ReleaseInv, ReleaseType, Prepared, Read, world, reading, child, caller
<1>3. Bindings' /\ Child'
  BY <1>1 DEF ReleaseInv, Bindings, Provenance, Child, Holds, ToRun, Observed, Prepared,
     world, reading, child
<1>4. Sealed' /\ Seen'
  BY <1>1 DEF ReleaseInv, Sealed, Seen, WithSession, caller
<1> QED
  BY <1>2, <1>3, <1>4 DEF ReleaseInv

LEMMA FailsKeeps ==
  ASSUME ReleaseInv, Fails, stage \in Inventories \cup Snapshots
  PROVE  ReleaseInv'
<1>1. CASE stage = "SUBMIT"
  BY <1>1, RefuseCallKeeps DEF Fails
<1>2. CASE stage # "SUBMIT"
  <2>1. stage \notin WithSession
    BY <1>2 DEF WithSession, Inventories, Snapshots
  <2> QED
    BY <1>2, <2>1, RefuseKeeps DEF Fails
<1> QED
  BY <1>1, <1>2

-----------------------------------------------------------------------------
(* Reading the sources *)

\* What a step of reading leaves: the walk is at an earlier item of the same step, or at
\* the start of the next one, and the first step is never come back to.
LEMMA DoneSteps ==
  ASSUME NEW x, Done(x)
  PROVE  /\ step' = "CLEAN" => step = "CLEAN" /\ unread' = unread \ {x}
         /\ step = "CLEAN" /\ step' # "CLEAN" => unread = {x} /\ step' = "DIGEST"
         /\ step = "DIGEST" /\ stage \notin Inventories =>
              \/ step' = "DIGEST" /\ unread' = unread \ {x}
              \/ step' = "TAKEN" /\ unread = {x} /\ unread' = {}
         /\ step' = "DIGEST" /\ step # "DIGEST" => unread' = Source
BY DEF Done, After, ToRead

LEMMA CheckKeeps ==
  ASSUME ReleaseInv, stage \in Inventories \cup Snapshots, NEW x \in Checkout,
         CheckCommitted(x)
  PROVE  ReleaseInv'
<1>1. CASE tree[x] # "COMMITTED"
  BY <1>1, FailsKeeps DEF CheckCommitted
<1>2. CASE tree[x] = "COMMITTED"
  <2>1. /\ Done(x) /\ step \in {"CLEAN", "COMPARE", "CLEAN_AGAIN"}
        /\ UNCHANGED <<world, stage, digests, again, source, collector, child, report,
                       caller, stood>>
    BY <1>2 DEF CheckCommitted
  <2>2. ReleaseType' /\ Bindings' /\ Sealed'
    BY <2>1 DEF ReleaseInv, ReleaseType, Bindings, Provenance, Sealed, Read, world, child, caller
  <2>3. Child'
    <3>1. stage = "BEFORE" => step = "CLEAN"
      BY <2>1 DEF ReleaseInv, Child
    <3>2. stage = "BEFORE" => step' = "CLEAN" \/ (step' = "DIGEST" /\ unread' = Source)
      BY <2>1, <3>1, DoneSteps
    <3> QED
      BY <2>1, <3>2 DEF ReleaseInv, Child, Holds, world, child
  <2>4. Seen'
    <3>1. stage = "SUBMIT" => x \in stood
      BY <1>2 DEF ReleaseInv, Seen
    <3>2. stage = "SUBMIT" /\ step' = "CLEAN" => Checkout \ unread' \subseteq stood
      BY <2>1, <3>1, DoneSteps DEF ReleaseInv, Seen
    <3>3. stage = "SUBMIT" /\ step' # "CLEAN" => stood = Checkout
      BY <2>1, <3>1, DoneSteps DEF ReleaseInv, Seen
    <3> QED
      BY <2>1, <3>2, <3>3 DEF ReleaseInv, Seen, world
  <2> QED
    BY <2>2, <2>3, <2>4 DEF ReleaseInv
<1> QED
  BY <1>1, <1>2

LEMMA DigestKeeps ==
  ASSUME ReleaseInv, stage \in Inventories \cup Snapshots, NEW f \in Source, ReadDigest(f)
  PROVE  ReleaseInv'
<1>1. /\ Done(f) /\ step \in {"DIGEST", "DIGEST_AGAIN"} /\ f \in unread
      /\ digests' = IF step = "DIGEST" THEN [digests EXCEPT ![f] = tree[f]] ELSE digests
      /\ again' = IF step = "DIGEST" THEN again ELSE [again EXCEPT ![f] = tree[f]]
      /\ disturbed' = IF stage = "BEFORE" THEN disturbed \ {f} ELSE disturbed
      /\ UNCHANGED <<world, stage, source, collector, ran, claimed, report, caller, stood>>
  BY DEF ReadDigest
<1>2. tree[f] \in Content
  BY DEF ReleaseInv, ReleaseType, Checkout, File
<1>3. ReleaseType'
  BY <1>1, <1>2 DEF ReleaseInv, ReleaseType, Read, world, caller
<1>4. Bindings' /\ Sealed'
  BY <1>1 DEF ReleaseInv, Bindings, Provenance, Sealed, caller
<1>5. Child'
  <2>1. CASE stage = "BEFORE"
    <3>1. step = "DIGEST" /\ stage \notin Inventories
      BY <1>1, <2>1 DEF ReleaseInv, Child, Inventories
    <3>2. \/ step' = "DIGEST" /\ unread' = unread \ {f}
          \/ step' = "TAKEN" /\ unread = {f} /\ unread' = {}
      BY <1>1, <3>1, DoneSteps
    <3>3. digests' = [digests EXCEPT ![f] = tree[f]] /\ disturbed' = disturbed \ {f} /\ tree' = tree
      BY <1>1, <2>1, <3>1 DEF world
    <3>4. ASSUME NEW g \in Source \ unread'
          PROVE  (tree[g] = digests[g] \/ g \in disturbed) \/ g = f
      BY <2>1, <3>1, <3>2 DEF ReleaseInv, Child, Holds
    <3>5. digests'[f] = tree[f] /\ \A g \in Source \ {f} : digests'[g] = digests[g]
      BY <3>3 DEF ReleaseInv, ReleaseType, Read
    <3>6. \A g \in Source \ unread' : Holds(tree[g], digests, g)'
      BY <3>3, <3>4, <3>5 DEF Holds
    <3>7. stage' = "BEFORE" /\ ran' = NotRead
      BY <1>1, <2>1 DEF ReleaseInv, Child, ToRun
    <3> QED
      BY <3>2, <3>6, <3>7 DEF Child, ToRun, Observed, Prepared
  <2>2. CASE stage # "BEFORE"
    BY <1>1, <2>2 DEF ReleaseInv, Child, Holds, world
  <2> QED
    BY <2>1, <2>2
<1>6. Seen'
  <2>1. step' # "CLEAN"
    BY <1>1, DoneSteps
  <2> QED
    BY <1>1, <2>1 DEF ReleaseInv, Seen, world
<1> QED
  BY <1>3, <1>4, <1>5, <1>6 DEF ReleaseInv

LEMMA CommittedIs ==
  ASSUME NEW taken \in Read, Bound(taken)
  PROVE  taken = Committed
BY DEF Read, Bound, Committed

LEMMA EndInventoryKeeps ==
  ASSUME ReleaseInv, EndInventory
  PROVE  ReleaseInv'
<1>1. stage \in {"PREPARE", "RECHECK", "SUBMIT"} /\ step = "TAKEN"
  BY DEF EndInventory, Inventories
<1>2. CASE Fails
  BY <1>1, <1>2, FailsKeeps DEF Inventories
<1>3. CASE ~Fails
  <2>1. /\ stage = "PREPARE" => stage' = "ASSOCIATE"
        /\ stage = "RECHECK" => stage' = "PREPARED"
        /\ stage = "SUBMIT" => stage' = "SEND"
    BY <1>1, <1>3 DEF EndInventory
  <2>2. digests \in Read /\ Bound(digests) /\ source' = digests
    BY <1>3 DEF EndInventory, ReleaseInv, ReleaseType
  <2>3. source' = Committed /\ source' \in Read
    BY <2>2, CommittedIs
  <2>4. /\ report' = IF stage = "PREPARE" THEN [report EXCEPT !.registry = fixture] ELSE report
        /\ archive' = IF stage = "RECHECK" THEN "BUILT" ELSE archive
        /\ step' = "CLEAN" /\ digests' = NotRead /\ again' = NotRead
        /\ UNCHANGED <<world, collector, child, session, attempts, sent, stood>>
    BY <1>3 DEF EndInventory, Begin
  <2>5. NotRead \in Read
    BY DEF NotRead, Read
  <2>6. ReleaseType'
    BY <1>1, <2>1, <2>3, <2>4, <2>5 DEF ReleaseInv, ReleaseType, ToRun, Prepared, world, child
  <2>7. Bindings'
    BY <1>1, <2>1, <2>3, <2>4 DEF ReleaseInv, Bindings, Provenance, Prepared, child
  <2>8. Child'
    BY <1>1, <2>1, <2>4 DEF ReleaseInv, Child, Holds, ToRun, Observed, Prepared, world, child
  <2>9. Sealed' /\ Seen'
    BY <1>1, <2>1, <2>4 DEF ReleaseInv, Sealed, Seen, WithSession
  <2> QED
    BY <2>6, <2>7, <2>8, <2>9 DEF ReleaseInv
<1> QED
  BY <1>2, <1>3

\* The digests taken before the run are the collector's, so what it holds of a file is on
\* the disk when the child starts, but for what others changed since.
LEMMA EndSnapshotKeeps ==
  ASSUME ReleaseInv, EndSnapshot
  PROVE  ReleaseInv'
<1>1. stage \in {"ASSOCIATE", "BEFORE", "AFTER", "RECEIVE"} /\ step = "TAKEN"
  BY DEF EndSnapshot, Snapshots
<1>2. CASE Refuse
  BY <1>1, <1>2, RefuseKeeps DEF WithSession
<1>3. CASE ~Refuse
  <2>1. /\ stage = "ASSOCIATE" => stage' = "BEFORE"
        /\ stage = "BEFORE" => stage' = "RUN"
        /\ stage = "AFTER" => stage' = "INTERPRET"
        /\ stage = "RECEIVE" => stage' = "RECEIVED"
    BY <1>1, <1>3 DEF EndSnapshot
  <2>2. /\ collector' = digests
        /\ stage # "ASSOCIATE" => collector' = collector
        /\ step' = "CLEAN" /\ digests' = NotRead /\ again' = NotRead
        /\ UNCHANGED <<world, source, child, report, caller, stood>>
    BY <1>3 DEF EndSnapshot, SameSources, Begin
  <2>3. NotRead \in Read
    BY DEF NotRead, Read
  <2>4. ReleaseType'
    BY <1>1, <2>1, <2>2, <2>3 DEF ReleaseInv, ReleaseType, ToRun, Observed, world, child, caller
  <2>5. Bindings'
    BY <1>1, <2>1, <2>2 DEF ReleaseInv, Bindings, Provenance, Prepared, child
  <2>6. Child'
    <3>1. CASE stage = "ASSOCIATE"
      BY <2>1, <2>2, <3>1 DEF ReleaseInv, Child, ToRun, Observed, Prepared, child
    <3>2. CASE stage = "BEFORE"
      <4>1. \A f \in Source : ran[f] = "UNREAD" /\ Holds(tree[f], digests, f)
        BY <1>1, <3>2 DEF ReleaseInv, Child, ToRun, NotRead
      <4> QED
        BY <2>1, <2>2, <3>2, <4>1 DEF Child, Holds, ToRun, Observed, Prepared, world, child
    <3>3. CASE stage \in {"AFTER", "RECEIVE"}
      BY <2>1, <2>2, <3>3 DEF ReleaseInv, Child, Holds, ToRun, Observed, Prepared, child
    <3> QED
      BY <1>1, <3>1, <3>2, <3>3
  <2>7. Sealed' /\ Seen'
    BY <1>1, <2>1, <2>2 DEF ReleaseInv, Sealed, Seen, WithSession, caller
  <2> QED
    BY <2>4, <2>5, <2>6, <2>7 DEF ReleaseInv
<1> QED
  BY <1>2, <1>3

-----------------------------------------------------------------------------
(* The child's run, and what its report is held against *)

LEMMA RunKeeps ==
  ASSUME ReleaseInv, (\E f \in Source : Load(f)) \/ (\E m \in Module : Claim(m)) \/ EndRun
  PROVE  ReleaseInv'
<1>1. stage = "RUN" /\ \A f \in Source : tree[f] \in Content
  BY DEF Load, Claim, EndRun, ReleaseInv, ReleaseType, Checkout, File
<1>2. ASSUME NEW f \in Source, Load(f)
      PROVE  ReleaseInv'
  <2>1. /\ ran[f] = "UNREAD" /\ ran' = [ran EXCEPT ![f] = tree[f]] /\ stage' = "RUN"
        /\ UNCHANGED <<world, reading, source, collector, claimed, disturbed, report,
                       caller, stood>>
    BY <1>1, <1>2 DEF Load
  <2>2. ReleaseType'
    BY <1>1, <2>1 DEF ReleaseInv, ReleaseType, Read, world, reading, caller
  <2>3. ran'[f] = tree[f] /\ tree[f] # "UNREAD" /\ \A g \in Source \ {f} : ran'[g] = ran[g]
    BY <1>1, <2>1 DEF ReleaseInv, ReleaseType, Read, Content
  <2>4. Child'
    <3>1. ASSUME NEW g \in Source
          PROVE  (Holds(IF ran[g] = "UNREAD" THEN tree[g] ELSE ran[g], collector, g))'
      BY <1>1, <2>1, <2>3 DEF ReleaseInv, Child, Holds, world
    <3> QED
      BY <2>1, <3>1 DEF Child, ToRun, Observed, Prepared
  <2>5. Bindings' /\ Sealed' /\ Seen'
    BY <1>1, <2>1 DEF ReleaseInv, Bindings, Sealed, Seen, Prepared, WithSession, caller
  <2> QED
    BY <2>2, <2>4, <2>5 DEF ReleaseInv
<1>3. CASE \E m \in Module : Claim(m)
  <2>1. /\ stage' = "RUN"
        /\ UNCHANGED <<world, reading, source, collector, ran, disturbed, report, caller, stood>>
    BY <1>1, <1>3 DEF Claim
  <2>2. ReleaseType' /\ Bindings' /\ Sealed' /\ Seen'
    BY <1>1, <2>1 DEF ReleaseInv, ReleaseType, Bindings, Sealed, Seen, Prepared, WithSession,
       Read, world, reading, caller
  <2>3. Child'
    BY <1>1, <2>1 DEF ReleaseInv, Child, Holds, ToRun, Observed, Prepared, world
  <2> QED
    BY <2>2, <2>3 DEF ReleaseInv
<1>4. CASE EndRun
  <2>1. /\ stage' = "AFTER" /\ \A f \in Source : ran[f] # "UNREAD"
        /\ UNCHANGED <<world, reading, source, collector, child, report, caller, stood>>
    BY <1>4 DEF EndRun
  <2>2. ReleaseType' /\ Bindings' /\ Sealed' /\ Seen'
    BY <1>1, <2>1 DEF ReleaseInv, ReleaseType, Bindings, Sealed, Seen, Observed, Prepared,
       WithSession, Read, world, reading, child, caller
  <2>3. Child'
    BY <1>1, <2>1 DEF ReleaseInv, Child, Holds, ToRun, Observed, Prepared, child
  <2> QED
    BY <2>2, <2>3 DEF ReleaseInv
<1> QED
  BY <1>2, <1>3, <1>4

LEMMA ReportKeeps ==
  ASSUME ReleaseInv, Interpret \/ Verified
  PROVE  ReleaseInv'
<1>1. stage \in {"INTERPRET", "RECEIVED"}
  BY DEF Interpret, Verified
<1>2. CASE Refuse
  BY <1>1, <1>2, RefuseKeeps DEF WithSession
<1>3. CASE ~Refuse
  <2>1. /\ stage = "INTERPRET" => stage' = "RECEIVE" /\ Provenance
        /\ stage = "RECEIVED" => stage' = "RECHECK" /\ collector = source
        /\ report' \in {report, [report EXCEPT !.status = "VERIFIED"]}
        /\ UNCHANGED <<world, reading, source, collector, child, caller, stood>>
    BY <1>3 DEF Interpret, Verified
  <2>2. ReleaseType'
    BY <1>1, <2>1 DEF ReleaseInv, ReleaseType, Observed, Prepared, Read, world, reading, child,
       caller
  <2>3. Bindings'
    BY <1>1, <2>1 DEF ReleaseInv, Bindings, Provenance, Prepared, child
  <2>4. Child'
    BY <1>1, <2>1 DEF ReleaseInv, Child, Holds, ToRun, Observed, Prepared, child
  <2>5. Sealed' /\ Seen'
    BY <1>1, <2>1 DEF ReleaseInv, Sealed, Seen, WithSession, caller
  <2> QED
    BY <2>2, <2>3, <2>4, <2>5 DEF ReleaseInv
<1> QED
  BY <1>2, <1>3

-----------------------------------------------------------------------------
(* The release, from the session on, and the others *)

\* Between the stages of a prepared release nothing that it rests on moves.
LEMMA PreparedKeeps ==
  ASSUME ReleaseInv, stage \in Prepared, stage' \in Prepared,
         UNCHANGED <<source, collector, child>>
  PROVE  Bindings' /\ Child'
BY DEF ReleaseInv, Bindings, Provenance, Child, Holds, ToRun, Observed, Prepared, child

LEMMA ReleaseKeeps ==
  ASSUME ReleaseInv,
         Open \/ Overwrite \/ Send \/ \E package \in {"BUILT", "SWAPPED"} : Submit(package)
  PROVE  ReleaseInv'
<1>1. CASE Open
  <2>1. stage = "PREPARED"
    BY <1>1 DEF Open
  <2>2. CASE Refuse
    BY <2>1, <2>2, RefuseKeeps DEF WithSession
  <2>3. CASE ~Refuse
    <3>1. /\ stage' = "OPEN" /\ fixture = report.registry /\ archive = "BUILT"
          /\ session' = [registry |-> fixture, content |-> archive]
          /\ UNCHANGED <<world, reading, source, collector, child, report, archive, attempts,
                         sent, stood>>
      BY <1>1, <2>3 DEF Open, Agrees
    <3>2. Bindings' /\ Child'
      BY <2>1, <3>1, PreparedKeeps DEF Prepared
    <3>3. ReleaseType' /\ Sealed' /\ Seen'
      BY <2>1, <3>1 DEF ReleaseInv, ReleaseType, Sealed, Seen, Prepared, WithSession, Read, world,
         reading, child
    <3> QED
      BY <3>2, <3>3 DEF ReleaseInv
  <2> QED
    BY <2>2, <2>3
<1>2. CASE Overwrite
  <2>1. /\ stage \in {"PREPARED", "OPEN"} /\ stage' = stage
        /\ \/ archive' = "SWAPPED" /\ session' = session
           \/ session' = [session EXCEPT !.content = "SWAPPED"] /\ archive' = archive
        /\ UNCHANGED <<world, reading, source, collector, child, report, attempts, sent, stood>>
    BY <1>2 DEF Overwrite
  <2>2. Bindings' /\ Child'
    BY <2>1, PreparedKeeps DEF Prepared
  <2>3. ReleaseType' /\ Sealed' /\ Seen'
    BY <2>1 DEF ReleaseInv, ReleaseType, Sealed, Seen, Prepared, WithSession, Read, world,
       reading, child
  <2> QED
    BY <2>2, <2>3 DEF ReleaseInv
<1>3. CASE Send
  <2>1. /\ stage = "SEND" /\ stage' = "OPEN" /\ sent' = Append(sent, session.content)
        /\ UNCHANGED <<world, reading, source, collector, child, report, archive, session,
                       attempts, stood>>
    BY <1>3 DEF Send
  <2>2. sent' = <<"BUILT">>
    BY <2>1 DEF ReleaseInv, Sealed
  <2>3. Bindings' /\ Child'
    BY <2>1, PreparedKeeps DEF Prepared
  <2>4. ReleaseType' /\ Sealed' /\ Seen'
    BY <2>1, <2>2 DEF ReleaseInv, ReleaseType, Sealed, Seen, Prepared, WithSession, Read, world,
       reading, child
  <2> QED
    BY <2>3, <2>4 DEF ReleaseInv
<1>4. ASSUME NEW package, Submit(package)
      PROVE  ReleaseInv'
  <2>1. /\ stage = "OPEN"
        /\ \/ /\ sent = <<>> /\ session.content = "BUILT" /\ stage' = "SUBMIT"
              /\ step' = "CLEAN" /\ unread' = Checkout /\ digests' = NotRead /\ again' = NotRead
           \/ stage' = stage /\ UNCHANGED reading
        /\ stood' = {x \in Checkout : tree[x] = "COMMITTED"}
        /\ UNCHANGED <<world, source, collector, child, report, archive, session, sent>>
    BY <1>4 DEF Submit, Fits, AfterArguments, Begin
  <2>2. Bindings' /\ Child'
    BY <2>1, PreparedKeeps DEF Prepared
  <2>3. NotRead \in Read
    BY DEF NotRead, Read
  <2>4. ReleaseType'
    BY <2>1, <2>3 DEF ReleaseInv, ReleaseType, Prepared, world, reading, child
  <2>5. Sealed' /\ Seen'
    BY <2>1 DEF ReleaseInv, Sealed, Seen, WithSession, world, reading
  <2> QED
    BY <2>2, <2>4, <2>5 DEF ReleaseInv
<1> QED
  BY <1>1, <1>2, <1>3, <1>4

\* Who changes a source after its digest and before the child reads it is noted, and
\* what becomes as committed after submit was called.
LEMMA ChangeKeeps ==
  ASSUME ReleaseInv, Change
  PROVE  ReleaseInv'
<1>1. /\ UNCHANGED <<stage, reading, source, collector, ran, claimed, report, caller>>
      /\ \/ \E x \in Checkout, c \in Content :
              /\ tree' = [tree EXCEPT ![x] = c] /\ fixture' = fixture
              /\ stood' = IF c = "COMMITTED" THEN stood \cup {x} ELSE stood
              /\ disturbed' = disturbed \cup {f \in {x} \cap Source : ran[f] = "UNREAD"}
         \/ fixture' \in Fixture /\ UNCHANGED <<tree, disturbed, stood>>
  BY DEF Change
<1>2. /\ tree' \in [Checkout -> Content] /\ fixture' \in Fixture
      /\ disturbed \subseteq disturbed'
      /\ stood \subseteq stood' /\ stood' \subseteq Checkout
      /\ \A x \in Checkout : tree'[x] = "COMMITTED" => tree[x] = "COMMITTED" \/ x \in stood'
      /\ \A f \in Source : ran[f] = "UNREAD" => tree'[f] = tree[f] \/ f \in disturbed'
  BY <1>1 DEF ReleaseInv, ReleaseType, Seen, Checkout, File
<1>3. ReleaseType' /\ Bindings' /\ Sealed'
  BY <1>1, <1>2 DEF ReleaseInv, ReleaseType, Bindings, Provenance, Sealed, Read, reading, caller
<1>4. Child'
  <2>1. stage = "BEFORE" => \A f \in Source : ran[f] = "UNREAD"
    BY DEF ReleaseInv, Child, ToRun, NotRead
  <2>2. ASSUME NEW f \in Source, NEW taken, Holds(tree[f], taken, f), ran[f] = "UNREAD"
        PROVE  tree'[f] = taken[f] \/ f \in disturbed'
    BY <1>2, <2>2 DEF Holds
  <2>3. ASSUME NEW f \in Source, NEW content, Holds(content, collector, f)
        PROVE  content = collector[f] \/ f \in disturbed'
    BY <1>2, <2>3 DEF Holds
  <2>4. UNCHANGED <<stage, step, unread, digests, collector, ran>>
    BY <1>1 DEF reading
  <2>5. stage = "BEFORE" /\ step # "CLEAN" =>
          \A f \in Source \ unread : Holds(tree[f], digests, f)'
    BY <2>1, <2>2, <2>4 DEF ReleaseInv, Child, Holds
  <2>6. stage = "RUN" => \A f \in Source :
          Holds(IF ran[f] = "UNREAD" THEN tree[f] ELSE ran[f], collector, f)'
    BY <2>2, <2>3, <2>4 DEF ReleaseInv, Child, Holds
  <2>7. stage \in Observed \cup Prepared => \A f \in Source : Holds(ran[f], collector, f)'
    BY <2>3, <2>4 DEF ReleaseInv, Child, Holds
  <2> QED
    BY <2>4, <2>5, <2>6, <2>7 DEF ReleaseInv, Child
<1>5. Seen'
  <2>1. UNCHANGED <<stage, step, unread>>
    BY <1>1 DEF reading
  <2> QED
    BY <1>2, <2>1 DEF ReleaseInv, Seen
<1> QED
  BY <1>3, <1>4, <1>5 DEF ReleaseInv

LEMMA ReleaseStep ==
  ASSUME ReleaseInv, Next
  PROVE  ReleaseInv'
<1>1. CASE /\ stage \in Inventories \cup Snapshots
           /\ \/ \E x \in Checkout : CheckCommitted(x)
              \/ \E f \in Source : ReadDigest(f)
  BY <1>1, CheckKeeps, DigestKeeps
<1>2. CASE EndInventory \/ EndSnapshot
  BY <1>2, EndInventoryKeeps, EndSnapshotKeeps
<1>3. CASE (\E f \in Source : Load(f)) \/ (\E m \in Module : Claim(m)) \/ EndRun
  BY <1>3, RunKeeps
<1>4. CASE Interpret \/ Verified
  BY <1>4, ReportKeeps
<1>5. CASE Open \/ Overwrite \/ Send \/ \E package \in {"BUILT", "SWAPPED"} : Submit(package)
  BY <1>5, ReleaseKeeps
<1>6. CASE Change
  BY <1>6, ChangeKeeps
<1> QED
  BY <1>1, <1>2, <1>3, <1>4, <1>5, <1>6 DEF Next

LEMMA ReleaseStutters ==
  ASSUME ReleaseInv, UNCHANGED vars
  PROVE  ReleaseInv'
<1>1. ReleaseType' /\ Bindings' /\ Sealed' /\ Seen'
  BY DEF vars, ReleaseInv, ReleaseType, Bindings, Provenance, Sealed, Seen, Read, world, reading,
     child, caller
<1>2. Child'
  BY DEF vars, ReleaseInv, Child, Holds, world, reading, child
<1> QED
  BY <1>1, <1>2 DEF ReleaseInv

\* What the invariant says of what goes to the gateway.
LEMMA ReleaseTells ==
  ASSUME ReleaseInv
  PROVE  ReleasedAsObserved /\ FreshWhenSent
<1>1. FreshWhenSent
  BY DEF ReleaseInv, Seen, FreshWhenSent
<1>2. ASSUME sent # <<>>
      PROVE  /\ sent = <<"BUILT">> /\ session.registry = report.registry
             /\ stage \in Prepared
    BY <1>2 DEF ReleaseInv, Sealed, WithSession, Prepared
<1>3. ASSUME stage \in Prepared
      PROVE  /\ \A f \in Source : source[f] = "COMMITTED"
             /\ \A m \in Module : claimed[m] = "COMMITTED"
             /\ \A f \in Source : ran[f] = "COMMITTED" \/ f \in disturbed
  <2>1. source = Committed /\ collector = Committed /\ Provenance
    BY <1>3 DEF ReleaseInv, Bindings, Prepared
  <2>2. \A f \in Source : Holds(ran[f], collector, f)
    BY <1>3 DEF ReleaseInv, Child
  <2> QED
    BY <2>1, <2>2 DEF Committed, Provenance, Holds, Source
<1> QED
  BY <1>1, <1>2, <1>3 DEF ReleasedAsObserved

-----------------------------------------------------------------------------
(* The exchange *)

Exports == {Exchange!ExportOf(v) : v \in Version}
Conditions == {Shown[v] : v \in Version}
Hashes == Version \X Conditions
Bodies == [binding : Version, projection_hash : Hashes, author_id : Author, text : Text]
Macs == [key : Author, over : Bodies]
WireViews == [kind : {"declaration_projection"}, binding : Version, conditions : Conditions,
              hash : Hashes]
WireObjections == [kind : {"projection_objection"}, body : Bodies, mac : Macs]

\* An objection that was written, under the view its author had pinned.
Authored(w) ==
  /\ w \in [body : Bodies, view : Exports]
  /\ w.body.binding = w.view.binding

ExchangeInv ==
  /\ declaration \in Version
  /\ pin \in Exports
  /\ told \in [Author -> Exports]
  /\ seen \in [Author -> Exports \cup {Exchange!NoView}]
  /\ \A a \in Author : seen[a] # Exchange!NoView => seen[a] = told[a]
  /\ wire \subseteq WireViews \cup WireObjections
  /\ \A w \in written : Authored(w)
  /\ \A m \in wire : m.kind = "projection_objection" =>
       \E w \in written : m.mac = Exchange!Mac(w.body.author_id, w.body)
  /\ accepted \subseteq written

LEMMA ExportType ==
  ASSUME NEW v \in Version
  PROVE  /\ Exchange!ExportOf(v) \in Exports /\ Exchange!ExportOf(v) \in WireViews
         /\ Exchange!ExportOf(v).binding = v
         /\ Exchange!ExportOf(v).hash \in Hashes
BY DEF Exports, WireViews, Conditions, Hashes, Exchange!ExportOf, Exchange!View, Exchange!HashOf

\* A view that an owner may pin is known by its binding.
LEMMA ExportsApart ==
  ASSUME NEW x \in Exports, NEW y \in Exports, x.binding = y.binding
  PROVE  x = y
BY ExportType DEF Exports

LEMMA ExchangeInit ==
  ASSUME Exchange!Init
  PROVE  ExchangeInv
BY ExportType DEF Exchange!Init, ExchangeInv, Exports

\* The objection that a reader writes is under the view it has pinned.
LEMMA ObjectKeeps ==
  ASSUME ExchangeInv, NEW a \in Author, NEW text \in Text, Exchange!Object(a, text)
  PROVE  ExchangeInv'
<1> DEFINE view == seen[a]
           body == Exchange!Body(view.binding, view.hash, a, text)
           new  == [body |-> body, view |-> told[a]]
           m    == Exchange!Objection(view, a, text)
<1>1. /\ view = told[a] /\ view \in Exports
      /\ written' = written \cup {new} /\ wire' = wire \cup {m}
      /\ UNCHANGED <<declaration, pin, told, seen, accepted>>
  BY DEF ExchangeInv, Exchange!Object, Exchange!Sends
<1>2. view.binding \in Version /\ view.hash \in Hashes
  BY <1>1, ExportType DEF Exports
<1>3. body \in Bodies /\ body.author_id = a /\ body.binding = view.binding
  BY <1>2 DEF Bodies, Exchange!Body
<1>4. /\ m = [kind |-> "projection_objection", body |-> body, mac |-> Exchange!Mac(a, body)]
      /\ Exchange!Mac(a, body) \in Macs
  BY <1>3 DEF Exchange!Objection, Exchange!Mac, Macs
<1> HIDE DEF body, m
<1>5. Authored(new) /\ new.body = body
  BY <1>1, <1>3 DEF Authored
<1>6. m \in WireObjections /\ m.mac = Exchange!Mac(new.body.author_id, new.body)
  BY <1>3, <1>4, <1>5 DEF WireObjections
<1> HIDE DEF new
<1> QED
  BY <1>1, <1>5, <1>6 DEF ExchangeInv

\* What damage makes of a view is a view, and of an objection one with a MAC that was
\* on the wire.
LEMMA DamageKeeps ==
  ASSUME ExchangeInv, Exchange!Damage
  PROVE  ExchangeInv'
<1>1. PICK n \in Exchange!DamagedViews \cup Exchange!DamagedObjections :
        /\ wire' = wire \cup {n}
        /\ UNCHANGED <<declaration, pin, told, seen, written, accepted>>
  BY DEF Exchange!Damage, Exchange!Sends
<1>2. CASE n \in Exchange!DamagedViews
  <2>1. n \in WireViews
    <3>1. \A m \in Exchange!Views : m \in WireViews
      BY DEF ExchangeInv, Exchange!Views, WireObjections
    <3>2. \A v \in Version : \A c \in Conditions : Exchange!View(v, c) \in WireViews
      BY DEF Exchange!View, Exchange!HashOf, WireViews, Hashes
    <3>3. ASSUME NEW m \in WireViews, NEW v \in Version
          PROVE  /\ [m EXCEPT !.binding = v] \in WireViews
                 /\ [m EXCEPT !.conditions = Shown[v]] \in WireViews
      BY DEF WireViews, Conditions
    <3>4. \/ \E v \in Version : \E c \in Conditions : n = Exchange!View(v, c)
          \/ \E m \in Exchange!Views : \E v \in Version :
               n = [m EXCEPT !.binding = v] \/ n = [m EXCEPT !.conditions = Shown[v]]
      BY <1>2 DEF Exchange!DamagedViews, Conditions
    <3> QED
      BY <3>1, <3>2, <3>3, <3>4
  <2> QED
    BY <1>1, <2>1 DEF ExchangeInv, WireViews
<1>3. CASE n \in Exchange!DamagedObjections
  <2>1. \A m \in Exchange!Objections : m \in WireObjections
    BY DEF ExchangeInv, Exchange!Objections, WireViews
  <2>2. ASSUME NEW m \in WireObjections, NEW b \in Bodies
        PROVE  [m EXCEPT !.body = b] \in WireObjections /\ [m EXCEPT !.body = b].mac = m.mac
    BY DEF WireObjections
  <2>3. ASSUME NEW b \in Bodies
        PROVE  Exchange!DamagedBodies(b) \subseteq Bodies
    <3>1. \A v \in Version : Exchange!HashOf(v, Shown[v]) \in Hashes
      BY DEF Exchange!HashOf, Hashes, Conditions
    <3>2. \A v \in Version, h \in Hashes :
            /\ [b EXCEPT !.binding = v] \in Bodies
            /\ [b EXCEPT !.projection_hash = h] \in Bodies
            /\ [b EXCEPT !.binding = v, !.projection_hash = h] \in Bodies
      BY DEF Bodies
    <3>3. /\ \A a \in Author : [b EXCEPT !.author_id = a] \in Bodies
          /\ \A t \in Text : [b EXCEPT !.text = t] \in Bodies
      BY DEF Bodies
    <3>4. /\ {[b EXCEPT !.binding = v] : v \in Version} \subseteq Bodies
          /\ {[b EXCEPT !.author_id = a] : a \in Author} \subseteq Bodies
          /\ {[b EXCEPT !.text = t] : t \in Text} \subseteq Bodies
      BY <3>1, <3>2, <3>3
    <3>5. {[b EXCEPT !.projection_hash = Exchange!HashOf(v, Shown[v])] : v \in Version}
            \subseteq Bodies
      BY <3>1, <3>2
    <3>6. {[b EXCEPT !.binding = v, !.projection_hash = Exchange!HashOf(v, Shown[v])] : v \in Version}
            \subseteq Bodies
      BY <3>1, <3>2
    <3> QED
      BY <3>4, <3>5, <3>6, Zenon DEF Exchange!DamagedBodies
  <2>4. \E m \in Exchange!Objections : n \in WireObjections /\ n.mac = m.mac
    <3>1. \/ \E m, o \in Exchange!Objections : n = [m EXCEPT !.mac = o.mac]
          \/ \E m \in Exchange!Objections : \E b \in Exchange!DamagedBodies(m.body) :
               n = [m EXCEPT !.body = b]
      BY <1>3 DEF Exchange!DamagedObjections
    <3>2. ASSUME NEW m \in Exchange!Objections, NEW o \in Exchange!Objections,
                 n = [m EXCEPT !.mac = o.mac]
          PROVE  n \in WireObjections /\ n.mac = o.mac
      BY <2>1, <3>2 DEF WireObjections
    <3>3. ASSUME NEW m \in Exchange!Objections, NEW b \in Exchange!DamagedBodies(m.body),
                 n = [m EXCEPT !.body = b]
          PROVE  n \in WireObjections /\ n.mac = m.mac
      <4>1. m \in WireObjections /\ m.body \in Bodies
        BY <2>1 DEF WireObjections
      <4>2. b \in Bodies
        BY <2>3, <4>1
      <4> QED
        BY <2>2, <3>3, <4>1, <4>2
    <3> QED
      BY <3>1, <3>2, <3>3
  <2> QED
    BY <1>1, <2>4 DEF ExchangeInv, Exchange!Objections
<1> QED
  BY <1>1, <1>2, <1>3

\* An attributed objection is one that was written: its MAC says which, and the binding
\* it has in common with the owner's view that the two views are one.
LEMMA AttributeKeeps ==
  ASSUME ExchangeInv, NEW m \in Exchange!Objections, Exchange!Attribute(m)
  PROVE  ExchangeInv'
<1>1. /\ m.body.binding = pin.binding
      /\ m.mac = Exchange!Mac(m.body.author_id, m.body)
      /\ accepted' = accepted \cup {[body |-> m.body, view |-> pin]}
      /\ UNCHANGED <<declaration, pin, told, seen, wire, written>>
  BY DEF Exchange!Attribute, Exchange!Attributable
<1>2. PICK w \in written : m.mac = Exchange!Mac(w.body.author_id, w.body)
  BY DEF ExchangeInv, Exchange!Objections
<1>3. m.body = w.body
  BY <1>1, <1>2 DEF Exchange!Mac
<1>4. w \in [body : Bodies, view : Exports] /\ w.body.binding = w.view.binding
  BY DEF ExchangeInv, Authored
<1>5. w.view = pin
  BY <1>1, <1>3, <1>4, ExportsApart DEF ExchangeInv
<1>6. w = [body |-> m.body, view |-> pin]
  BY <1>3, <1>4, <1>5
<1> QED
  BY <1>1, <1>6 DEF ExchangeInv

LEMMA ExchangeStep ==
  ASSUME ExchangeInv, Exchange!Next
  PROVE  ExchangeInv'
<1>1. CASE Exchange!Edit
  BY <1>1 DEF Exchange!Edit, ExchangeInv
<1>2. CASE Exchange!NewSession
  BY <1>2, ExportType DEF Exchange!NewSession, ExchangeInv
<1>3. CASE Exchange!Export
  <2>1. PICK v \in Version : /\ wire' = wire \cup {Exchange!ExportOf(v)}
                             /\ UNCHANGED <<declaration, pin, told, seen, written, accepted>>
    BY <1>3 DEF Exchange!Export, Exchange!Sends, ExchangeInv
  <2> QED
    BY <2>1, ExportType DEF ExchangeInv, WireViews
<1>4. ASSUME NEW m \in Exchange!Objections, Exchange!Attribute(m)
      PROVE  ExchangeInv'
  BY <1>4, AttributeKeeps
<1>5. ASSUME NEW a \in Author, NEW v \in Version, Exchange!Pin(a, v)
      PROVE  ExchangeInv'
  BY <1>5, ExportType DEF Exchange!Pin, ExchangeInv
<1>6. ASSUME NEW a \in Author, NEW m \in Exchange!Views, Exchange!Read(a, m)
      PROVE  ExchangeInv'
  BY <1>6 DEF Exchange!Read, Exchange!Matches, ExchangeInv
<1>7. ASSUME NEW a \in Author, NEW text \in Text, Exchange!Object(a, text)
      PROVE  ExchangeInv'
  BY <1>7, ObjectKeeps
<1>8. CASE Exchange!Damage
  BY <1>8, DamageKeeps
<1> QED
  BY <1>1, <1>2, <1>3, <1>4, <1>5, <1>6, <1>7, <1>8 DEF Exchange!Next

-----------------------------------------------------------------------------
(* The two sessions *)

SessionsInv == ReleaseInv /\ ExchangeInv

LEMMA SessionsInductive == SessionsSpec => []SessionsInv
<1>1. SessionsInit => SessionsInv
  BY ReleaseInit, ExchangeInit DEF SessionsInit, SessionsInv
<1>2. SessionsInv /\ [SessionsNext]_<<vars, exchange, turn>> => SessionsInv'
  <2> SUFFICES ASSUME SessionsInv, [SessionsNext]_<<vars, exchange, turn>>
               PROVE  SessionsInv'
    OBVIOUS
  <2>1. ASSUME UNCHANGED vars
        PROVE  ReleaseInv'
    BY <2>1, ReleaseStutters DEF SessionsInv
  <2>2. ASSUME UNCHANGED exchange
        PROVE  ExchangeInv'
    BY <2>2 DEF exchange, SessionsInv, ExchangeInv
  <2> QED
    BY <2>1, <2>2, ReleaseStep, ExchangeStep DEF SessionsNext, SessionsInv
<1> QED
  BY <1>1, <1>2, PTL DEF SessionsSpec

\* What goes to the gateway is the package that was prepared, once, from committed
\* sources, with an observation that reported the committed digests of its modules and
\* was made of committed sources, but for files that others changed after their last
\* digest before the run.
THEOREM Releases == SessionsSpec => []ReleasedAsObserved
<1>1. SessionsInv => ReleasedAsObserved
  BY ReleaseTells DEF SessionsInv
<1> QED
  BY <1>1, SessionsInductive, PTL

\* A checkout that left the commit before submit was called and did not come back is
\* not released.
THEOREM Freshness == SessionsSpec => []FreshWhenSent
<1>1. SessionsInv => FreshWhenSent
  BY ReleaseTells DEF SessionsInv
<1> QED
  BY <1>1, SessionsInductive, PTL

\* An objection that the owner attributes was written, word for word, by the author it
\* names, who then expected the very view that the owner sealed.
THEOREM Attribution == SessionsSpec => []AttributedIsSaid
<1>1. SessionsInv => AttributedIsSaid
  BY DEF SessionsInv, ExchangeInv, AttributedIsSaid, Exchange!AttributedIsSaid
<1> QED
  BY <1>1, SessionsInductive, PTL
=============================================================================
