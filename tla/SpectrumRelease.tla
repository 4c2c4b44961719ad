-------------------------- MODULE SpectrumRelease --------------------------
(***************************************************************************)
(* One release of the Spectrum sources (PreparedRelease of                 *)
(* examples/spectrum_release) with the observation it rests on             *)
(* (ObservationSession of examples/spectrum_observation).                  *)
(*                                                                         *)
(* The sources are a checkout that no lock protects: others may change a   *)
(* file, or the commit that is checked out, and put it back, between any   *)
(* two reads.  The package is made of the blobs of the pinned commit; the  *)
(* observation runs what is on the disk.                                   *)
(***************************************************************************)
EXTENDS Naturals, FiniteSets, Sequences

CONSTANTS
  Module,      \* the sources that the runner imports and reports the digests of
  Runner,      \* the source that the observation executes
  Other,       \* the other files of the package
  Commit,      \* what is checked out, in the root and in the two layers
  MaxChanges,  \* bound: changes of the checkout and of the fixture
  MaxCalls     \* bound: calls of submit

Source == Module \cup {Runner}
File == Source \cup Other
Checkout == File \cup {Commit}

\* What a file holds: the committed bytes, or others; and what is checked out.
Content == {"COMMITTED", "OTHER"}

Fixture == {"FIRST", "SECOND"}

ASSUME SourceAssumption ==
  /\ Runner \notin Module /\ Source \cap Other = {} /\ Commit \notin File
  /\ MaxChanges \in Nat /\ MaxCalls \in Nat

VARIABLES
  tree,      \* the checkout
  fixture,   \* reference-connection.json of the package
  changes,
  stage,     \* where the program is
  step,      \* where it is in reading the sources
  unread,    \* what is still to be read in this step
  digests,   \* the digests of a snapshot, as far as they are taken
  again,     \* those of the second snapshot of an inventory
  source,    \* the snapshot that the release holds
  collector, \* the snapshot that the collector holds
  ran,       \* the sources as the observation's child read them
  claimed,   \* the digests of the modules that it reported
  disturbed, \* sources changed after their last digest before the run, before the child read them
  report,    \* the observation's registry and status
  archive,   \* the package, an attribute of the release
  session,   \* the document session: its registry and the content of its operation
  attempts,  \* calls of submit
  sent,      \* contents given to the gateway, in order
  stood      \* what was as committed since submit was called

world == <<tree, fixture, changes>>
reading == <<step, unread, digests, again>>
child == <<ran, claimed, disturbed>>
caller == <<archive, session, attempts, sent>>
vars == <<world, stage, reading, source, collector, child, report, caller, stood>>

NotRead == [f \in Source |-> "UNREAD"]
NoReport == [registry |-> "NONE", status |-> "NONE"]
NoSession == [registry |-> "NONE", content |-> "NONE"]

\* Stages that read every source file, and stages that take one snapshot.
Inventories == {"PREPARE", "RECHECK", "SUBMIT"}
Snapshots == {"ASSOCIATE", "BEFORE", "AFTER", "RECEIVE"}

-----------------------------------------------------------------------------
(* Reading the sources, one after the other and in any order *)

\* A snapshot checks the commits and that the checkout is clean, and takes the digests.
\* An inventory takes one, holds each file against its blob, and takes another.
After(s) ==
  CASE s = "CLEAN" -> "DIGEST"
    [] s = "DIGEST" -> IF stage \in Inventories THEN "COMPARE" ELSE "TAKEN"
    [] s = "COMPARE" -> "CLEAN_AGAIN"
    [] s = "CLEAN_AGAIN" -> "DIGEST_AGAIN"
    [] OTHER -> "TAKEN"

ToRead(s) ==
  CASE s \in {"CLEAN", "CLEAN_AGAIN"} -> Checkout
    [] s \in {"DIGEST", "DIGEST_AGAIN"} -> Source
    [] s = "COMPARE" -> File
    [] OTHER -> {}

Begin == step' = "CLEAN" /\ unread' = Checkout /\ digests' = NotRead /\ again' = NotRead

Done(x) ==
  /\ step' = IF unread = {x} THEN After(step) ELSE step
  /\ unread' = IF unread = {x} THEN ToRead(step') ELSE unread \ {x}

Refuse ==
  /\ stage' = "REFUSED"
  /\ UNCHANGED <<world, reading, source, collector, child, report, caller, stood>>

\* A refusal of submit leaves the release open for another call.
RefuseCall ==
  /\ stage' = "OPEN"
  /\ UNCHANGED <<world, reading, source, collector, child, report, caller, stood>>

Fails == IF stage = "SUBMIT" THEN RefuseCall ELSE Refuse

\* git rev-parse and git status, or the blob of a file: anything else is refused.
CheckCommitted(x) ==
  /\ step \in {"CLEAN", "COMPARE", "CLEAN_AGAIN"} /\ x \in unread
  /\ IF tree[x] = "COMMITTED"
     THEN /\ Done(x)
          /\ UNCHANGED <<world, stage, digests, again, source, collector, child, report,
                         caller, stood>>
     ELSE Fails

ReadDigest(f) ==
  /\ step \in {"DIGEST", "DIGEST_AGAIN"} /\ f \in unread
  /\ Done(f)
  /\ digests' = IF step = "DIGEST" THEN [digests EXCEPT ![f] = tree[f]] ELSE digests
  /\ again' = IF step = "DIGEST" THEN again ELSE [again EXCEPT ![f] = tree[f]]
  /\ disturbed' = IF stage = "BEFORE" THEN disturbed \ {f} ELSE disturbed
  /\ UNCHANGED <<world, stage, source, collector, ran, claimed, report, caller, stood>>

Bound(taken) == \A f \in Source : taken[f] = "COMMITTED"

\* What is required of an inventory: the constructor keeps it, check_sources holds it
\* against what was kept.  The engine that the observation is associated with is made
\* right after the first inventory, the package right after the second.
EndInventory ==
  /\ stage \in Inventories /\ step = "TAKEN"
  /\ IF /\ again = digests
        /\ Bound(digests)
        /\ stage = "PREPARE" \/ digests = source
     THEN /\ stage' = CASE stage = "PREPARE" -> "ASSOCIATE"
                        [] stage = "RECHECK" -> "PREPARED"
                        [] stage = "SUBMIT" -> "SEND"
          /\ source' = digests
          /\ report' = IF stage = "PREPARE" THEN [report EXCEPT !.registry = fixture] ELSE report
          /\ archive' = IF stage = "RECHECK" THEN "BUILT" ELSE archive
          /\ Begin
          /\ UNCHANGED <<world, collector, child, session, attempts, sent, stood>>
     ELSE Fails

-----------------------------------------------------------------------------
(* The observation *)

\* Mutation: the sources are looked at around the run and not compared.
SourcesIgnored == TRUE

SameSources == digests = collector

\* The collector takes its snapshot, and takes it again around the run and before
\* the report is received; the registry it compares too is the release's own.
EndSnapshot ==
  /\ stage \in Snapshots /\ step = "TAKEN"
  /\ IF stage = "ASSOCIATE" \/ SameSources
     THEN /\ stage' = CASE stage = "ASSOCIATE" -> "BEFORE"
                        [] stage = "BEFORE" -> "RUN"
                        [] stage = "AFTER" -> "INTERPRET"
                        [] stage = "RECEIVE" -> "RECEIVED"
          /\ collector' = IF stage = "ASSOCIATE" THEN digests ELSE collector
          /\ Begin
          /\ UNCHANGED <<world, source, child, report, caller, stood>>
     ELSE Refuse

\* execute: the child reads the runner, and the runner its modules.
Load(f) ==
  /\ stage = "RUN" /\ ran[f] = "UNREAD"
  /\ f = Runner \/ ran[Runner] # "UNREAD"
  /\ ran' = [ran EXCEPT ![f] = tree[f]]
  /\ UNCHANGED <<world, stage, reading, source, collector, claimed, disturbed, report,
                 caller, stood>>

\* The runner reads a module for the digest it reports; another runner says anything.
Claim(m) ==
  /\ stage = "RUN" /\ ran[Runner] # "UNREAD" /\ claimed[m] = "UNREAD"
  /\ \E c \in Content :
       /\ ran[Runner] = "COMMITTED" => c = tree[m]
       /\ claimed' = [claimed EXCEPT ![m] = c]
  /\ UNCHANGED <<world, stage, reading, source, collector, ran, disturbed, report,
                 caller, stood>>

EndRun ==
  /\ stage = "RUN"
  /\ \A f \in Source : ran[f] # "UNREAD"
  /\ \A m \in Module : claimed[m] # "UNREAD"
  /\ stage' = "AFTER"
  /\ UNCHANGED <<world, reading, source, collector, child, report, caller, stood>>

\* The digests reported are those of the snapshot.  There is none of the runner.
Provenance == \A m \in Module : claimed[m] = collector[m]

Interpret ==
  /\ stage = "INTERPRET"
  /\ \/ /\ Provenance
        /\ report' = [report EXCEPT !.status = "VERIFIED"]
        /\ stage' = "RECEIVE"
        /\ UNCHANGED <<world, reading, source, collector, child, caller, stood>>
     \/ Refuse  \* provenance, a failed row, a run that did not end

Verified ==
  /\ stage = "RECEIVED"
  /\ IF report.status = "VERIFIED" /\ collector = source
     THEN /\ stage' = "RECHECK"
          /\ UNCHANGED <<world, reading, source, collector, child, report, caller, stood>>
     ELSE Refuse

-----------------------------------------------------------------------------
(* The release *)

Agrees(registry) == registry = report.registry

\* open: the session reads the fixture anew and makes its operation of the archive.
Open ==
  /\ stage = "PREPARED"
  /\ archive = "BUILT"
  /\ IF Agrees(fixture)
     THEN /\ session' = [registry |-> fixture, content |-> archive]
          /\ stage' = "OPEN"
          /\ UNCHANGED <<world, reading, source, collector, child, report, archive,
                         attempts, sent, stood>>
     ELSE Refuse

\* The caller, who holds the release and its session, overwrites their attributes.
Overwrite ==
  /\ stage \in {"PREPARED", "OPEN"}
  /\ \/ archive' = "SWAPPED" /\ UNCHANGED session
     \/ stage = "OPEN" /\ session' = [session EXCEPT !.content = "SWAPPED"] /\ UNCHANGED archive
  /\ UNCHANGED <<world, stage, reading, source, collector, child, report, attempts, sent, stood>>

\* Mutation: submit trusts the inventory made when the release was prepared.
UncheckedSubmit == "SEND"

AfterArguments == "SUBMIT"

\* The package, the operation and the operation's payload are what was prepared.
Fits(package) == package = "BUILT" /\ session.content = "BUILT"

\* submit, up to its look at the sources.
Submit(package) ==
  /\ stage = "OPEN"
  /\ attempts < MaxCalls
  /\ attempts' = attempts + 1
  /\ stood' = {x \in Checkout : tree[x] = "COMMITTED"}
  /\ IF sent = <<>> /\ Fits(package)
     THEN stage' = AfterArguments /\ Begin
     ELSE UNCHANGED <<stage, reading>>
  /\ UNCHANGED <<world, source, collector, child, report, archive, session, sent>>

\* The attempt is noted before the gateway is asked: whatever it answers, there is
\* no other one.
Send ==
  /\ stage = "SEND"
  /\ sent' = Append(sent, session.content)
  /\ stage' = "OPEN"
  /\ UNCHANGED <<world, reading, source, collector, child, report, archive, session,
                 attempts, stood>>

-----------------------------------------------------------------------------
(* Others, at any moment *)

Change ==
  /\ changes < MaxChanges
  /\ changes' = changes + 1
  /\ \/ \E x \in Checkout : \E c \in Content \ {tree[x]} :
          /\ tree' = [tree EXCEPT ![x] = c]
          /\ stood' = IF c = "COMMITTED" THEN stood \cup {x} ELSE stood
          /\ disturbed' = disturbed \cup {f \in {x} \cap Source : ran[f] = "UNREAD"}
          /\ UNCHANGED fixture
     \/ /\ fixture' \in Fixture \ {fixture}
        /\ UNCHANGED <<tree, disturbed, stood>>
  /\ UNCHANGED <<stage, reading, source, collector, ran, claimed, report, caller>>

Init ==
  /\ tree = [x \in Checkout |-> "COMMITTED"] /\ fixture = "FIRST" /\ changes = 0
  /\ stage = "PREPARE"
  /\ step = "CLEAN" /\ unread = Checkout /\ digests = NotRead /\ again = NotRead
  /\ source = NotRead /\ collector = NotRead
  /\ ran = NotRead /\ claimed = [m \in Module |-> "UNREAD"] /\ disturbed = {}
  /\ report = NoReport
  /\ archive = "NONE" /\ session = NoSession
  /\ attempts = 0 /\ sent = <<>> /\ stood = {}

Next ==
  \/ /\ stage \in Inventories \cup Snapshots
     /\ \/ \E x \in Checkout : CheckCommitted(x)
        \/ \E f \in Source : ReadDigest(f)
  \/ EndInventory
  \/ EndSnapshot
  \/ \E f \in Source : Load(f)
  \/ \E m \in Module : Claim(m)
  \/ EndRun
  \/ Interpret
  \/ Verified
  \/ Open
  \/ Overwrite
  \/ \E package \in {"BUILT", "SWAPPED"} : Submit(package)
  \/ Send
  \/ Change

Spec == Init /\ [][Next]_vars

-----------------------------------------------------------------------------
(* Properties *)

\* What goes to the gateway is the package that was prepared, once, from sources whose
\* digests were the committed ones, under the declaration that the session releases
\* under.  The observation it carries reported the committed digests of its modules, and
\* was made of committed sources but for this: a file that others change after its last
\* digest before the run may be what ran, if it is back in time.  The documentation says
\* so of the runner and of the modules, and asks for a checkout that is left alone.
ReleasedAsObserved ==
  sent # <<>> =>
    /\ sent = <<"BUILT">>
    /\ session.registry = report.registry
    /\ \A f \in Source : source[f] = "COMMITTED"
    /\ \A m \in Module : claimed[m] = "COMMITTED"
    /\ \A f \in Source : ran[f] = "COMMITTED" \/ f \in disturbed

\* A checkout, file or commit, that left what was pinned before submit was called and
\* did not come back is not released.
FreshWhenSent == stage = "SEND" => stood = Checkout
=============================================================================
