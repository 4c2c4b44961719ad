------------------------ MODULE DocumentReleaseProofs ------------------------
(***************************************************************************)
(* The document gateway keeps the promise of a governed append, for any    *)
(* documents, heads, crashes and late requests, by one inductive invariant:*)
(* a row that says nothing was sent is so, what was charged was released   *)
(* and is on its row, and each place of a call implies what its next write *)
(* will say.                                                               *)
(***************************************************************************)
EXTENDS DocumentRelease, FiniteSetTheorems, TLAPS

-----------------------------------------------------------------------------
(* The inductive invariant *)

Lives == {"NONE", "LIVE", "SPENT", "DEAD"}

Typed ==
  /\ life \in [Intent -> Lives]
  /\ row \in [Intent -> States \cup {None}]
  /\ job \in Jobs /\ (At("idle") <=> job.op = None)
  /\ released \in Seq(Intent)
  /\ overdue \subseteq Intent /\ wire \subseteq Intent
  /\ crashes \in 0 .. MaxCrashes

\* The live permits never promise more than is left, so what is left stays a number.
Covered == left \in Nat /\ SumOver(Live, Cost) <= left

Unknown == {"PREPARED", "CALLING", "AMBIGUOUS"}

\* What a row tells of target and engine; before CALLING nothing was ever sent.
Tells(o) ==
  /\ row[o] \in {None, "PREPARED", "NOT_EXECUTED"} => o \notin Effects \cup wire
  /\ row[o] \in {"TARGET_COMMITTED", "COMMITTED"} => o \in Effects
  /\ row[o] = "COMMITTED" => life[o] = "SPENT"
  /\ life[o] = "SPENT" => row[o] \in {"TARGET_COMMITTED", "COMMITTED"}

\* Where a call stands tells what its row says and what it may write.
Aligned ==
  /\ At("evaluate") \/ At("prepare") => row[job.op] = None
  /\ At("claim") => row[job.op] \in Unknown
  /\ At("call") \/ At("record") => row[job.op] = "CALLING"
  /\ At("record") =>
       /\ job.to \in {"TARGET_COMMITTED", "RECONCILIATION_REQUIRED", "AMBIGUOUS"}
       /\ job.to = "TARGET_COMMITTED" => job.op \in Effects
  /\ At("finalize") => row[job.op] = "TARGET_COMMITTED"
  /\ At("settle") =>
       \/ job.to = "NOT_EXECUTED" /\ row[job.op] = "PREPARED"
       \/ /\ job.to = "RECONCILIATION_REQUIRED" /\ life[job.op] # "SPENT"
          /\ row[job.op] \in {"CALLING", "AMBIGUOUS", "TARGET_COMMITTED"}
       \/ /\ job.to = "COMMITTED" /\ life[job.op] = "SPENT"
          /\ row[job.op] = "TARGET_COMMITTED"

IInv ==
  /\ Typed
  /\ Covered
  /\ ReleasedInPlace
  /\ \A o \in Intent : Tells(o)
  /\ Aligned

-----------------------------------------------------------------------------
(* The budget of the engine *)

\* The units of one document.
Bag(o) == {o} \X (1 .. Cost[o])

LEMMA BagIs ==
  ASSUME NEW o \in Intent
  PROVE  IsFiniteSet(Bag(o)) /\ Cardinality(Bag(o)) = Cost[o] /\ Cost[o] \in Nat
<1>1. Cost[o] \in Nat
  BY ReleaseAssumption
<1>2. IsFiniteSet({o}) /\ Cardinality({o}) = 1
  BY FS_Singleton
<1>3. IsFiniteSet(1 .. Cost[o]) /\ Cardinality(1 .. Cost[o]) = Cost[o]
  BY <1>1, FS_Interval
<1>4. IsFiniteSet(Bag(o)) /\ Cardinality(Bag(o)) = 1 * Cost[o]
  BY <1>2, <1>3, FS_Product DEF Bag
<1> QED
  BY <1>1, <1>4

LEMMA LiveFinite ==
  ASSUME NEW S \in SUBSET Intent
  PROVE  IsFiniteSet(Units(S, Cost)) /\ SumOver(S, Cost) \in Nat
<1> DEFINE bags == {Bag(o) : o \in S}
           f == [o \in S |-> Bag(o)]
<1>1. IsFiniteSet(S)
  BY ReleaseAssumption, FS_Subset
<1>2. f \in Surjection(S, bags)
  BY DEF Surjection
<1>3. IsFiniteSet(bags)
  BY <1>1, <1>2, FS_Surjection
<1>4. IsFiniteSet(UNION bags)
  BY <1>3, BagIs, FS_UNION
<1>5. Units(S, Cost) = UNION bags
  BY DEF Units, Bag
<1> QED
  BY <1>4, <1>5, FS_CardinalityType DEF SumOver

\* One more document adds its cost.
LEMMA LiveAdd ==
  ASSUME NEW S \in SUBSET Intent, NEW o \in Intent, o \notin S
  PROVE  SumOver(S \cup {o}, Cost) = SumOver(S, Cost) + Cost[o]
<1>1. Units(S \cup {o}, Cost) = Units(S, Cost) \cup Bag(o)
  BY DEF Units, Bag
<1>2. Units(S, Cost) \cap Bag(o) = {}
  BY DEF Units, Bag
<1>3. IsFiniteSet(Units(S, Cost)) /\ Cardinality(Units(S, Cost)) \in Nat
  BY LiveFinite DEF SumOver
<1>4. Cardinality(Units(S, Cost) \cap Bag(o)) = 0
  BY <1>2, FS_EmptySet
<1>5. IsFiniteSet(Bag(o)) /\ Cardinality(Bag(o)) = Cost[o] /\ Cost[o] \in Nat
  BY BagIs
<1>6. Cardinality(Units(S, Cost) \cup Bag(o))
        = Cardinality(Units(S, Cost)) + Cardinality(Bag(o))
            - Cardinality(Units(S, Cost) \cap Bag(o))
  BY <1>3, <1>5, FS_Union
<1>7. Cardinality(Units(S, Cost) \cup Bag(o)) = Cardinality(Units(S, Cost)) + Cost[o]
  BY <1>3, <1>4, <1>5, <1>6
<1> QED
  BY <1>1, <1>7 DEF SumOver

LEMMA PromiseCovers ==
  ASSUME Typed, Covered, NEW o \in Intent, Promise(o, {})
  PROVE  Covered'
<1>1. Live' = Live \cup {o} /\ o \notin Live
  BY DEF Live, Promise, Ended, Typed
<1>2. SumOver(Live \cup {o}, Cost) = SumOver(Live, Cost) + Cost[o]
  <2>1. Live \in SUBSET Intent
    BY DEF Live
  <2> QED
    BY <1>1, <2>1, LiveAdd
<1>3. SumOver(Live, Cost) + Cost[o] <= left /\ left' = left
  <2>1. Live \ {} = Live
    OBVIOUS
  <2> QED
    BY <2>1 DEF Promise
<1> QED
  BY <1>1, <1>2, <1>3 DEF Covered

LEMMA SpendCovers ==
  ASSUME Typed, Covered, NEW o \in Intent, Spend(o)
  PROVE  Covered'
<1>1. Live' = Live \ {o} /\ o \in Live /\ Live \in SUBSET Intent
  BY DEF Live, Spend, Typed
<1>2. SumOver((Live \ {o}) \cup {o}, Cost) = SumOver(Live \ {o}, Cost) + Cost[o]
  <2>1. Live \ {o} \in SUBSET Intent
    BY <1>1
  <2> QED
    BY <2>1, LiveAdd
<1>3. (Live \ {o}) \cup {o} = Live
  BY <1>1
<1>4. SumOver(Live \ {o}, Cost) \in Nat /\ Cost[o] \in Nat
  <2>1. Live \ {o} \in SUBSET Intent
    BY <1>1
  <2> QED
    BY <2>1, LiveFinite, ReleaseAssumption
<1>5. left' = left - Cost[o] /\ left \in Nat /\ SumOver(Live, Cost) <= left
  BY DEF Spend, Covered
<1>6. SumOver(Live, Cost) = SumOver(Live \ {o}, Cost) + Cost[o]
  BY <1>2, <1>3
<1>7. left' \in Nat /\ SumOver(Live \ {o}, Cost) <= left'
  BY <1>4, <1>5, <1>6
<1> QED
  BY <1>1, <1>7 DEF Covered

LEMMA EndCovers ==
  ASSUME Typed, Covered, NEW o \in Intent, End({o})
  PROVE  Covered'
<1>1. Live' \subseteq Live /\ Live \in SUBSET Intent /\ Live' \in SUBSET Intent
  BY DEF Live, End, Ended, Typed
<1>2. SumOver(Live', Cost) <= SumOver(Live, Cost)
  <2>1. Units(Live', Cost) \in SUBSET Units(Live, Cost)
    BY <1>1 DEF Units
  <2> QED
    BY <1>1, <2>1, LiveFinite, FS_Subset DEF SumOver
<1>3. SumOver(Live', Cost) \in Nat /\ SumOver(Live, Cost) \in Nat
  BY <1>1, LiveFinite
<1> QED
  BY <1>2, <1>3 DEF Covered, End

LEMMA SameCovers ==
  ASSUME Covered, UNCHANGED bookVars
  PROVE  Covered'
BY DEF Covered, Live, bookVars

-----------------------------------------------------------------------------
(* The target *)

LEMMA EffectsOfAppend ==
  ASSUME Typed, NEW o \in Intent, released' = Append(released, o)
  PROVE  Effects' = Effects \cup {o} /\ released' \in Seq(Intent)
<1>1. /\ Len(released') = Len(released) + 1 /\ Len(released) \in Nat
      /\ DOMAIN released = 1 .. Len(released) /\ DOMAIN released' = 1 .. Len(released')
      /\ released'[Len(released) + 1] = o
      /\ \A n \in 1 .. Len(released) : released'[n] = released[n]
      /\ released' \in Seq(Intent)
  BY DEF Typed
<1> QED
  BY <1>1 DEF Effects

\* A handled request releases the document in its place, or changes nothing.
LEMMA AppendKinds ==
  ASSUME Typed, ReleasedInPlace, NEW o \in Intent, Appends(o)
  PROVE  /\ Effects' = Effects \cup {o} /\ released' \in Seq(Intent)
         /\ ReleasedInPlace'
<1>1. CASE o \in Effects
  <2>1. released' = released
    BY <1>1 DEF Appends, Releases
  <2> QED
    BY <1>1, <2>1 DEF Effects, ReleasedInPlace, Typed
<1>2. CASE o \notin Effects
  <2>1. released' = Append(released, o) /\ Expect[o] = Len(released)
    BY <1>2 DEF Appends, Releases, Admits
  <2>2. /\ Len(released) \in Nat
        /\ DOMAIN released = 1 .. Len(released)
        /\ DOMAIN released' = 1 .. (Len(released) + 1)
        /\ released'[Len(released) + 1] = o
        /\ \A n \in 1 .. Len(released) : released'[n] = released[n]
    BY <2>1 DEF Typed
  <2>3. ASSUME NEW n \in DOMAIN released' PROVE Expect[released'[n]] = n - 1
    <3>1. CASE n = Len(released) + 1
      BY <2>1, <2>2, <3>1
    <3>2. CASE n \in 1 .. Len(released)
      BY <2>2, <3>2 DEF ReleasedInPlace
    <3> QED
      BY <2>2, <2>3, <3>1, <3>2
  <2> QED
    BY <2>1, <2>3, EffectsOfAppend DEF ReleasedInPlace
<1> QED
  BY <1>1, <1>2

LEMMA SameTarget ==
  ASSUME released' = released
  PROVE  Effects' = Effects /\ (ReleasedInPlace => ReleasedInPlace')
BY DEF Effects, ReleasedInPlace

-----------------------------------------------------------------------------
(* The invariant is inductive *)

LEMMA InitInvariant == Init => IInv
<1> SUFFICES ASSUME Init PROVE IInv
  OBVIOUS
<1>1. Typed
  BY ReleaseAssumption DEF Init, BookInit, Typed, Lives, States, Jobs, NoJob, Places, At
<1>2. Covered
  <2>1. Live = {}
    BY DEF Init, BookInit, Live
  <2> QED
    <3>1. SumOver({}, Cost) = 0
      BY FS_EmptySet DEF SumOver, Units
    <3> QED
      BY <2>1, <3>1, ReleaseAssumption DEF Init, BookInit, Covered
<1>3. Effects = {} /\ ReleasedInPlace
  BY DEF Init, Effects, ReleasedInPlace
<1>4. \A o \in Intent : Tells(o)
  BY <1>3 DEF Init, BookInit, Tells, None
<1>5. Aligned
  BY DEF Init, NoJob, Aligned, At
<1> QED
  BY <1>1, <1>2, <1>3, <1>4, <1>5 DEF IInv

\* A call that moves on, or ends, without touching a store.
Moves == UNCHANGED <<life, left, row, outside, crashes>>

LEMMA MovesKeep ==
  ASSUME IInv, UNCHANGED <<life, left, row, outside>>
  PROVE  /\ Covered' /\ ReleasedInPlace' /\ Effects' = Effects
         /\ \A o \in Intent : Tells(o)'
<1>1. Covered' /\ ReleasedInPlace' /\ Effects' = Effects
  BY SameCovers, SameTarget DEF IInv, bookVars, outside
<1> QED
  BY <1>1 DEF IInv, Tells, outside

LEMMA TypedStep ==
  ASSUME IInv, [Next]_vars
  PROVE  Typed'
<1> USE DEF States, Final, Jobs, Places, NoJob, At, None
<1>1. ASSUME NEW o \in Intent, Submit(o) \/ Recover(o) PROVE Typed'
  <2>1. CASE Submit(o)
    BY <2>1, ReleaseAssumption DEF Submit, outside, IInv, Typed
  <2>2. CASE Recover(o)
    BY <2>2, ReleaseAssumption DEF Recover, outside, IInv, Typed
  <2> QED
    BY <1>1, <2>1, <2>2
<1>2. CASE Evaluate
  <2>1. life' \in [Intent -> Lives]
    BY <1>2 DEF Evaluate, Promise, Ended, bookVars, IInv, Typed, Lives
  <2> QED
    BY <1>2, <2>1 DEF Evaluate, Goes, outside, IInv, Typed
<1>3. CASE NotAdmissible \/ Ends
  BY <1>3 DEF NotAdmissible, Ends, Returns, outside, IInv, Typed
<1>4. CASE Prepare \/ Claim
  BY <1>4 DEF Prepare, Claim, Claimed, Save, Goes, outside, IInv, Typed
<1>5. CASE Check \/ Resume
  <2>1. job.op \in Intent /\ row[job.op] \in States
    BY <1>5 DEF Check, Resume, IInv, Typed
  <2>2. Abandoned(row[job.op]) \in States
    BY DEF Abandoned
  <2>3. job' \in Jobs /\ job'.op = job.op /\ job'.pc # "idle"
    <3>1. ASSUME NEW place \in Places \ {"idle"}, Goes(place) PROVE job' \in Jobs /\ job'.op = job.op /\ job'.pc # "idle"
      BY <2>1, <3>1 DEF Goes, IInv, Typed
    <3>2. ASSUME NEW s \in States, Writes("settle", s) PROVE job' \in Jobs /\ job'.op = job.op /\ job'.pc # "idle"
      BY <2>1, <3>2 DEF Writes, IInv, Typed
    <3> QED
      BY <1>5, <2>1, <2>2, <3>1, <3>2 DEF Check, Resume
  <2> QED
    BY <1>5, <2>1, <2>3 DEF Check, Resume, outside, IInv, Typed
<1>6. CASE CallAnswered
  <2>1. job.op \in Intent
    BY <1>6 DEF CallAnswered, IInv, Typed
  <2>2. released' \in Seq(Intent)
    BY <1>6, <2>1, AppendKinds DEF CallAnswered, IInv
  <2> QED
    BY <1>6, <2>2 DEF CallAnswered, Writes, IInv, Typed
<1>7. CASE CallRefused \/ CallFails
  BY <1>7 DEF CallRefused, CallFails, Refuses, Writes, IInv, Typed
<1>8. CASE Record
  <2>1. job.op \in Intent /\ job.to \in States
    BY <1>8 DEF Record, IInv, Typed, Aligned
  <2>2. row' \in [Intent -> States \cup {None}]
    BY <1>8, <2>1 DEF Record, Save, IInv, Typed
  <2>3. job' \in Jobs /\ (job'.pc = "idle" <=> job'.op = None)
    <3>1. CASE Writes("finalize", None)
      BY <2>1, <3>1, ReleaseAssumption DEF Writes, IInv, Typed
    <3>2. CASE Returns
      BY <3>2 DEF Returns
    <3> QED
      BY <1>8, <3>1, <3>2 DEF Record
  <2> QED
    BY <1>8, <2>2, <2>3 DEF Record, outside, IInv, Typed
<1>9. CASE Commit
  BY <1>9 DEF Commit, Spend, bookVars, Writes, outside, IInv, Typed, Lives
<1>10. CASE Refused
  BY <1>10 DEF Refused, Unfinalized, Writes, outside, IInv, Typed
<1>11. CASE Settle
  BY <1>11 DEF Settle, Save, Returns, outside, IInv, Typed, Aligned
<1>12. CASE Crash
  BY <1>12, ReleaseAssumption DEF Crash, Returns, IInv, Typed
<1>13. ASSUME NEW o \in Intent, PermitEnds(o) PROVE Typed'
  BY <1>13 DEF PermitEnds, End, Ended, outside, IInv, Typed, Lives
<1>14. ASSUME NEW o \in Intent, ArrivesLate(o) PROVE Typed'
  <2>1. released' \in Seq(Intent)
    BY <1>14, AppendKinds DEF ArrivesLate, Refuses, IInv, Typed
  <2> QED
    BY <1>14, <2>1 DEF ArrivesLate, IInv, Typed
<1>15. ASSUME NEW o \in Intent, Overdue(o) PROVE Typed'
  BY <1>15 DEF Overdue, IInv, Typed
<1>16. CASE UNCHANGED vars
  BY <1>16 DEF vars, outside, IInv, Typed
<1> QED
  BY <1>1, <1>2, <1>3, <1>4, <1>5, <1>6, <1>7, <1>8, <1>9, <1>10, <1>11, <1>12, <1>13, <1>14,
     <1>15, <1>16 DEF Next, Steps

LEMMA CoveredStep ==
  ASSUME IInv, [Next]_vars
  PROVE  Covered'
<1>1. CASE UNCHANGED bookVars
  BY <1>1, SameCovers DEF IInv
<1>2. CASE Evaluate
  <2>1. job.op \in Intent
    BY <1>2 DEF Evaluate, IInv, Typed, Jobs, At, None
  <2> QED
    BY <1>1, <1>2, <2>1, PromiseCovers DEF Evaluate, IInv
<1>3. CASE Commit
  <2>1. job.op \in Intent
    BY <1>3 DEF Commit, IInv, Typed, Jobs, At, None
  <2> QED
    BY <1>1, <1>3, <2>1, SpendCovers DEF Commit, IInv
<1>4. ASSUME NEW o \in Intent, PermitEnds(o) PROVE Covered'
  BY <1>4, EndCovers DEF PermitEnds, IInv
<1> QED
  BY <1>1, <1>2, <1>3, <1>4
  DEF Next, Steps, vars, bookVars, Submit, Recover, NotAdmissible, Prepare, Ends, Check, Claim,
      CallAnswered, CallRefused, CallFails, Record, Resume, Refused, Settle, Crash, ArrivesLate,
      Overdue

LEMMA PlaceStep ==
  ASSUME IInv, [Next]_vars
  PROVE  ReleasedInPlace'
<1>1. CASE released' = released
  BY <1>1, SameTarget DEF IInv
<1>2. CASE CallAnswered
  <2>1. job.op \in Intent
    BY <1>2 DEF CallAnswered, IInv, Typed, Jobs, At, None
  <2> QED
    BY <1>2, <2>1, AppendKinds DEF CallAnswered, IInv
<1>3. ASSUME NEW o \in Intent, ArrivesLate(o) PROVE ReleasedInPlace'
  BY <1>1, <1>3, AppendKinds DEF ArrivesLate, Refuses, IInv
<1> QED
  BY <1>1, <1>2, <1>3
  DEF Next, Steps, vars, outside, Submit, Recover, Evaluate, NotAdmissible, Prepare, Ends, Check,
      Claim, CallRefused, Refuses, CallFails, Record, Resume, Commit, Refused, Settle, Crash,
      PermitEnds, Overdue

LEMMA TellsStep ==
  ASSUME IInv, [Next]_vars, NEW o \in Intent
  PROVE  Tells(o)'
<1>1. Tells(o) /\ Aligned /\ job \in Jobs
  BY DEF IInv, Typed
<1>2. ASSUME row' = row, Effects' = Effects, wire' \subseteq wire,
             life'[o] = "SPENT" <=> life[o] = "SPENT"
      PROVE  Tells(o)'
  BY <1>1, <1>2 DEF Tells
<1>3. ASSUME NEW p \in Intent, row[p] \notin {None, "PREPARED", "NOT_EXECUTED"}, UNCHANGED <<row, life>>,
             Effects' \subseteq Effects \cup {p}, Effects \subseteq Effects',
             wire' \subseteq wire \cup {p}
      PROVE  Tells(o)'
  BY <1>1, <1>3 DEF Tells
<1>4. ASSUME NEW p \in Intent, NEW s \in States, row' = [row EXCEPT ![p] = s],
             UNCHANGED <<life, outside>>,
             s = "PREPARED" => row[p] = None,
             s = "NOT_EXECUTED" => row[p] = "PREPARED",
             s = "TARGET_COMMITTED" => p \in Effects,
             s = "COMMITTED" => p \in Effects /\ life[p] = "SPENT",
             s \in {"PREPARED", "CALLING", "AMBIGUOUS", "NOT_EXECUTED", "RECONCILIATION_REQUIRED"}
               => life[p] # "SPENT"
      PROVE  Tells(o)'
  <2>1. Effects' = Effects /\ wire' = wire
    BY <1>4 DEF outside, Effects
  <2>2. row'[p] = s /\ \A q \in Intent \ {p} : row'[q] = row[q]
    BY <1>4 DEF IInv, Typed
  <2>3. CASE o = p
    BY <1>1, <1>4, <2>1, <2>2, <2>3 DEF Tells, States, Final, None
  <2>4. CASE o # p
    BY <1>1, <1>4, <2>1, <2>2, <2>4 DEF Tells
  <2> QED
    BY <2>3, <2>4
<1>5. ASSUME Prepare \/ Claim \/ Record \/ Settle PROVE Tells(o)'
  <2>1. job.op \in Intent /\ Tells(job.op)
    BY <1>5 DEF Prepare, Claim, Record, Settle, IInv, Typed, Jobs, At
  <2>2. CASE Prepare
    BY <1>1, <1>4, <2>1, <2>2 DEF Prepare, Save, Aligned, At, Tells, States, None
  <2>3. CASE Claim
    BY <1>1, <1>4, <2>1, <2>3 DEF Claim, Claimed, Save, Aligned, At, Tells, States, Unknown
  <2>4. CASE Record
    BY <1>1, <1>4, <2>1, <2>4 DEF Record, Save, Aligned, At, Tells, States, Final
  <2>5. CASE Settle
    BY <1>1, <1>4, <2>1, <2>5 DEF Settle, Save, Aligned, At, Tells, States, Final
  <2> QED
    BY <1>5, <2>2, <2>3, <2>4, <2>5
<1>6. CASE CallAnswered \/ CallFails \/ (Crash /\ At("call"))
  <2>1. job.op \in Intent /\ row[job.op] = "CALLING"
    BY <1>1, <1>6 DEF CallAnswered, CallFails, IInv, Typed, Jobs, Aligned, At
  <2>2. CASE CallAnswered
    <3>1. Effects' = Effects \cup {job.op}
      BY <2>1, <2>2, AppendKinds DEF CallAnswered, IInv
    <3> QED
      BY <1>3, <2>1, <2>2, <3>1 DEF CallAnswered, None
  <2>3. CASE CallFails \/ (Crash /\ At("call"))
    <3>1. Effects' = Effects /\ UNCHANGED <<row, life>> /\ wire' \subseteq wire \cup {job.op}
      BY <2>3 DEF CallFails, Crash, Effects
    <3> QED
      BY <1>3, <2>1, <3>1 DEF None
  <2> QED
    BY <1>6, <2>2, <2>3
<1>7. CASE Crash /\ ~At("call")
  BY <1>2, <1>7 DEF Crash, Effects
<1>8. ASSUME NEW p \in Intent, ArrivesLate(p) PROVE Tells(o)'
  <2>1. row[p] \notin {None, "PREPARED", "NOT_EXECUTED"}
    BY <1>8 DEF ArrivesLate, IInv, Tells
  <2>2. Effects' = Effects \/ Effects' = Effects \cup {p}
    BY <1>8, AppendKinds DEF ArrivesLate, Refuses, Effects, IInv
  <2> QED
    BY <1>3, <1>8, <2>1, <2>2 DEF ArrivesLate
<1>9. CASE Commit
  <2>1. job.op \in Intent /\ row[job.op] = "TARGET_COMMITTED"
    BY <1>1, <1>9 DEF Commit, IInv, Typed, Jobs, Aligned, At
  <2>2. Effects' = Effects /\ wire' = wire /\ row' = row
    BY <1>9 DEF Commit, outside, Effects
  <2>3. life'[o] = life[o] \/ (o = job.op /\ life'[o] = "SPENT")
    BY <1>9, <2>1 DEF Commit, Spend, bookVars, IInv, Typed
  <2> QED
    BY <1>1, <2>1, <2>2, <2>3 DEF Tells, None
<1>10. CASE Evaluate
  <2>1. job.op \in Intent
    BY <1>10 DEF Evaluate, IInv, Typed, Jobs, At
  <2>2. life'[o] = "SPENT" <=> life[o] = "SPENT"
    BY <1>10, <2>1 DEF Evaluate, Promise, Ended, bookVars, IInv, Typed
  <2> QED
    BY <1>2, <1>10, <2>2 DEF Evaluate, outside, Effects
<1>11. ASSUME NEW p \in Intent, PermitEnds(p) PROVE Tells(o)'
  <2>1. life'[o] = "SPENT" <=> life[o] = "SPENT"
    BY <1>11 DEF PermitEnds, End, Ended, Live, IInv, Typed
  <2> QED
    BY <1>2, <1>11, <2>1 DEF PermitEnds, outside, Effects
<1>12. ASSUME UNCHANGED <<row, released, wire, life>> PROVE Tells(o)'
  BY <1>2, <1>12 DEF Effects
<1> QED
  BY <1>5, <1>6, <1>7, <1>8, <1>9, <1>10, <1>11, <1>12
  DEF Next, Steps, vars, outside, Submit, Recover, NotAdmissible, Ends, Check, CallRefused,
      Refuses, Resume, Refused, Overdue

LEMMA AlignedStep ==
  ASSUME IInv, [Next]_vars
  PROVE  Aligned'
<1>1. Aligned /\ job \in Jobs /\ (At("idle") <=> job.op = None)
  BY DEF IInv, Typed
<1>2. ASSUME job'.pc \in {"idle", "advance"} PROVE Aligned'
  BY <1>2 DEF Aligned, At
<1>3. CASE Evaluate \/ Prepare
  BY <1>1, <1>3 DEF Evaluate, Prepare, Goes, Aligned, At, Jobs
<1>4. CASE Check \/ Resume
  <2>1. CASE Resume
    BY <1>1, <2>1 DEF Resume, Goes, Aligned, At, Jobs
  <2>2. CASE Check /\ life[job.op] = "LIVE"
    BY <1>1, <2>2 DEF Check, Goes, Unknown, Aligned, At, Jobs
  <2>3. CASE Check /\ life[job.op] # "LIVE"
    <3>1. /\ job'.pc = "settle" /\ job'.op = job.op /\ job'.to = Abandoned(row[job.op])
          /\ UNCHANGED <<row, life>> /\ row[job.op] \in {"PREPARED", "CALLING", "AMBIGUOUS"}
      BY <1>1, <2>3 DEF Check, Writes, Jobs
    <3>2. life[job.op] # "SPENT"
      <4>1. job.op \in Intent
        BY <2>3 DEF Check, IInv, Typed, Jobs, At
      <4> QED
        BY <3>1, <4>1 DEF IInv, Tells
    <3> QED
      BY <3>1, <3>2 DEF Aligned, At, Abandoned
  <2> QED
    BY <1>4, <2>1, <2>2, <2>3
<1>5. CASE Claim
  <2>1. job.op \in Intent
    BY <1>5 DEF Claim, IInv, Typed, Jobs, At
  <2>2. row'[job.op] = "CALLING" /\ job'.pc = "call" /\ job'.op = job.op
    BY <1>1, <1>5, <2>1 DEF Claim, Claimed, Save, Goes, IInv, Typed, Jobs
  <2> QED
    BY <2>2 DEF Aligned, At
<1>6. CASE CallAnswered \/ CallRefused \/ CallFails
  <2>1. /\ job'.pc = "record" /\ job'.op = job.op /\ row' = row /\ row[job.op] = "CALLING"
        /\ job'.to \in {"TARGET_COMMITTED", "RECONCILIATION_REQUIRED", "AMBIGUOUS"}
        /\ job'.to = "TARGET_COMMITTED" => CallAnswered
    BY <1>1, <1>6 DEF CallAnswered, CallRefused, CallFails, Writes, Aligned, At, Jobs
  <2>2. CallAnswered => job.op \in Effects'
    <3>1. job.op \in Intent \/ ~CallAnswered
      BY DEF CallAnswered, IInv, Typed, Jobs, At
    <3> QED
      BY <3>1, AppendKinds DEF CallAnswered, IInv
  <2> QED
    BY <2>1, <2>2 DEF Aligned, At
<1>7. CASE Record
  <2>1. CASE job.to = "TARGET_COMMITTED"
    <3>1. job.op \in Intent
      BY <1>7 DEF Record, IInv, Typed, Jobs, At
    <3>2. row'[job.op] = "TARGET_COMMITTED" /\ job'.pc = "finalize" /\ job'.op = job.op
      BY <1>1, <1>7, <2>1, <3>1 DEF Record, Save, Writes, IInv, Typed, Jobs
    <3> QED
      BY <3>2 DEF Aligned, At
  <2>2. CASE job.to # "TARGET_COMMITTED"
    BY <1>2, <1>7, <2>2 DEF Record, Returns, NoJob
  <2> QED
    BY <2>1, <2>2
<1>8. CASE Commit
  <2>1. job.op \in Intent
    BY <1>8 DEF Commit, IInv, Typed, Jobs, At
  <2>2. life'[job.op] = "SPENT"
    BY <1>8, <2>1 DEF Commit, Spend, bookVars, IInv, Typed
  <2>3. /\ job'.pc = "settle" /\ job'.op = job.op /\ job'.to = "COMMITTED"
        /\ row' = row /\ row[job.op] = "TARGET_COMMITTED"
    BY <1>1, <1>8 DEF Commit, Writes, Aligned, At, Jobs
  <2> QED
    BY <2>2, <2>3 DEF Aligned, At
<1>9. CASE Refused
  <2>1. /\ job'.pc = "settle" /\ job'.op = job.op /\ job'.to = "RECONCILIATION_REQUIRED"
        /\ UNCHANGED <<row, life>> /\ row[job.op] = "TARGET_COMMITTED" /\ life[job.op] # "SPENT"
    BY <1>1, <1>9 DEF Refused, Unfinalized, Writes, Aligned, At, Jobs
  <2> QED
    BY <2>1 DEF Aligned, At
<1>10. CASE Crash \/ NotAdmissible \/ Ends \/ Settle
  BY <1>2, <1>10 DEF Crash, NotAdmissible, Ends, Settle, Returns, NoJob
<1>11. ASSUME NEW o \in Intent, Submit(o) \/ Recover(o) PROVE Aligned'
  <2>1. job'.op = o /\ row' = row /\ job'.pc = "evaluate" => row[o] = None
    BY <1>11 DEF Submit, Recover, NoJob
  <2>2. job'.pc \in {"evaluate", "advance"}
    BY <1>11 DEF Submit, Recover, NoJob
  <2> QED
    BY <1>2, <1>11, <2>1, <2>2 DEF Submit, Recover, NoJob, Aligned, At
<1>12. ASSUME job' = job, row' = row, Effects \subseteq Effects',
              job.op \in Intent => (life'[job.op] = "SPENT" <=> life[job.op] = "SPENT")
       PROVE  Aligned'
  BY <1>1, <1>12 DEF Aligned, At, Jobs
<1>13. ASSUME NEW o \in Intent, PermitEnds(o) PROVE Aligned'
  BY <1>12, <1>13 DEF PermitEnds, outside, End, Ended, Live, Effects, IInv, Typed
<1>14. ASSUME NEW o \in Intent, ArrivesLate(o) PROVE Aligned'
  <2>1. Effects \subseteq Effects'
    BY <1>14, AppendKinds DEF ArrivesLate, Refuses, Effects, IInv
  <2> QED
    BY <1>12, <1>14, <2>1 DEF ArrivesLate
<1>15. CASE UNCHANGED <<job, row, life, released>>
  BY <1>12, <1>15 DEF Effects
<1> QED
  BY <1>3, <1>4, <1>5, <1>6, <1>7, <1>8, <1>9, <1>10, <1>11, <1>13, <1>14, <1>15
  DEF Next, Steps, vars, outside, Overdue

\* The invariant holds in every reachable state.
THEOREM Soundness == Spec => []IInv
<1>1. IInv /\ [Next]_vars => IInv'
  <2> SUFFICES ASSUME IInv, [Next]_vars PROVE IInv'
    OBVIOUS
  <2>1. Typed' /\ Covered' /\ ReleasedInPlace' /\ Aligned'
    BY TypedStep, CoveredStep, PlaceStep, AlignedStep
  <2>2. \A o \in Intent : Tells(o)'
    BY TellsStep
  <2> QED
    BY <2>1, <2>2 DEF IInv
<1> QED
  BY <1>1, InitInvariant, PTL DEF Spec

\* The types of the gateway's variables, whatever the documents and the budget.
THEOREM ReleaseTypes == Spec => []TypeOK
<1>1. IInv => TypeOK
  BY DEF IInv, Typed, Covered, TypeOK, Lives
<1> QED
  BY <1>1, Soundness, PTL

\* The target's history is the one each submission was approved on.
THEOREM InPlace == Spec => []ReleasedInPlace
<1>1. IInv => ReleasedInPlace
  BY DEF IInv
<1> QED
  BY <1>1, Soundness, PTL

\* What the outbox says of target and engine is so.
THEOREM Outbox == Spec => []OutboxTells
<1>1. IInv => OutboxTells
  BY DEF IInv, OutboxTells, Tells
<1> QED
  BY <1>1, Soundness, PTL

-----------------------------------------------------------------------------
(* Steps of the gateway are steps of the promise *)

Verdicts == [o \in Intent |-> VerdictOf(o)]
Charges == {o \in Intent : life[o] = "SPENT"}
Same == UNCHANGED <<Verdicts, Effects, Charges>>

LEMMA QuietStep ==
  ASSUME UNCHANGED <<row, released>>, Charges' = Charges
  PROVE  Same
BY DEF Same, Verdicts, VerdictOf, Effects

\* A release is that of a row that is open or handed over: the other verdicts are
\* given to what is released, or was never sent.
LEMMA EffectStep ==
  ASSUME IInv, NEW o \in Intent, Appends(o), UNCHANGED <<row, life>>,
         row[o] # "NOT_EXECUTED"
  PROVE  Promised!TakeEffect(o) \/ Same
<1>1. UNCHANGED <<Verdicts, Charges>>
  BY DEF Verdicts, VerdictOf, Charges
<1>2. Effects' = Effects \cup {o}
  BY AppendKinds DEF IInv
<1>3. CASE o \in Effects
  BY <1>1, <1>2, <1>3 DEF Same
<1>4. CASE o \notin Effects
  <2>1. row[o] \notin {"COMMITTED", "NOT_EXECUTED"}
    BY <1>4 DEF IInv, Tells
  <2>2. VerdictOf(o) \in {"OPEN", "HANDED_OVER"}
    BY <2>1 DEF VerdictOf
  <2> QED
    BY <1>1, <1>2, <1>4, <2>2 DEF Promised!TakeEffect, Verdicts, Charges
<1> QED
  BY <1>3, <1>4

\* A charge is the debit of a row that is open and whose release took place.
LEMMA CommitStep ==
  ASSUME IInv, NEW o \in Intent, job.op = o, Commit
  PROVE  Promised!Debit(o) \/ Same
<1>1. /\ UNCHANGED <<row, released>> /\ row[o] = "TARGET_COMMITTED" /\ o \in Effects
  BY DEF Commit, outside, IInv, Aligned, At, Tells
<1>2. UNCHANGED <<Verdicts, Effects>>
  BY <1>1 DEF Verdicts, VerdictOf, Effects
<1>3. CASE Spend(o)
  <2>1. VerdictOf(o) = "OPEN"
    BY <1>1 DEF VerdictOf
  <2>2. o \notin Charges /\ Charges' = Charges \cup {o}
    BY <1>3 DEF Charges, Spend, IInv, Typed
  <2> QED
    BY <1>1, <1>2, <2>1, <2>2 DEF Promised!Debit, Verdicts, Charges
<1>4. CASE UNCHANGED bookVars
  BY <1>2, <1>4 DEF Same, Charges, bookVars
<1> QED
  BY <1>3, <1>4 DEF Commit

\* A write to the row concludes it, or leaves it open.
LEMMA RowStep ==
  ASSUME IInv, NEW o \in Intent, job.op = o, Prepare \/ Claim \/ Record \/ Settle
  PROVE  \/ \E v \in {"COMMITTED", "FAILED", "NOT_EXECUTED", "HANDED_OVER"} :
              Promised!Conclude(o, v)
         \/ Same
<1> DEFINE Names == {"COMMITTED", "FAILED", "NOT_EXECUTED", "HANDED_OVER"}
<1>1. /\ UNCHANGED <<life, released>> /\ Effects' = Effects /\ Charges' = Charges
      /\ Tells(o) /\ Aligned
      /\ \A p \in Intent \ {o} : row'[p] = row[p]
  BY DEF Prepare, Claim, Record, Settle, Save, outside, IInv, Typed, Charges, Effects
<1>2. ASSUME VerdictOf(o)' = VerdictOf(o) PROVE Same
  BY <1>1, <1>2 DEF Same, Verdicts, VerdictOf
<1>3. ASSUME VerdictOf(o) = "OPEN", VerdictOf(o)' \in Names,
             VerdictOf(o)' = "COMMITTED" => o \in Charges,
             VerdictOf(o)' \in {"FAILED", "NOT_EXECUTED"} => o \notin Effects,
             VerdictOf(o)' = "HANDED_OVER" => o \notin Charges
      PROVE  \E v \in Names : Promised!Conclude(o, v)
  <2>1. \A p \in Intent \ {o} : VerdictOf(p)' = VerdictOf(p)
    BY <1>1 DEF VerdictOf
  <2>2. Verdicts' = [Verdicts EXCEPT ![o] = VerdictOf(o)']
    BY <1>1, <2>1 DEF Verdicts
  <2>3. Promised!Conclude(o, VerdictOf(o)')
    BY <1>1, <1>3, <2>2 DEF Promised!Conclude, Verdicts, Charges
  <2> QED
    BY <1>3, <2>3
<1>4. CASE Prepare \/ Claim
  <2>1. row'[o] \in {"PREPARED", "CALLING"} /\ row[o] \in {None, "PREPARED", "CALLING", "AMBIGUOUS"}
    BY <1>1, <1>4 DEF Prepare, Claim, Claimed, Save, Aligned, At, Unknown, IInv, Typed
  <2> QED
    BY <1>2, <2>1 DEF VerdictOf, None
<1>5. CASE Record
  <2>1. /\ row[o] = "CALLING" /\ row'[o] = job.to
        /\ job.to \in {"TARGET_COMMITTED", "RECONCILIATION_REQUIRED", "AMBIGUOUS"}
    BY <1>1, <1>5 DEF Record, Save, Aligned, At, IInv, Typed
  <2>2. o \notin Charges /\ VerdictOf(o) = "OPEN"
    BY <1>1, <2>1 DEF Tells, Charges, VerdictOf
  <2>3. CASE job.to = "RECONCILIATION_REQUIRED"
    BY <1>3, <2>1, <2>2, <2>3 DEF VerdictOf
  <2>4. CASE job.to # "RECONCILIATION_REQUIRED"
    BY <1>2, <2>1, <2>2, <2>4 DEF VerdictOf
  <2> QED
    BY <2>3, <2>4
<1>6. CASE Settle
  <2>1. /\ row'[o] = job.to
        /\ \/ job.to = "NOT_EXECUTED" /\ row[o] = "PREPARED"
           \/ /\ job.to = "RECONCILIATION_REQUIRED" /\ life[o] # "SPENT"
              /\ row[o] \in {"CALLING", "AMBIGUOUS", "TARGET_COMMITTED"}
           \/ job.to = "COMMITTED" /\ life[o] = "SPENT" /\ row[o] = "TARGET_COMMITTED"
    BY <1>1, <1>6 DEF Settle, Save, Aligned, At, IInv, Typed
  <2>2. VerdictOf(o) = "OPEN" /\ VerdictOf(o)' \in Names
    BY <2>1 DEF VerdictOf
  <2>3. /\ VerdictOf(o)' = "COMMITTED" => o \in Charges
        /\ VerdictOf(o)' \in {"FAILED", "NOT_EXECUTED"} => o \notin Effects
        /\ VerdictOf(o)' = "HANDED_OVER" => o \notin Charges
    BY <1>1, <2>1 DEF VerdictOf, Charges, Tells
  <2> QED
    BY <1>3, <2>2, <2>3
<1> QED
  BY <1>4, <1>5, <1>6

LEMMA PromiseStep ==
  ASSUME IInv, [Next]_vars
  PROVE  Promised!PromiseNext \/ Same
<1>1. ASSUME NEW o \in Intent, ArrivesLate(o) PROVE Promised!PromiseNext \/ Same
  <2>1. UNCHANGED <<row, life>> /\ row[o] # "NOT_EXECUTED"
    BY <1>1 DEF ArrivesLate, IInv, Tells
  <2>2. CASE Appends(o)
    <3>1. Promised!TakeEffect(o) \/ Same
      BY <2>1, <2>2, EffectStep
    <3> QED
      BY <3>1 DEF Promised!PromiseNext
  <2>3. CASE Refuses(o)
    BY <2>1, <2>3, QuietStep DEF Refuses, Charges
  <2> QED
    BY <1>1, <2>2, <2>3 DEF ArrivesLate
<1>2. ASSUME NEW o \in Intent, job.op = o, CallAnswered PROVE Promised!PromiseNext \/ Same
  <2>1. UNCHANGED <<row, life>> /\ row[o] = "CALLING" /\ Appends(o)
    BY <1>2 DEF CallAnswered, IInv, Aligned, At
  <2>2. Promised!TakeEffect(o) \/ Same
    BY <2>1, EffectStep
  <2> QED
    BY <2>2 DEF Promised!PromiseNext
<1>3. ASSUME NEW o \in Intent, job.op = o, Commit PROVE Promised!PromiseNext \/ Same
  <2>1. Promised!Debit(o) \/ Same
    BY <1>3, CommitStep
  <2> QED
    BY <2>1 DEF Promised!PromiseNext
<1>4. ASSUME NEW o \in Intent, job.op = o, Prepare \/ Claim \/ Record \/ Settle
      PROVE  Promised!PromiseNext \/ Same
  BY <1>4, RowStep DEF Promised!PromiseNext
<1>5. ASSUME NEW o \in Intent, job.op = o, Evaluate PROVE Same
  <2>1. Charges' = Charges
    BY <1>5 DEF Evaluate, Promise, Ended, bookVars, Charges, IInv, Typed
  <2> QED
    BY <1>5, <2>1, QuietStep DEF Evaluate, outside
<1>6. ASSUME NEW o \in Intent, PermitEnds(o) PROVE Same
  <2>1. Charges' = Charges
    BY <1>6 DEF PermitEnds, End, Ended, Live, Charges, IInv, Typed
  <2> QED
    BY <1>6, <2>1, QuietStep DEF PermitEnds, outside
<1>7. ASSUME UNCHANGED <<row, life, released>> PROVE Same
  BY <1>7, QuietStep DEF Charges
<1>8. ASSUME CallAnswered \/ Commit \/ Prepare \/ Claim \/ Record \/ Settle \/ Evaluate
      PROVE  job.op \in Intent
  BY <1>8 DEF CallAnswered, Commit, Prepare, Claim, Record, Settle, Evaluate, IInv, Typed, Jobs, At
<1> QED
  BY <1>1, <1>2, <1>3, <1>4, <1>5, <1>6, <1>7, <1>8
  DEF Next, Steps, vars, outside, Submit, Recover, NotAdmissible, Ends, Check, CallRefused,
      Refuses, CallFails, Resume, Refused, Crash, Overdue

\* The gateway keeps the promise of a governed append over deaths, lost answers and
\* late requests: one release at most, one verdict, and a true one.
THEOREM Refinement == Spec => KeepsPromise
<1>1. Init => Promised!PromiseInit
  BY DEF Init, BookInit, Promised!PromiseInit, VerdictOf, Effects, None
<1>2. IInv /\ [Next]_vars => [Promised!PromiseNext]_(Promised!promiseVars)
  BY PromiseStep DEF Promised!promiseVars, Same, Verdicts, Charges
<1> QED
  BY <1>1, <1>2, Soundness, PTL DEF Spec, KeepsPromise, Promised!PromiseSpec
=============================================================================
