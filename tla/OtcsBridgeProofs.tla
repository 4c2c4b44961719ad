-------------------------- MODULE OtcsBridgeProofs --------------------------
(***************************************************************************)
(* What any number of workers, over any number of operations, crashes and  *)
(* late requests, keeps of the bridge's records; and that one worker at a  *)
(* time implements AppendPromise.  With two workers that is false: the     *)
(* last write trusts a row that another worker may have finished.          *)
(***************************************************************************)
EXTENDS OtcsBridge, TLAPS

\* No later append can take effect: the head has passed what o expects.
Passed(o) == o \notin effects /\ head > Expect[o]

\* What may be relied on when the row of o is read as r; nothing of it is ever
\* undone, so it also holds of a row that was read long ago.
Reliable(o, r) ==
  /\ r # NoRow => Expect[o] <= head
  /\ r.request = "COMMITTED" => o \in effects
  /\ r.state \in {"DOWNSTREAM_COMMITTED", "LOCAL_COMMITTED"} => r.request = "COMMITTED"
  /\ r.state = "DOWNSTREAM_REJECTED" => r.request = "FAILED" /\ Passed(o)
  /\ r.state = "LOCAL_COMMITTED" => life[o] = "SPENT"

\* What a worker is about to write is backed by what it has seen.
Backed(w) ==
  ~At(w, "idle") =>
    /\ Op(w) \in Intent
    /\ Expect[Op(w)] <= head
    /\ Reliable(Op(w), job[w].seen)
    /\ At(w, "record") =>
         /\ job[w].to \in {"DOWNSTREAM_COMMITTED", "DOWNSTREAM_REJECTED", "AMBIGUOUS",
                           "RECONCILIATION_REQUIRED"}
         /\ job[w].to = "DOWNSTREAM_COMMITTED" => Op(w) \in effects
         /\ job[w].to = "DOWNSTREAM_REJECTED" => Passed(Op(w))
    /\ At(w, "settle") =>
         /\ job[w].to \in Final
         /\ job[w].to = "LOCAL_COMMITTED"
              => job[w].seen.state = "DOWNSTREAM_COMMITTED" /\ life[Op(w)] = "SPENT"
         /\ job[w].to = "NOT_EXECUTED"
              => job[w].seen.state \in {"PREPARED", "DOWNSTREAM_REJECTED"}

\* Before CALLING is written nothing leaves.
Unsent(o) == row[o].state \in {None, "PREPARED"} => o \notin effects /\ ~OnItsWay(o)

NoEffect(o) ==
  row[o].state = "NOT_EXECUTED" => o \notin effects /\ (OnItsWay(o) => head > Expect[o])

Charged(o) == life[o] = "SPENT" => o \in effects

IInv ==
  /\ Typed
  /\ \A o \in Intent : Reliable(o, row[o]) /\ Unsent(o) /\ NoEffect(o) /\ Charged(o)
  /\ \A w \in Worker : Backed(w)

-----------------------------------------------------------------------------
(* Types *)

LEMMA InitTyped == Init => Typed
  BY BridgeAssumption
  DEF Init, BookInit, Typed, WellFormed, Jobs, NoJob, NoRow, None, Places, Requests, Rows, States

\* The actions of the engine touch the lives of permits only.
LEMMA LifeSteps ==
  ASSUME Typed, NEW o \in Intent,
         \/ Promise(o, {}) \/ Spend(o) \/ Close(o) \/ End({o}) \/ UNCHANGED bookVars
  PROVE  /\ life' \in [Intent -> {"NONE", "LIVE", "SPENT", "CLOSED", "DEAD"}]
         /\ \A p \in Intent : p # o => life'[p] = life[p]
         /\ life[o] = "SPENT" => life'[o] = "SPENT"
  BY DEF Promise, Spend, Close, End, Ended, Live, bookVars, Typed

AllFormed == job \in [Worker -> {j \in Jobs : WellFormed(j)}]

\* The ways in which a step changes the job of a worker.
LEMMA JobSteps ==
  ASSUME Typed, NEW w \in Worker
  PROVE  /\ Returns(w) => AllFormed'
         /\ \A pc \in Places \ {"record", "settle"} :
              Op(w) \in Intent /\ Goes(w, pc) => AllFormed'
         /\ \A pc \in Places, to \in States :
              /\ Op(w) \in Intent
              /\ job' = [job EXCEPT ![w].pc = pc, ![w].to = to]
              => AllFormed'
         /\ \A pc \in Places \ {"record", "settle"} :
              /\ Op(w) \in Intent
              /\ job' = [job EXCEPT ![w].pc = pc, ![w].to = None]
              => AllFormed'
         /\ \A pc \in Places \ {"record", "settle"}, r \in Rows \cup {NoRow} :
              /\ Op(w) \in Intent
              /\ \/ job' = [job EXCEPT ![w].pc = pc, ![w].seen = r]
                 \/ job' = [job EXCEPT ![w].seen = r, ![w].pc = pc]
              => AllFormed'
         /\ \A j \in Jobs : WellFormed(j) /\ job' = [job EXCEPT ![w] = j] => AllFormed'
<1>1. ASSUME NEW j \in Jobs, WellFormed(j), job' = [job EXCEPT ![w] = j] PROVE AllFormed'
  BY <1>1 DEF Typed, AllFormed
<1>2. job[w] \in Jobs
  BY DEF Typed
<1>3. ASSUME Returns(w) PROVE AllFormed'
  <2>1. NoJob \in Jobs /\ WellFormed(NoJob)
    BY DEF NoJob, Jobs, Places, WellFormed
  <2> QED
    BY <1>1, <1>3, <2>1 DEF Returns
<1>4. ASSUME Op(w) \in Intent, NEW pc \in Places \ {"record", "settle"}, Goes(w, pc)
      PROVE  AllFormed'
  <2>1. [job[w] EXCEPT !.pc = pc] \in Jobs /\ WellFormed([job[w] EXCEPT !.pc = pc])
    BY <1>2, <1>4 DEF Jobs, WellFormed, Op
  <2> QED
    BY <1>1, <1>4, <2>1 DEF Goes
<1>5. ASSUME Op(w) \in Intent, NEW pc \in Places, NEW to \in States \cup {None},
             to \in States \/ pc \notin {"record", "settle"},
             job' = [job EXCEPT ![w].pc = pc, ![w].to = to]
      PROVE  AllFormed'
  <2> DEFINE j == [job[w] EXCEPT !.pc = pc, !.to = to]
  <2>1. j \in Jobs
    BY <1>2, <1>5 DEF Jobs
  <2>2. WellFormed(j)
    BY <1>2, <1>5 DEF Jobs, WellFormed, Op
  <2>3. job' = [job EXCEPT ![w] = j]
    BY <1>5
  <2> QED
    BY <1>1, <2>1, <2>2, <2>3
<1>6. ASSUME Op(w) \in Intent, NEW pc \in Places \ {"record", "settle"},
             NEW r \in Rows \cup {NoRow},
             \/ job' = [job EXCEPT ![w].pc = pc, ![w].seen = r]
             \/ job' = [job EXCEPT ![w].seen = r, ![w].pc = pc]
      PROVE  AllFormed'
  <2> DEFINE j == [job[w] EXCEPT !.pc = pc, !.seen = r]
  <2>1. j \in Jobs /\ WellFormed(j)
    BY <1>2, <1>6 DEF Jobs, WellFormed, Op
  <2>2. job' = [job EXCEPT ![w] = j]
    BY <1>2, <1>6 DEF Jobs
  <2> QED
    BY <1>1, <2>1, <2>2
<1> QED
  BY <1>1, <1>3, <1>4, <1>5, <1>6

LEMMA RowSteps ==
  ASSUME Typed, NEW o, NEW s \in States, NEW q \in Requests,
         row' = [row EXCEPT ![o] = [state |-> s, request |-> q]]
  PROVE  row' \in [Intent -> Rows \cup {NoRow}]
BY DEF Typed, Rows

LEMMA Words ==
  /\ {"idle", "admit", "prepare", "load", "drive", "claim", "call", "record", "reread",
      "finalize", "settle"} \subseteq Places
  /\ {"PREPARED", "CALLING", "AMBIGUOUS", "DOWNSTREAM_COMMITTED", "DOWNSTREAM_REJECTED",
      "LOCAL_COMMITTED", "LOCAL_FAILED", "NOT_EXECUTED", "RECONCILIATION_REQUIRED"}
       = States
  /\ {"NONE", "COMMITTED", "FAILED"} = Requests
  /\ None = "NONE"
BY DEF Places, States, Unknown, Answered, Final, Settled, Requests, None

LEMMA TypedStep == Typed /\ [Next]_vars => Typed'
<1> SUFFICES ASSUME Typed, [Next]_vars PROVE Typed'
  OBVIOUS
<1> USE BridgeAssumption, Words
<1>1. ASSUME NEW w \in Worker, NEW o \in Intent, Execute(w, o) \/ Recover(w, o) PROVE Typed'
  <2>1. row[o] \in Rows \cup {NoRow}
    BY DEF Typed
  <2>2. AllFormed'
    <3>1. CASE Execute(w, o)
      <4> DEFINE pc == IF row[o] = NoRow THEN "admit" ELSE "drive"
      <4> DEFINE j == [NoJob EXCEPT !.pc = pc, !.op = o, !.seen = row[o]]
      <4>1. j \in Jobs /\ WellFormed(j)
        BY <2>1 DEF WellFormed, Jobs, NoJob
      <4> QED
        BY <3>1, <4>1, JobSteps DEF Execute
    <3>2. CASE Recover(w, o)
      <4> DEFINE j == [NoJob EXCEPT !.pc = "drive", !.op = o, !.recovery = TRUE,
                                    !.seen = row[o]]
      <4>1. j \in Jobs /\ WellFormed(j)
        BY <2>1 DEF WellFormed, Jobs, NoJob
      <4> QED
        BY <3>2, <4>1, JobSteps DEF Recover
    <3> QED
      BY <1>1, <3>1, <3>2
  <2> QED
    BY <1>1, <2>2 DEF Execute, Recover, Typed, AllFormed, outside
<1>2. ASSUME NEW w \in Worker, Admit(w) PROVE Typed'
  <2>1. Op(w) \in Intent
    BY <1>2 DEF Admit, At, Op, Typed, WellFormed
  <2>2. AllFormed'
    BY <1>2, <2>1, JobSteps DEF Admit
  <2> QED
    BY <1>2, <2>1, <2>2, LifeSteps DEF Admit, Typed, AllFormed, outside
<1>3. ASSUME NEW w \in Worker, TurnedDown(w) \/ Ends(w) \/ Conflict(w) PROVE Typed'
  <2>1. AllFormed'
    BY <1>3, JobSteps DEF TurnedDown, Ends, Conflict
  <2> QED
    BY <1>3, <2>1 DEF TurnedDown, Ends, Conflict, Typed, AllFormed, outside
<1>4. ASSUME NEW w \in Worker, Prepare(w) PROVE Typed'
  <2>1. AllFormed'
    BY <1>4, JobSteps DEF Prepare, At, Op, Typed, WellFormed
  <2>2. row' \in [Intent -> Rows \cup {NoRow}]
    BY <1>4, RowSteps DEF Prepare, Typed
  <2> QED
    BY <1>4, <2>1, <2>2 DEF Prepare, Typed, AllFormed, outside
<1>5. ASSUME NEW w \in Worker, Reread(w) PROVE Typed'
  <2>1. Op(w) \in Intent
    BY <1>5 DEF Reread, At, Op, Typed, WellFormed
  <2>2. row[Op(w)] \in Rows \cup {NoRow}
    BY <2>1 DEF Typed
  <2>3. AllFormed'
    BY <1>5, <2>1, <2>2, JobSteps DEF Reread
  <2> QED
    BY <1>5, <2>3 DEF Reread, Typed, AllFormed, outside
<1>6. ASSUME NEW w \in Worker, Check(w) \/ Resume(w) PROVE Typed'
  <2>1. Op(w) \in Intent
    BY <1>6 DEF Check, Resume, At, Op, Typed, WellFormed
  <2>2. AllFormed'
    BY <1>6, <2>1, JobSteps DEF Check, Resume, Abandoned
  <2> QED
    BY <1>6, <2>2 DEF Check, Resume, Typed, AllFormed, outside
<1>7. ASSUME NEW w \in Worker, Claim(w) PROVE Typed'
  <2>1. Op(w) \in Intent
    BY <1>7 DEF Claim, At, Op, Typed, WellFormed
  <2>2. AllFormed'
    BY <1>7, <2>1, JobSteps DEF Claim
  <2>3. row' \in [Intent -> Rows \cup {NoRow}]
    BY <1>7, RowSteps DEF Claim, Transition
  <2> QED
    BY <1>7, <2>2, <2>3 DEF Claim, Typed, AllFormed, outside
<1>8. ASSUME NEW w \in Worker, CallAccepted(w) \/ CallRejected(w) \/ CallFails(w)
      PROVE  Typed'
  <2>1. Op(w) \in Intent
    BY <1>8 DEF CallAccepted, CallRejected, CallFails, At, Op, Typed, WellFormed
  <2>2. AllFormed'
    BY <1>8, <2>1, JobSteps DEF CallAccepted, CallRejected, CallFails, Answers
  <2>3. head' \in Nat /\ effects' \subseteq Intent /\ wire' \subseteq Intent
    BY <1>8, <2>1 DEF CallAccepted, CallRejected, CallFails, Appends, Rejects, Typed
  <2> QED
    BY <1>8, <2>2, <2>3 DEF CallAccepted, CallRejected, CallFails, Typed, AllFormed
<1>9. ASSUME NEW w \in Worker, Record(w) PROVE Typed'
  <2>1. Op(w) \in Intent
    BY <1>9 DEF Record, At, Op, Typed, WellFormed
  <2>2. AllFormed'
    BY <1>9, <2>1, JobSteps DEF Record
  <2>3. job[w].to \in States
    BY <1>9 DEF Record, At, Typed, WellFormed
  <2>4. row' \in [Intent -> Rows \cup {NoRow}]
    BY <1>9, <2>3, RowSteps DEF Record, Transition, RequestFor
  <2> QED
    BY <1>9, <2>2, <2>4 DEF Record, Typed, AllFormed, outside
<1>10. ASSUME NEW w \in Worker, Commit(w) PROVE Typed'
  <2>1. Op(w) \in Intent
    BY <1>10 DEF Commit, At, Op, Typed, WellFormed
  <2>2. AllFormed'
    BY <1>10, <2>1, JobSteps DEF Commit, Settles, EndOf
  <2>3. life' \in [Intent -> {"NONE", "LIVE", "SPENT", "CLOSED", "DEAD"}]
    BY <1>10, <2>1, LifeSteps DEF Commit
  <2> QED
    BY <1>10, <2>2, <2>3 DEF Commit, Typed, AllFormed, outside
<1>11. ASSUME NEW w \in Worker, Refused(w) PROVE Typed'
  <2>1. Op(w) \in Intent
    BY <1>11 DEF Refused, At, Op, Typed, WellFormed
  <2>2. AllFormed'
    BY <1>11, <2>1, JobSteps DEF Refused, Settles, RefusedTo
  <2> QED
    BY <1>11, <2>2 DEF Refused, Typed, AllFormed, outside
<1>12. ASSUME NEW w \in Worker, Settle(w) PROVE Typed'
  <2>1. Op(w) \in Intent
    BY <1>12 DEF Settle, At, Op, Typed, WellFormed
  <2>2. AllFormed'
    BY <1>12, JobSteps DEF Settle
  <2>3. job[w].to \in States
    BY <1>12 DEF Settle, At, Typed, WellFormed
  <2>4. job[w].seen.request \in Requests
    BY DEF Typed, Jobs, Rows, NoRow
  <2>5. row' \in [Intent -> Rows \cup {NoRow}]
    BY <1>12, <2>3, <2>4, RowSteps DEF Settle, Transition
  <2> QED
    BY <1>12, <2>2, <2>5 DEF Settle, Typed, AllFormed, outside
<1>13. ASSUME NEW w \in Worker, Crash(w) PROVE Typed'
  <2>1. AllFormed'
    BY <1>13, JobSteps DEF Crash
  <2>2. crashes' \in 0 .. MaxCrashes
    BY <1>13 DEF Crash, Typed
  <2>3. wire' \subseteq Intent
    BY <1>13 DEF Crash, Typed, WellFormed, At, Op
  <2> QED
    BY <1>13, <2>1, <2>2, <2>3 DEF Crash, Typed, AllFormed
<1>14. ASSUME NEW o \in Intent, PermitEnds(o) PROVE Typed'
  BY <1>14, LifeSteps DEF PermitEnds, Typed, outside
<1>15. ASSUME NEW o \in Intent, ArrivesLate(o) PROVE Typed'
  BY <1>15 DEF ArrivesLate, Appends, Rejects, Typed
<1>16. CASE OthersAppend
  BY <1>16 DEF OthersAppend, Typed
<1>17. CASE UNCHANGED vars
  BY <1>17 DEF vars, Typed
<1> QED
  BY <1>1, <1>2, <1>3, <1>4, <1>5, <1>6, <1>7, <1>8, <1>9, <1>10, <1>11, <1>12, <1>13,
     <1>14, <1>15, <1>16, <1>17 DEF Next, Steps

-----------------------------------------------------------------------------
(* What no step undoes *)

\* The head and the effects only grow, an append that was passed stays passed, a
\* charge stays; and an operation takes effect only if a request of it was on its way.
Onward(o) ==
  /\ head <= head'
  /\ o \in effects => o \in effects'
  /\ o \in effects' => o \in effects \/ (OnItsWay(o) /\ head = Expect[o])
  /\ Passed(o) => Passed(o)'
  /\ life[o] = "SPENT" => life'[o] = "SPENT"

LEMMA OutsideSteps ==
  ASSUME Typed, NEW o \in Intent, NEW p \in Intent, Appends(p) \/ Rejects(p), OnItsWay(p)
  PROVE  /\ head <= head'
         /\ o \in effects => o \in effects'
         /\ o \in effects' => o \in effects \/ (OnItsWay(o) /\ head = Expect[o])
         /\ Passed(o) => Passed(o)'
BY BridgeAssumption DEF Appends, Rejects, Accepts, Passed, Typed

LEMMA StepOnward == ASSUME Typed, [Next]_vars, NEW o \in Intent PROVE Onward(o)
<1> USE BridgeAssumption
<1>1. ASSUME NEW w \in Worker, CallAccepted(w) \/ CallRejected(w) PROVE Onward(o)
  <2>1. Op(w) \in Intent /\ OnItsWay(Op(w))
    BY <1>1 DEF CallAccepted, CallRejected, Typed, WellFormed, At, Op, OnItsWay
  <2> QED
    BY <1>1, <2>1, OutsideSteps DEF CallAccepted, CallRejected, Onward
<1>2. ASSUME NEW p \in Intent, ArrivesLate(p) PROVE Onward(o)
  <2>1. OnItsWay(p)
    BY <1>2 DEF ArrivesLate, OnItsWay
  <2> QED
    BY <1>2, <2>1, OutsideSteps DEF ArrivesLate, Onward
<1>3. CASE OthersAppend
  BY <1>3 DEF OthersAppend, Onward, Passed, Typed
<1>4. ASSUME NEW w \in Worker, Admit(w) \/ Commit(w) PROVE Onward(o)
  <2>1. Op(w) \in Intent
    BY <1>4 DEF Admit, Commit, At, Op, Typed, WellFormed
  <2>2. life[o] = "SPENT" => life'[o] = "SPENT"
    BY <1>4, <2>1, LifeSteps DEF Admit, Commit
  <2> QED
    BY <1>4, <2>2 DEF Admit, Commit, Onward, Passed, outside, Typed
<1>5. ASSUME NEW p \in Intent, PermitEnds(p) PROVE Onward(o)
  <2>1. life[o] = "SPENT" => life'[o] = "SPENT"
    BY <1>5, LifeSteps DEF PermitEnds
  <2> QED
    BY <1>5, <2>1 DEF PermitEnds, Onward, Passed, outside, Typed
<1>6. CASE UNCHANGED <<head, effects, life>>
  BY <1>6 DEF Onward, Passed, Typed
<1> QED
  BY <1>1, <1>2, <1>3, <1>4, <1>5, <1>6
  DEF Next, Steps, vars, outside, Execute, Recover, TurnedDown, Prepare, Reread, Ends,
      Check, Resume, Claim, CallFails, Record, Refused, Settle, Conflict, Crash

LEMMA StillReliable ==
  ASSUME Typed, NEW o \in Intent, NEW r \in Rows \cup {NoRow}, Onward(o), Typed',
         Reliable(o, r)
  PROVE  /\ r # NoRow => Expect[o] <= head'
         /\ r.request = "COMMITTED" => o \in effects'
         /\ r.state \in {"DOWNSTREAM_COMMITTED", "LOCAL_COMMITTED"} => r.request = "COMMITTED"
         /\ r.state = "DOWNSTREAM_REJECTED" => r.request = "FAILED" /\ Passed(o)'
         /\ r.state = "LOCAL_COMMITTED" => life'[o] = "SPENT"
BY BridgeAssumption DEF Onward, Reliable, Typed

-----------------------------------------------------------------------------
(* Rows *)

\* Four actions write a row, each the row of the worker's operation.
LEMMA Writes ==
  ASSUME [Next]_vars
  PROVE  \/ UNCHANGED row
         \/ \E w \in Worker : Prepare(w) \/ Claim(w) \/ Record(w) \/ Settle(w)
BY DEF Next, Steps, vars, Execute, Recover, Admit, TurnedDown, Reread, Ends, Check, Resume,
       CallAccepted, CallRejected, CallFails, Commit, Refused, Conflict, Crash, PermitEnds,
       ArrivesLate, OthersAppend

LEMMA RowsReliable ==
  ASSUME IInv, Typed', [Next]_vars, NEW o \in Intent
  PROVE  Reliable(o, row[o])'
<1> USE BridgeAssumption
<1>1. Onward(o) /\ Reliable(o, row[o]) /\ row[o] \in Rows \cup {NoRow} /\ head \in Nat /\ head' \in Nat
  BY StepOnward DEF IInv, Typed
<1>2. CASE row'[o] = row[o]
  BY <1>1, <1>2, StillReliable DEF IInv, Reliable
<1>3. ASSUME NEW w \in Worker, o = Op(w), Prepare(w), row'[o] # row[o] PROVE Reliable(o, row[o])'
  BY <1>1, <1>3 DEF IInv, Prepare, Backed, At, Reliable, Typed, Op, outside, None
<1>4. ASSUME NEW w \in Worker, o = Op(w), Claim(w), row'[o] # row[o] PROVE Reliable(o, row[o])'
  BY <1>1, <1>4 DEF IInv, Claim, Transition, Backed, At, Reliable, Typed, Op, outside, None
<1>5. ASSUME NEW w \in Worker, o = Op(w), Record(w), row'[o] # row[o] PROVE Reliable(o, row[o])'
  BY <1>1, <1>5 DEF IInv, Record, RequestFor, Transition, Backed, At, Reliable, Passed, Typed, Op,
                    outside, None
<1>6. ASSUME NEW w \in Worker, o = Op(w), Settle(w), row'[o] # row[o] PROVE Reliable(o, row[o])'
  BY <1>1, <1>6 DEF IInv, Settle, Transition, Backed, At, Reliable, Typed, Op, outside,
                    Final, Settled
<1>7. row'[o] = row[o] \/ \E w \in Worker : o = Op(w) /\ (Prepare(w) \/ Claim(w) \/ Record(w) \/ Settle(w))
  BY Writes DEF Prepare, Claim, Record, Settle, Transition, IInv, Typed
<1> QED
  BY <1>2, <1>3, <1>4, <1>5, <1>6, <1>7

-----------------------------------------------------------------------------
(* Requests *)

\* Only Claim puts a request on its way.
LEMMA RequestsLeave ==
  ASSUME Typed, [Next]_vars, NEW o \in Intent, OnItsWay(o)'
  PROVE  OnItsWay(o) \/ \E w \in Worker : Claim(w) /\ Op(w) = o
<1>1. ASSUME NEW w \in Worker, Steps(w) PROVE OnItsWay(o) \/ (Claim(w) /\ Op(w) = o)
  <2>1. CASE Claim(w)
    BY <1>1, <2>1 DEF Claim, OnItsWay, At, Op, Typed, outside, Jobs
  <2>2. CASE CallFails(w)
    BY <1>1, <2>2 DEF CallFails, Answers, OnItsWay, At, Op, Typed, Jobs
  <2>3. CASE ~Claim(w) /\ ~CallFails(w)
    <3>1. wire' = wire
      BY <1>1, <2>3 DEF Steps, Admit, TurnedDown, Prepare, Reread, Ends, Check, Resume,
           CallAccepted, CallRejected, Record, Commit, Refused, Settle, Conflict, outside
    <3>2. \A v \in Worker : v # w => job'[v] = job[v]
      BY <1>1, <2>3 DEF Steps, Admit, TurnedDown, Prepare, Reread, Ends, Check, Resume,
           CallAccepted, CallRejected, Record, Commit, Refused, Settle, Conflict, Typed,
           Goes, Returns, Answers, Settles
    <3>3. job'[w].pc # "call"
      BY <1>1, <2>3 DEF Steps, Admit, TurnedDown, Prepare, Reread, Ends, Check, Resume,
           CallAccepted, CallRejected, Record, Commit, Refused, Settle, Conflict, Typed,
           Goes, Returns, Answers, Settles, Jobs, NoJob
    <3> QED
      BY <3>1, <3>2, <3>3 DEF OnItsWay, At, Op
  <2> QED
    BY <2>1, <2>2, <2>3
<1>2. ASSUME NEW w \in Worker, NEW p \in Intent, Execute(w, p) \/ Recover(w, p)
      PROVE  OnItsWay(o)
  BY <1>2 DEF Execute, Recover, OnItsWay, At, Op, Typed, outside, NoJob
<1>3. ASSUME NEW w \in Worker, Crash(w) PROVE OnItsWay(o)
  BY <1>3 DEF Crash, Returns, OnItsWay, At, Op, Typed, NoJob
<1>4. ASSUME NEW p \in Intent, PermitEnds(p) \/ ArrivesLate(p) PROVE OnItsWay(o)
  BY <1>4 DEF PermitEnds, ArrivesLate, OnItsWay, At, Op, outside
<1>5. CASE OthersAppend \/ UNCHANGED vars
  BY <1>5 DEF OthersAppend, vars, OnItsWay, At, Op
<1> QED
  BY <1>1, <1>2, <1>3, <1>4, <1>5 DEF Next

LEMMA RequestsTell ==
  ASSUME IInv, [Next]_vars, NEW o \in Intent
  PROVE  Unsent(o)' /\ NoEffect(o)'
<1> USE BridgeAssumption
<1>1. Onward(o) /\ Unsent(o) /\ NoEffect(o) /\ head \in Nat /\ head' \in Nat
  BY StepOnward, TypedStep DEF IInv, Typed
<1>2. CASE \E w \in Worker : Claim(w) /\ Op(w) = o
  BY <1>2 DEF Claim, Transition, Unsent, NoEffect, IInv, Typed, None
<1>3. CASE ~\E w \in Worker : Claim(w) /\ Op(w) = o
  <2>1. OnItsWay(o)' => OnItsWay(o)
    BY <1>3, RequestsLeave DEF IInv
  <2>2. CASE row'[o].state = row[o].state
    <3>1. Unsent(o)'
      BY <1>1, <2>1, <2>2 DEF Onward, Unsent
    <3>2. NoEffect(o)'
      BY <1>1, <2>1, <2>2 DEF Onward, NoEffect
    <3> QED
      BY <3>1, <3>2
  <2>3. ASSUME NEW w \in Worker, Op(w) = o, Prepare(w), row' # row
        PROVE  Unsent(o)' /\ NoEffect(o)'
    BY <1>1, <2>1, <2>3 DEF Prepare, Onward, Unsent, NoEffect, IInv, Typed, None, NoRow
  <2>4. ASSUME NEW w \in Worker, Op(w) = o, Record(w)
        PROVE  Unsent(o)' /\ NoEffect(o)'
    BY <2>4 DEF Record, Transition, Unsent, NoEffect, IInv, Typed, None, Backed, At, Op
  <2>5. ASSUME NEW w \in Worker, Op(w) = o, Settle(w)
        PROVE  Unsent(o)' /\ NoEffect(o)'
    <3>1. Backed(w) /\ ~At(w, "idle") /\ At(w, "settle")
      BY <2>5 DEF IInv, Settle, At
    <3>2. row'[o].state = job[w].to /\ row[o].state = job[w].seen.state
      BY <2>5 DEF Settle, Transition, SettlesFrom, IInv, Typed
    <3>3. row'[o].state \in Final
      BY <3>1, <3>2 DEF Backed
    <3>4. row'[o].state = "NOT_EXECUTED" => Passed(o) \/ (o \notin effects /\ ~OnItsWay(o))
      BY <1>1, <2>5, <3>1, <3>2 DEF Backed, Reliable, Unsent
    <3> QED
      BY <1>1, <2>1, <3>3, <3>4 DEF Unsent, NoEffect, Onward, Final, Settled, None, Passed
  <2>6. \/ row'[o].state = row[o].state
        \/ \E w \in Worker : /\ Op(w) = o
                             /\ (Prepare(w) /\ row' # row) \/ Record(w) \/ Settle(w)
    BY <1>3, Writes DEF Prepare, Claim, Record, Settle, Transition, IInv, Typed
  <2> QED
    BY <2>2, <2>3, <2>4, <2>5, <2>6
<1> QED
  BY <1>2, <1>3

\* What a step does to the charges: one Commit, of the request that was read.
LEMMA NewCharge ==
  ASSUME IInv, [Next]_vars, NEW o \in Intent, life'[o] = "SPENT", life[o] # "SPENT"
  PROVE  \E w \in Worker : Commit(w) /\ Op(w) = o /\ job[w].seen.request = "COMMITTED"
<1>1. PICK w \in Worker : Commit(w) /\ Op(w) = o
  BY DEF Next, Steps, vars, Execute, Recover, Admit, TurnedDown, Prepare, Reread, Ends,
       Check, Resume, Claim, CallAccepted, CallRejected, CallFails, Record, Commit, Refused,
       Settle, Conflict, Crash, PermitEnds, ArrivesLate, OthersAppend, Promise, Spend,
       Close, End, Ended, bookVars, IInv, Typed
<1>2. job[w].seen.request = "COMMITTED"
  BY <1>1 DEF Commit, Close, bookVars, IInv, Typed
<1> QED
  BY <1>1, <1>2

LEMMA ChargesTell ==
  ASSUME IInv, [Next]_vars, NEW o \in Intent
  PROVE  Charged(o)'
<1>1. Onward(o) /\ Charged(o)
  BY StepOnward DEF IInv
<1>2. ASSUME life'[o] = "SPENT", life[o] # "SPENT" PROVE Charged(o)'
  <2>1. PICK w \in Worker : Commit(w) /\ Op(w) = o /\ job[w].seen.request = "COMMITTED"
    BY <1>2, NewCharge
  <2>2. Reliable(o, job[w].seen)
    BY <2>1 DEF Commit, IInv, Backed, At
  <2> QED
    BY <1>1, <2>1, <2>2 DEF Reliable, Charged, Onward
<1> QED
  BY <1>1, <1>2 DEF Charged, Onward

-----------------------------------------------------------------------------
(* Workers *)

\* What backs a write still backs it after the steps of others.
LEMMA StillBacked ==
  ASSUME IInv, Typed', [Next]_vars, NEW w \in Worker, job'[w] = job[w]
  PROVE  Backed(w)'
<1>1. CASE At(w, "idle")
  BY <1>1 DEF Backed, At
<1>2. CASE ~At(w, "idle")
  <2>1. /\ Op(w) \in Intent /\ Backed(w) /\ job[w].seen \in Rows \cup {NoRow}
        /\ head \in Nat /\ head' \in Nat
    BY <1>2 DEF IInv, Typed, Jobs, Backed
  <2>2. Onward(Op(w))
    BY <2>1, StepOnward DEF IInv
  <2>3. Reliable(Op(w), job[w].seen)
    BY <1>2, <2>1 DEF Backed
  <2>4. Reliable(Op(w), job[w].seen)'
    BY <2>1, <2>2, <2>3, StillReliable DEF IInv, Reliable, Op
  <2> QED
    BY <1>2, <2>1, <2>2, <2>4, BridgeAssumption DEF Backed, Onward, At, Op, Typed
<1> QED
  BY <1>1, <1>2

\* A call that goes on with the operation and the row it has.
LEMMA GoesOn ==
  ASSUME IInv, Typed', [Next]_vars, NEW w \in Worker, ~At(w, "idle"),
         job'[w].op = job[w].op, job'[w].seen = job[w].seen
  PROVE  /\ Op(w) \in Intent /\ Expect[Op(w)] <= head' /\ Reliable(Op(w), job[w].seen)'
         /\ Onward(Op(w)) /\ Op(w)' = Op(w)
<1>1. /\ Op(w) \in Intent /\ Backed(w) /\ job[w].seen \in Rows \cup {NoRow}
      /\ head \in Nat /\ head' \in Nat
  BY DEF IInv, Typed, Jobs, Backed
<1>2. Onward(Op(w)) /\ Reliable(Op(w), job[w].seen)
  BY <1>1, StepOnward DEF IInv, Backed
<1>3. Reliable(Op(w), job[w].seen)' 
  BY <1>1, <1>2, StillReliable DEF IInv, Reliable, Op
<1> QED
  BY <1>1, <1>2, <1>3, BridgeAssumption DEF Backed, Onward, Op, Typed

LEMMA WorkersBacked ==
  ASSUME IInv, Typed', [Next]_vars, NEW w \in Worker
  PROVE  Backed(w)'
<1> USE BridgeAssumption
<1>1. CASE job'[w] = job[w]
  BY <1>1, StillBacked
<1>2. ASSUME Returns(w) PROVE Backed(w)'
  BY <1>2 DEF Returns, NoJob, Backed, At, IInv, Typed
<1>3. ASSUME NEW o \in Intent, Execute(w, o) \/ Recover(w, o) PROVE Backed(w)'
  <2>1. job'[w].op = o /\ job'[w].seen = row[o] /\ job'[w].pc \in {"admit", "drive"}
    <3>1. CASE Execute(w, o)
      <4>1. job'[w] = [NoJob EXCEPT !.pc = IF row[o] = NoRow THEN "admit" ELSE "drive",
                                    !.op = o, !.seen = row[o]]
        BY <3>1 DEF Execute, IInv, Typed
      <4> QED
        BY <4>1 DEF NoJob
    <3>2. CASE Recover(w, o)
      <4>1. job'[w] = [NoJob EXCEPT !.pc = "drive", !.op = o, !.recovery = TRUE,
                                    !.seen = row[o]]
        BY <3>2 DEF Recover, IInv, Typed
      <4> QED
        BY <4>1 DEF NoJob
    <3> QED
      BY <1>3, <3>1, <3>2
  <2>2. Reliable(o, row[o])' /\ row' = row
    BY <1>3, RowsReliable DEF Execute, Recover, outside
  <2>3. Expect[o] <= head' 
    BY <1>3 DEF Execute, Recover, outside, IInv, Reliable
  <2> QED
    BY <2>1, <2>2, <2>3 DEF Backed, Reliable, At, Op
<1>4. ASSUME ~At(w, "idle"), job'[w].op = job[w].op, job'[w].seen = job[w].seen,
             job'[w].pc \notin {"idle", "record", "settle"}
      PROVE  Backed(w)'
  BY <1>4, GoesOn DEF Backed, Reliable, At, Op
<1>5. ASSUME Reread(w) PROVE Backed(w)'
  <2>1. job'[w].op = Op(w) /\ job'[w].seen = row[Op(w)] /\ job'[w].pc \in {"drive", "finalize"}
    BY <1>5 DEF Reread, IInv, Typed, Jobs, Op
  <2>2. Op(w) \in Intent /\ Expect[Op(w)] <= head
    BY <1>5 DEF Reread, IInv, Backed, At
  <2>3. Reliable(Op(w), row[Op(w)]) /\ head' = head /\ effects' = effects /\ life' = life
    BY <1>5, <2>2 DEF Reread, IInv, outside
  <2> QED
    BY <2>1, <2>2, <2>3 DEF Backed, Reliable, Passed, At, Op
<1>6. ASSUME Claim(w) PROVE Backed(w)'
  <2>1. job'[w].op = Op(w) /\ job'[w].seen = NoRow /\ job'[w].pc = "call"
    BY <1>6 DEF Claim, IInv, Typed, Jobs, Op
  <2>2. Op(w) \in Intent /\ Expect[Op(w)] <= head
    BY <1>6 DEF Claim, IInv, Backed, At
  <2>3. head' = head
    BY <1>6 DEF Claim, outside
  <2> QED
    BY <2>1, <2>2, <2>3 DEF Backed, Reliable, At, Op, NoRow, None
<1>7. ASSUME CallAccepted(w) \/ CallRejected(w) \/ CallFails(w) PROVE Backed(w)'
  <2>1. /\ ~At(w, "idle") /\ job'[w].op = job[w].op /\ job'[w].seen = job[w].seen
        /\ job'[w].pc = "record"
    BY <1>7 DEF CallAccepted, CallRejected, CallFails, Answers, At, IInv, Typed, Jobs
  <2>2. job'[w].to \in {"DOWNSTREAM_COMMITTED", "DOWNSTREAM_REJECTED", "AMBIGUOUS",
                        "RECONCILIATION_REQUIRED"}
    BY <1>7 DEF CallAccepted, CallRejected, CallFails, Answers, IInv, Typed, Jobs
  <2>3. ASSUME job'[w].to = "DOWNSTREAM_COMMITTED" PROVE Op(w) \in effects'
    BY <1>7, <2>3 DEF CallAccepted, CallRejected, CallFails, Answers, Appends, IInv, Typed, Jobs
  <2>4. ASSUME job'[w].to = "DOWNSTREAM_REJECTED" PROVE Passed(Op(w))'
    <3>1. CallRejected(w)
      BY <1>7, <2>4 DEF CallAccepted, CallFails, Answers, IInv, Typed, Jobs
    <3>2. Op(w) \in Intent /\ Expect[Op(w)] <= head /\ head \in Nat
      BY <2>1 DEF IInv, Backed, Typed
    <3> QED
      BY <2>1, <3>1, <3>2 DEF CallRejected, Rejects, Accepts, Passed, Op
  <2> QED
    BY <2>1, <2>2, <2>3, <2>4, GoesOn DEF Backed, Reliable, At, Op, Passed
<1>8. ASSUME ~At(w, "idle"), NEW to \in Final,
             job' = [job EXCEPT ![w].pc = "settle", ![w].to = to],
             to = "LOCAL_COMMITTED"
               => job[w].seen.state = "DOWNSTREAM_COMMITTED" /\ life'[Op(w)] = "SPENT",
             to = "NOT_EXECUTED"
               => job[w].seen.state \in {"PREPARED", "DOWNSTREAM_REJECTED"}
      PROVE  Backed(w)'
  <2>1. /\ job'[w].op = job[w].op /\ job'[w].seen = job[w].seen
        /\ job'[w].pc = "settle" /\ job'[w].to = to
    BY <1>8 DEF IInv, Typed, Jobs
  <2> QED
    BY <1>8, <2>1, GoesOn DEF Backed, Reliable, At, Op
<1>9. ASSUME Check(w), job'[w] # job[w] PROVE Backed(w)'
  <2>1. CASE Goes(w, "claim")
    BY <1>4, <1>9, <2>1 DEF Check, Goes, At, IInv, Typed, Jobs
  <2>2. CASE ~Goes(w, "claim")
    BY <1>8, <1>9, <2>2 DEF Check, Abandoned, Final, Settled, At
  <2> QED
    BY <2>1, <2>2
<1>10. ASSUME Record(w) PROVE Backed(w)'
  BY <1>2, <1>4, <1>10 DEF Record, At, IInv, Typed, Jobs
<1>11. ASSUME Commit(w) PROVE Backed(w)'
  <2>1. Op(w) \in Intent /\ Reliable(Op(w), job[w].seen)
    BY <1>11 DEF Commit, IInv, Backed, At
  <2>2. job[w].seen.state = "DOWNSTREAM_COMMITTED" => life'[Op(w)] = "SPENT"
    BY <1>11, <2>1 DEF Commit, Reliable, Spend, bookVars, IInv, Typed
  <2> QED
    BY <1>8, <1>11, <2>2 DEF Commit, Settles, EndOf, Final, Settled, At
<1>12. ASSUME Refused(w) PROVE Backed(w)'
  BY <1>2, <1>8, <1>12 DEF Refused, Settles, RefusedTo, Final, Settled, At, None
<1>13. ASSUME Admit(w) \/ Prepare(w) \/ Resume(w) PROVE Backed(w)'
  BY <1>4, <1>13 DEF Admit, Prepare, Resume, Goes, At, IInv, Typed, Jobs
<1>14. ASSUME Steps(w) \/ Crash(w) PROVE Backed(w)'
  BY <1>1, <1>2, <1>5, <1>6, <1>7, <1>9, <1>10, <1>11, <1>12, <1>13, <1>14
  DEF Steps, Crash, TurnedDown, Ends, Settle, Conflict
<1>15. ASSUME NEW v \in Worker, v # w,
              Steps(v) \/ Crash(v) \/ \E o \in Intent : Execute(v, o) \/ Recover(v, o)
       PROVE  Backed(w)'
  <2>1. job'[w] = job[w]
    BY <1>15 DEF Steps, Crash, Execute, Recover, Admit, TurnedDown, Prepare, Reread, Ends,
         Check, Resume, Claim, CallAccepted, CallRejected, CallFails, Record, Commit, Refused,
         Settle, Conflict, Goes, Returns, Answers, Settles, IInv, Typed
  <2> QED
    BY <1>1, <2>1
<1>16. ASSUME job' = job PROVE Backed(w)'
  BY <1>1, <1>16
<1> QED
  BY <1>3, <1>14, <1>15, <1>16 DEF Next, vars, PermitEnds, ArrivesLate, OthersAppend

-----------------------------------------------------------------------------
(* The theorems *)

LEMMA InitSound == Init => IInv
<1> SUFFICES ASSUME Init PROVE IInv
  OBVIOUS
<1>1. Typed
  BY InitTyped
<1>2. \A o \in Intent : row[o] = NoRow /\ life[o] = "NONE" /\ o \notin effects /\ ~OnItsWay(o)
  BY DEF Init, BookInit, OnItsWay, At, NoJob
<1>3. \A w \in Worker : At(w, "idle")
  BY DEF Init, At, NoJob
<1> QED
  BY <1>1, <1>2, <1>3
  DEF IInv, Reliable, Unsent, NoEffect, Charged, Backed, NoRow, None

\* What a step keeps of the records.
LEMMA StepSound == IInv /\ [Next]_vars => IInv'
<1> SUFFICES ASSUME IInv, [Next]_vars PROVE IInv'
  OBVIOUS
<1>1. Typed'
  BY TypedStep DEF IInv
<1>2. \A o \in Intent : Reliable(o, row[o])'
  BY <1>1, RowsReliable
<1>3. \A o \in Intent : Unsent(o)' /\ NoEffect(o)' /\ Charged(o)'
  BY RequestsTell, ChargesTell
<1>4. \A w \in Worker : Backed(w)'
  BY <1>1, WorkersBacked
<1> QED
  BY <1>1, <1>2, <1>3, <1>4 DEF IInv

\* The inductive invariant, for any workers, operations, heads and crashes: what a
\* worker has read stays reliable, and what it writes is backed by it.
THEOREM Soundness == Spec => []IInv
BY InitSound, StepSound, PTL DEF Spec

\* Every variable keeps its type, and an answered row its execution request.
THEOREM BridgeTypes == Spec => []TypeOK
<1>1. IInv => TypeOK
  BY DEF IInv, TypeOK, Reliable
<1> QED
  BY <1>1, Soundness, PTL

\* LOCAL_COMMITTED tells of an effect that took place and was charged, however many
\* workers drive the row.
THEOREM Committed == Spec => []CommittedTells
<1>1. IInv => CommittedTells
  BY DEF IInv, CommittedTells, Reliable
<1> QED
  BY <1>1, Soundness, PTL

\* NOT_EXECUTED tells that there was no effect and that none is to come.
THEOREM NotExecuted == Spec => []NotExecutedTells
<1>1. IInv => NotExecutedTells
  BY DEF IInv, NotExecutedTells, NoEffect
<1> QED
  BY <1>1, Soundness, PTL

\* The ledger is charged for effects only.
THEOREM Debits == Spec => []DebitsFollowEffects
<1>1. IInv => DebitsFollowEffects
  BY DEF IInv, DebitsFollowEffects, Charged
<1> QED
  BY <1>1, Soundness, PTL

-----------------------------------------------------------------------------
(* One worker at a time *)

OneWorker == \A v, w \in Worker : v = w

\* The row is as the worker last saw it, and stands where the call stands.
Aligned(w) ==
  LET o == Op(w)
      seen == job[w].seen
  IN /\ job[w].pc \in {"drive", "claim", "finalize", "settle"} => seen = row[o]
     /\ At(w, "claim") => seen.state \in {"PREPARED", "CALLING", "AMBIGUOUS"}
     /\ job[w].pc \in {"call", "record"} => row[o].state = "CALLING"
     /\ At(w, "reread") => row[o].state \in Answered
     /\ At(w, "finalize") => seen.state \in Answered
     /\ At(w, "settle") =>
          /\ seen.state \notin Final
          /\ job[w].to = "LOCAL_FAILED" => seen.state = "DOWNSTREAM_REJECTED"
          /\ job[w].to = "RECONCILIATION_REQUIRED" => life[o] # "SPENT"

\* A charge belongs to a receipt, and a failed operation can no longer take effect.
Concluded(o) ==
  /\ life[o] = "SPENT" => row[o].state \in {"DOWNSTREAM_COMMITTED", "LOCAL_COMMITTED"}
  /\ row[o].state = "LOCAL_FAILED" => Passed(o)

AInv ==
  /\ \A w \in Worker : Aligned(w)
  /\ \A o \in Intent : Concluded(o)

-----------------------------------------------------------------------------
(* The invariant of one worker *)

LEMMA InitAligned == Init => AInv
BY DEF Init, BookInit, AInv, Aligned, Concluded, NoJob, NoRow, None, At

LEMMA ConcludedStep ==
  ASSUME IInv, AInv, [Next]_vars, NEW o \in Intent
  PROVE  Concluded(o)'
<1>1. Onward(o) /\ Concluded(o) /\ Reliable(o, row[o])
  BY StepOnward DEF IInv, AInv
<1>2. ASSUME life'[o] = "SPENT", life[o] # "SPENT" PROVE Concluded(o)'
  <2>1. PICK w \in Worker : Commit(w) /\ Op(w) = o /\ job[w].seen.request = "COMMITTED"
    BY <1>2, NewCharge
  <2>2. row' = row /\ job[w].seen = row[o] /\ row[o].state \in Answered
    BY <2>1 DEF Commit, AInv, Aligned, At
  <2>3. row[o].state = "DOWNSTREAM_COMMITTED"
    BY <1>1, <2>1, <2>2 DEF Reliable, Answered
  <2> QED
    BY <2>2, <2>3 DEF Concluded
<1>3. ASSUME life'[o] = "SPENT" => life[o] = "SPENT", row'[o] = row[o] PROVE Concluded(o)'
  BY <1>1, <1>3 DEF Concluded, Onward
<1>4. ASSUME NEW w \in Worker, Op(w) = o, Prepare(w) \/ Claim(w) \/ Record(w) \/ Settle(w),
             row'[o] # row[o]
      PROVE  Concluded(o)'
  <2>1. life' = life
    BY <1>4 DEF Prepare, Claim, Record, Settle
  <2>2. CASE Prepare(w)
    BY <1>1, <1>4, <2>1, <2>2 DEF Prepare, Concluded, IInv, Typed, NoRow, None
  <2>3. CASE Claim(w)
    BY <1>1, <1>4, <2>1, <2>3 DEF Claim, Transition, Callable, Unknown, Concluded, IInv, Typed
  <2>4. CASE Record(w)
    BY <1>1, <1>4, <2>1, <2>4
    DEF Record, Transition, Concluded, Backed, At, IInv, Typed
  <2>5. CASE Settle(w)
    <3>1. /\ row'[o].state = job[w].to /\ row[o] = job[w].seen /\ job[w].to \in Final
          /\ job[w].seen.state \notin Final
          /\ job[w].to = "LOCAL_FAILED" => job[w].seen.state = "DOWNSTREAM_REJECTED"
          /\ job[w].to = "RECONCILIATION_REQUIRED" => life[o] # "SPENT"
          /\ job[w].to = "NOT_EXECUTED"
               => job[w].seen.state \in {"PREPARED", "DOWNSTREAM_REJECTED"}
      BY <1>4, <2>5 DEF Settle, Transition, AInv, Aligned, IInv, Backed, At, Typed
    <3> QED
      BY <1>1, <2>1, <3>1 DEF Concluded, Reliable, Onward, Final, Settled
  <2> QED
    BY <1>4, <2>2, <2>3, <2>4, <2>5
<1>5. \/ row'[o] = row[o]
      \/ \E w \in Worker : o = Op(w) /\ (Prepare(w) \/ Claim(w) \/ Record(w) \/ Settle(w))
  BY Writes DEF Prepare, Claim, Record, Settle, Transition, IInv, Typed
<1> QED
  BY <1>2, <1>3, <1>4, <1>5

LEMMA AlignedStep ==
  ASSUME OneWorker, IInv, AInv, [Next]_vars, NEW w \in Worker
  PROVE  Aligned(w)'
<1>1. Aligned(w) /\ \A v \in Worker : v = w
  BY DEF AInv, OneWorker
<1>2. ASSUME Returns(w) PROVE Aligned(w)'
  BY <1>2 DEF Returns, NoJob, Aligned, At, IInv, Typed
<1>3. ASSUME NEW o \in Intent, Execute(w, o) \/ Recover(w, o) PROVE Aligned(w)'
  <2>1. job'[w].op = o /\ job'[w].seen = row[o] /\ job'[w].pc \in {"admit", "drive"}
    <3>1. CASE Execute(w, o)
      <4>1. job'[w] = [NoJob EXCEPT !.pc = IF row[o] = NoRow THEN "admit" ELSE "drive",
                                    !.op = o, !.seen = row[o]]
        BY <3>1 DEF Execute, IInv, Typed
      <4> QED
        BY <4>1 DEF NoJob
    <3>2. CASE Recover(w, o)
      <4>1. job'[w] = [NoJob EXCEPT !.pc = "drive", !.op = o, !.recovery = TRUE,
                                    !.seen = row[o]]
        BY <3>2 DEF Recover, IInv, Typed
      <4> QED
        BY <4>1 DEF NoJob
    <3> QED
      BY <1>3, <3>1, <3>2
  <2> QED
    BY <1>3, <2>1 DEF Execute, Recover, Aligned, At, Op
<1>4. CASE Admit(w) \/ Prepare(w)
  BY <1>4 DEF Admit, Prepare, Goes, Aligned, At, IInv, Typed, Jobs
<1>5. CASE Reread(w)
  <2>1. job'[w].op = Op(w) /\ job'[w].seen = row[Op(w)] /\ row' = row
    BY <1>5 DEF Reread, IInv, Typed, Jobs, Op
  <2>2. job'[w].pc = IF At(w, "load") THEN "drive" ELSE "finalize"
    BY <1>5 DEF Reread, IInv, Typed, Jobs
  <2>3. At(w, "load") \/ row[Op(w)].state \in Answered
    BY <1>1, <1>5 DEF Reread, Aligned, At
  <2> QED
    BY <2>1, <2>2, <2>3 DEF Aligned, At, Op
<1>6. CASE Check(w) \/ Resume(w)
  <2>1. /\ job'[w].op = job[w].op /\ job'[w].seen = job[w].seen /\ row' = row /\ life' = life
        /\ job[w].seen = row[Op(w)]
    BY <1>1, <1>6 DEF Check, Resume, Goes, Aligned, At, IInv, Typed, Jobs
  <2>2. CASE Resume(w)
    BY <2>1, <2>2 DEF Resume, Goes, Aligned, At, Op, IInv, Typed, Jobs
  <2>3. CASE Check(w) /\ Goes(w, "claim")
    BY <2>1, <2>3 DEF Check, Goes, Unknown, Aligned, At, Op, IInv, Typed, Jobs
  <2>4. CASE Check(w) /\ ~Goes(w, "claim")
    <3>1. job'[w].pc = "settle" /\ job'[w].to = Abandoned(job[w].seen.state)
      BY <2>4 DEF Check, IInv, Typed, Jobs
    <3>2. job[w].seen.state \in {"PREPARED", "CALLING", "AMBIGUOUS"} /\ Op(w) \in Intent
      BY <2>4 DEF Check, Unknown, IInv, Typed, WellFormed, At, Op
    <3>3. life[Op(w)] # "SPENT"
      BY <2>1, <3>2 DEF AInv, Concluded
    <3> QED
      BY <2>1, <3>1, <3>2, <3>3 DEF Aligned, At, Op, Abandoned, Final, Settled
  <2> QED
    BY <1>6, <2>2, <2>3, <2>4
<1>7. CASE Claim(w)
  <2>1. job'[w].op = Op(w) /\ job'[w].pc = "call" /\ Op(w) \in Intent
    BY <1>7 DEF Claim, IInv, Typed, WellFormed, At, Jobs, Op
  <2>2. row'[Op(w)].state = "CALLING"
    BY <1>7, <2>1 DEF Claim, Transition, IInv, Typed
  <2> QED
    BY <2>1, <2>2 DEF Aligned, At, Op
<1>8. CASE CallAccepted(w) \/ CallRejected(w) \/ CallFails(w)
  <2>1. job'[w].op = job[w].op /\ job'[w].pc = "record" /\ row' = row /\ At(w, "call")
    BY <1>8 DEF CallAccepted, CallRejected, CallFails, Answers, IInv, Typed, Jobs
  <2> QED
    BY <1>1, <2>1 DEF Aligned, At, Op
<1>9. CASE Record(w) /\ ~Returns(w)
  <2>1. /\ job'[w].op = Op(w) /\ job'[w].pc = "reread" /\ Op(w) \in Intent
        /\ job[w].to \in Answered
    BY <1>9 DEF Record, IInv, Typed, WellFormed, At, Jobs, Op
  <2>2. row'[Op(w)].state = job[w].to
    BY <1>9, <2>1 DEF Record, Transition, IInv, Typed
  <2> QED
    BY <2>1, <2>2 DEF Aligned, At, Op
<1>10. ASSUME job' = [job EXCEPT ![w].pc = "settle", ![w].to = job'[w].to], At(w, "finalize"),
              row' = row,
              job'[w].to = "LOCAL_FAILED" => job[w].seen.state = "DOWNSTREAM_REJECTED",
              job'[w].to = "RECONCILIATION_REQUIRED" => life'[Op(w)] # "SPENT"
       PROVE  Aligned(w)'
  <2>1. job'[w].op = job[w].op /\ job'[w].seen = job[w].seen /\ job'[w].pc = "settle"
    BY <1>10 DEF IInv, Typed, Jobs
  <2>2. job[w].seen = row[Op(w)] /\ job[w].seen.state \in Answered
    BY <1>1, <1>10 DEF Aligned, At
  <2> QED
    BY <1>10, <2>1, <2>2 DEF Aligned, At, Op, Answered, Final, Settled
<1>11. CASE Commit(w)
  <2>1. job' = [job EXCEPT ![w].pc = "settle", ![w].to = EndOf(job[w].seen.state)]
    BY <1>11 DEF Commit, Settles
  <2>2. job'[w].to = EndOf(job[w].seen.state)
    BY <2>1 DEF IInv, Typed, Jobs
  <2>3. job[w].seen.state \in Answered /\ At(w, "finalize") /\ row' = row
    BY <1>1, <1>11 DEF Commit, Aligned, At
  <2>4. job'[w].to = "LOCAL_FAILED" => job[w].seen.state = "DOWNSTREAM_REJECTED"
    BY <2>2, <2>3 DEF EndOf, Answered
  <2>5. job'[w].to # "RECONCILIATION_REQUIRED"
    BY <2>2 DEF EndOf
  <2>6. job' = [job EXCEPT ![w].pc = "settle", ![w].to = job'[w].to]
    BY <2>1, <2>2
  <2> QED
    BY <1>10, <2>3, <2>4, <2>5, <2>6
<1>12. CASE Refused(w) /\ ~Returns(w)
  <2> DEFINE to == RefusedTo(job[w].seen.state, life[Op(w)] # "LIVE")
  <2>1. job' = [job EXCEPT ![w].pc = "settle", ![w].to = to] /\ At(w, "finalize")
        /\ row' = row /\ life' = life /\ Op(w) \in Intent
    BY <1>12 DEF Refused, Settles, IInv, Typed, WellFormed, At, Op
  <2>2. job'[w].to = to
    BY <2>1 DEF IInv, Typed, Jobs
  <2>3. job[w].seen.state \in Answered /\ Reliable(Op(w), job[w].seen)
    BY <1>1, <2>1 DEF Aligned, At, IInv, Backed
  <2>4. to = "RECONCILIATION_REQUIRED" => job[w].seen.request = "COMMITTED"
    <3>1. to = "RECONCILIATION_REQUIRED" => job[w].seen.state = "DOWNSTREAM_COMMITTED"
      BY DEF RefusedTo, None
    <3> QED
      BY <2>3, <3>1 DEF Reliable
  <2>5. to = "RECONCILIATION_REQUIRED" => life[Op(w)] # "SPENT"
    BY <1>12, <2>4 DEF Refused, None
  <2>6. to # "LOCAL_FAILED"
    BY DEF RefusedTo, None
  <2> QED
    BY <1>10, <2>1, <2>2, <2>5, <2>6
<1>13. CASE Steps(w) \/ Crash(w)
  BY <1>2, <1>4, <1>5, <1>6, <1>7, <1>8, <1>9, <1>11, <1>12, <1>13
  DEF Steps, Crash, TurnedDown, Ends, Settle, Conflict
<1>14. ASSUME job' = job, row' = row, \A o \in Intent : life'[o] = "SPENT" => life[o] = "SPENT"
       PROVE  Aligned(w)'
  <2>1. At(w, "idle") \/ Op(w) \in Intent
    BY DEF IInv, Typed, WellFormed, At, Op
  <2> QED
    BY <1>1, <1>14, <2>1 DEF Aligned, At, Op
<1>15. ASSUME NEW p \in Intent, PermitEnds(p) PROVE Aligned(w)'
  BY <1>14, <1>15 DEF PermitEnds, End, Ended, IInv, Typed
<1>16. ASSUME NEW p \in Intent, ArrivesLate(p) PROVE Aligned(w)'
  BY <1>14, <1>16 DEF ArrivesLate
<1>17. CASE OthersAppend \/ UNCHANGED vars
  BY <1>14, <1>17 DEF OthersAppend, vars
<1> QED
  BY <1>1, <1>3, <1>13, <1>15, <1>16, <1>17 DEF Next

-----------------------------------------------------------------------------
(* Steps of the bridge are steps of the promise *)

Verdicts == [o \in Intent |-> VerdictOf(o)]
Charges == {o \in Intent : life[o] = "SPENT"}

LEMMA QuietStep ==
  ASSUME row' = row, effects' = effects, Charges' = Charges
  PROVE  UNCHANGED <<Verdicts, effects, Charges>>
BY DEF Verdicts, VerdictOf

\* An effect is that of a row that is open or handed over: the other verdicts
\* exclude that a request could still be accepted.
LEMMA EffectStep ==
  ASSUME IInv, AInv, NEW o \in Intent, OnItsWay(o), Appends(o), row' = row, life' = life
  PROVE  Promised!TakeEffect(o) \/ UNCHANGED <<Verdicts, effects, Charges>>
<1>1. UNCHANGED <<Verdicts, Charges>>
  BY DEF Verdicts, VerdictOf, Charges
<1>2. CASE o \in effects
  BY <1>1, <1>2 DEF Appends
<1>3. CASE o \notin effects
  <2>1. head = Expect[o] /\ effects' = effects \cup {o} /\ head \in Nat
    BY <1>3 DEF Appends, Accepts, IInv, Typed
  <2>2. Reliable(o, row[o]) /\ NoEffect(o) /\ Concluded(o)
    BY DEF IInv, AInv
  <2>3. row[o].state \notin {"LOCAL_COMMITTED", "LOCAL_FAILED", "NOT_EXECUTED"}
    BY <1>3, <2>1, <2>2 DEF Reliable, NoEffect, Concluded, Passed
  <2>4. VerdictOf(o) \in {"OPEN", "HANDED_OVER"}
    BY <2>3 DEF VerdictOf
  <2> QED
    BY <1>1, <1>3, <2>1, <2>4 DEF Promised!TakeEffect, Verdicts, Charges
<1> QED
  BY <1>2, <1>3

\* A charge is the debit of a row that is open and whose effect took place.
LEMMA CommitStep ==
  ASSUME IInv, AInv, NEW w \in Worker, NEW o \in Intent, Op(w) = o, Commit(w)
  PROVE  Promised!Debit(o) \/ UNCHANGED <<Verdicts, effects, Charges>>
<1>1. /\ row' = row /\ effects' = effects
      /\ Reliable(o, job[w].seen) /\ job[w].seen = row[o] /\ row[o].state \in Answered
  BY DEF Commit, outside, IInv, Backed, AInv, Aligned, At
<1>2. UNCHANGED <<Verdicts, effects>>
  BY <1>1 DEF Verdicts, VerdictOf
<1>3. CASE job[w].seen.request = "COMMITTED" /\ Spend(o)
  <2>1. o \in effects
    BY <1>1, <1>3 DEF Reliable
  <2>2. VerdictOf(o) = "OPEN"
    BY <1>1 DEF VerdictOf, Answered
  <2>3. o \notin Charges /\ Charges' = Charges \cup {o}
    BY <1>1, <1>3 DEF Charges, Spend, IInv, Typed
  <2> QED
    BY <1>1, <1>2, <2>1, <2>2, <2>3 DEF Promised!Debit, Verdicts, Charges
<1>4. CASE Close(o) \/ UNCHANGED bookVars
  <2>1. Charges' = Charges
    BY <1>1, <1>4 DEF Charges, Close, bookVars, IInv, Typed
  <2> QED
    BY <1>2, <2>1
<1> QED
  BY <1>3, <1>4 DEF Commit

\* A write to the row concludes it, or leaves it open.
LEMMA RowStep ==
  ASSUME IInv, AInv, NEW w \in Worker, NEW o \in Intent, Op(w) = o,
         Prepare(w) \/ Claim(w) \/ Record(w) \/ Settle(w)
  PROVE  \/ \E v \in {"COMMITTED", "FAILED", "NOT_EXECUTED", "HANDED_OVER"} :
              Promised!Conclude(o, v)
         \/ UNCHANGED <<Verdicts, effects, Charges>>
<1> DEFINE Names == {"COMMITTED", "FAILED", "NOT_EXECUTED", "HANDED_OVER"}
<1>1. /\ UNCHANGED <<life, effects>> /\ Charges' = Charges
      /\ Reliable(o, row[o]) /\ Concluded(o) /\ Aligned(w) /\ Backed(w)
      /\ \A p \in Intent \ {o} : row'[p] = row[p]
  BY DEF Prepare, Claim, Record, Settle, Transition, outside, IInv, Typed, WellFormed, At, Op,
         Charges, AInv
<1>2. ASSUME VerdictOf(o)' = VerdictOf(o) PROVE UNCHANGED <<Verdicts, effects, Charges>>
  BY <1>1, <1>2 DEF Verdicts, VerdictOf
<1>3. ASSUME VerdictOf(o) = "OPEN", VerdictOf(o)' \in Names,
             VerdictOf(o)' = "COMMITTED" => o \in Charges,
             VerdictOf(o)' \in {"FAILED", "NOT_EXECUTED"} => o \notin effects,
             VerdictOf(o)' = "HANDED_OVER" => o \notin Charges
      PROVE  \E v \in Names : Promised!Conclude(o, v)
  <2>1. \A p \in Intent \ {o} : VerdictOf(p)' = VerdictOf(p)
    BY <1>1 DEF VerdictOf
  <2>2. Verdicts' = [Verdicts EXCEPT ![o] = VerdictOf(o)']
    BY <1>1, <2>1 DEF Verdicts
  <2>3. Promised!Conclude(o, VerdictOf(o)')
    BY <1>1, <1>3, <2>2 DEF Promised!Conclude, Verdicts, Charges
  <2> QED
    BY <1>3, <2>3
<1>4. CASE Prepare(w)
  BY <1>1, <1>2, <1>4 DEF Prepare, VerdictOf, NoRow, None, IInv, Typed
<1>5. CASE Claim(w)
  BY <1>1, <1>2, <1>5 DEF Claim, Transition, Callable, Unknown, VerdictOf, IInv, Typed
<1>6. CASE Record(w)
  <2>1. /\ row[o].state = "CALLING" /\ row'[o].state = job[w].to
        /\ job[w].to \in Answered \cup {"AMBIGUOUS", "RECONCILIATION_REQUIRED"}
    BY <1>1, <1>6 DEF Record, Transition, Backed, At, Answered, IInv, Typed
  <2>2. o \notin Charges /\ VerdictOf(o) = "OPEN"
    BY <1>1, <2>1 DEF Concluded, Charges, VerdictOf
  <2>3. CASE job[w].to = "RECONCILIATION_REQUIRED"
    BY <1>3, <2>1, <2>2, <2>3 DEF VerdictOf
  <2>4. CASE job[w].to # "RECONCILIATION_REQUIRED"
    BY <1>2, <2>1, <2>2, <2>4 DEF VerdictOf, Answered
  <2> QED
    BY <2>3, <2>4
<1>7. CASE Settle(w)
  <2>1. /\ row[o] = job[w].seen /\ row'[o].state = job[w].to /\ job[w].to \in Final
        /\ row[o].state \notin Final
        /\ job[w].to = "LOCAL_COMMITTED" => life[o] = "SPENT"
        /\ job[w].to = "LOCAL_FAILED" => row[o].state = "DOWNSTREAM_REJECTED"
        /\ job[w].to = "NOT_EXECUTED" => row[o].state \in {"PREPARED", "DOWNSTREAM_REJECTED"}
        /\ job[w].to = "RECONCILIATION_REQUIRED" => life[o] # "SPENT"
    BY <1>1, <1>7 DEF Settle, Transition, Aligned, Backed, At, IInv, Typed
  <2>2. row[o].state \in {"PREPARED", "DOWNSTREAM_REJECTED"} => o \notin effects
    BY <1>1 DEF Reliable, Passed, Unsent, IInv
  <2>3. VerdictOf(o) = "OPEN" /\ VerdictOf(o)' \in Names
    BY <2>1 DEF VerdictOf, Final, Settled
  <2>4. /\ VerdictOf(o)' = "COMMITTED" => o \in Charges
        /\ VerdictOf(o)' \in {"FAILED", "NOT_EXECUTED"} => o \notin effects
        /\ VerdictOf(o)' = "HANDED_OVER" => o \notin Charges
    BY <1>1, <2>1, <2>2 DEF VerdictOf, Charges
  <2> QED
    BY <1>3, <2>3, <2>4
<1> QED
  BY <1>4, <1>5, <1>6, <1>7

LEMMA PromiseStep ==
  ASSUME IInv, AInv, [Next]_vars
  PROVE  Promised!PromiseNext \/ UNCHANGED <<Verdicts, effects, Charges>>
<1>1. ASSUME NEW w \in Worker, CallAccepted(w)
      PROVE  Promised!PromiseNext \/ UNCHANGED <<Verdicts, effects, Charges>>
  <2>1. Op(w) \in Intent /\ OnItsWay(Op(w)) /\ Appends(Op(w)) /\ row' = row /\ life' = life
    BY <1>1 DEF CallAccepted, IInv, Typed, WellFormed, At, Op, OnItsWay
  <2> QED
    BY <2>1, EffectStep DEF Promised!PromiseNext
<1>2. ASSUME NEW o \in Intent, ArrivesLate(o)
      PROVE  Promised!PromiseNext \/ UNCHANGED <<Verdicts, effects, Charges>>
  <2>1. row' = row /\ life' = life /\ OnItsWay(o)
    BY <1>2 DEF ArrivesLate, OnItsWay
  <2>2. CASE Appends(o)
    <3>1. Promised!TakeEffect(o) \/ UNCHANGED <<Verdicts, effects, Charges>>
      BY <2>1, <2>2, EffectStep
    <3> QED
      BY <3>1 DEF Promised!PromiseNext
  <2>3. CASE Rejects(o)
    BY <2>1, <2>3, QuietStep DEF Rejects, Charges
  <2> QED
    BY <1>2, <2>2, <2>3 DEF ArrivesLate
<1>3. ASSUME NEW w \in Worker, NEW o \in Intent, Op(w) = o, Commit(w)
      PROVE  Promised!PromiseNext \/ UNCHANGED <<Verdicts, effects, Charges>>
  <2>1. Promised!Debit(o) \/ UNCHANGED <<Verdicts, effects, Charges>>
    BY <1>3, CommitStep
  <2> QED
    BY <1>3, <2>1 DEF Promised!PromiseNext
<1>4. ASSUME NEW w \in Worker, NEW o \in Intent, Op(w) = o,
             Prepare(w) \/ Claim(w) \/ Record(w) \/ Settle(w)
      PROVE  Promised!PromiseNext \/ UNCHANGED <<Verdicts, effects, Charges>>
  BY <1>4, RowStep DEF Promised!PromiseNext
<1>5. ASSUME NEW w \in Worker, Admit(w)
      PROVE  UNCHANGED <<Verdicts, effects, Charges>>
  <2>1. Op(w) \in Intent
    BY <1>5 DEF Admit, IInv, Backed, At
  <2>2. Charges' = Charges
    BY <1>5, <2>1 DEF Admit, Promise, Ended, bookVars, Charges, IInv, Typed
  <2> QED
    BY <1>5, <2>2, QuietStep DEF Admit, outside
<1>6. ASSUME NEW o \in Intent, PermitEnds(o)
      PROVE  UNCHANGED <<Verdicts, effects, Charges>>
  <2>1. Charges' = Charges
    BY <1>6 DEF PermitEnds, End, Ended, Live, Charges, IInv, Typed
  <2> QED
    BY <1>6, <2>1, QuietStep DEF PermitEnds, outside
<1>7. ASSUME UNCHANGED <<row, life, effects>>
      PROVE  UNCHANGED <<Verdicts, effects, Charges>>
  BY <1>7, QuietStep DEF Charges
<1>8. ASSUME NEW w \in Worker, Commit(w) \/ Prepare(w) \/ Claim(w) \/ Record(w) \/ Settle(w)
      PROVE  Op(w) \in Intent
  BY <1>8 DEF Commit, Prepare, Claim, Record, Settle, IInv, Backed, At
<1> QED
  BY <1>1, <1>2, <1>3, <1>4, <1>5, <1>6, <1>7, <1>8
  DEF Next, Steps, vars, outside, Execute, Recover, TurnedDown, Reread, Ends, Check, Resume,
      CallRejected, Rejects, CallFails, Refused, Conflict, Crash, OthersAppend

\* One worker keeps the promise of a governed append over crashes, lost answers and
\* late requests: one effect at most, one verdict, and a true one.
THEOREM Refinement ==
  ASSUME OneWorker
  PROVE  Spec => KeepsPromise
<1>1. Init => Promised!PromiseInit
  BY DEF Init, BookInit, Promised!PromiseInit, VerdictOf, NoRow, None
<1>2. IInv /\ AInv /\ [Next]_vars => AInv'
  BY ConcludedStep, AlignedStep DEF AInv
<1>3. IInv /\ AInv /\ [Next]_vars => [Promised!PromiseNext]_(Promised!promiseVars)
  BY PromiseStep DEF Promised!promiseVars, Verdicts, Charges
<1> QED
  BY <1>1, <1>2, <1>3, InitAligned, Soundness, PTL DEF Spec, KeepsPromise, Promised!PromiseSpec
=============================================================================
