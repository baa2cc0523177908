------------------------ MODULE DispatcherRefinement ------------------------
(***************************************************************************)
(* Dispatcher keeps the promise of RecordLifecycle, for every value of the *)
(* constants, and its loop ends only when nothing is left to do.           *)
(*                                                                         *)
(* Both follow from what a step of a task can do to its row: leave the     *)
(* claim as it is, give the row back with one requeue more, settle it or   *)
(* hand it over.                                                           *)
(***************************************************************************)
EXTENDS DispatcherProofs

\* The row is given back, and its requeue is counted.
GivenBack(x, y) ==
    x.requeues < MaxRequeues /\ y.state = "DISCOVERED" /\ y.requeues = x.requeues + 1

\* The row is finished as far as this dispatcher is concerned.
FinishedAs(x, y) ==
    /\ y.state \in {"VALIDATED", "VALIDATION_FAILED", "COST_SKIPPED", "NEEDS_ZUHAL"}
    /\ y.requeues = x.requeues

\* The task goes on, or stops for a reason the loop will see.
ClaimKept(r) ==
    /\ row'[r].state = "VALIDATING" /\ row'[r].requeues = row[r].requeues
    /\ \A q \in Records : q # r => row'[q] = row[q] /\ task'[q] = task[q]
    /\ task'[r].pc # "idle" \/ stop \/ halted'

RowWritten(r) ==
    /\ GivenBack(row[r], row'[r]) \/ FinishedAs(row[r], row'[r])
    /\ \A q \in Records : q # r => row'[q] = row[q] /\ task'[q] = task[q]

\* What a task does to its row.
Outcome(r) == ClaimKept(r) \/ RowWritten(r)

\* A last write is an outcome.
LEMMA FinishOutcome ==
    ASSUME IInv, NEW r \in Records, NEW x, Finish(r, x),
           GivenBack(row[r], x) \/ FinishedAs(row[r], x)
    PROVE  Outcome(r)
BY DEF IInv, TypeOK, Finish, Outcome, RowWritten

\* A requeue, while the budget has room, is an outcome.
LEMMA RequeueOutcome ==
    ASSUME IInv, NEW r \in Records, task[r].pc \notin {"idle", "queued"},
           NEW burn \in BOOLEAN, NEW hold \in BOOLEAN, NEW infra,
           Finish(r, requeue_record(row[r], burn, hold, infra))
    PROVE  Outcome(r)
<1> DEFINE x == requeue_record(row[r], burn, hold, infra)
<1>1. x.state = "DISCOVERED" /\ x.requeues = row[r].requeues + 1 /\ row[r].requeues < MaxRequeues
    BY WorkingTask, RequeueRow
<1> HIDE DEF x
<1>2. GivenBack(row[r], x)
    BY <1>1 DEF GivenBack
<1>3. QED
    BY <1>2, FinishOutcome DEF x

\* So is a change of state to one of the four.
LEMMA StatusOutcome ==
    ASSUME IInv, NEW r \in Records, NEW s \in {"VALIDATION_FAILED", "COST_SKIPPED"},
           Finish(r, update_record_status(row[r], s))
    PROVE  Outcome(r)
<1> DEFINE x == update_record_status(row[r], s)
<1>1. x.state = s /\ SameCounters(row[r], x)
    BY StatusRow DEF IInv, TypeOK, States
<1> HIDE DEF x
<1>2. FinishedAs(row[r], x)
    BY <1>1 DEF FinishedAs, SameCounters
<1>3. QED
    BY <1>2, FinishOutcome DEF x

\* So is a verdict.
LEMMA DualOutcome ==
    ASSUME IInv, NEW r \in Records, NEW s \in {"VALIDATED", "VALIDATION_FAILED"}, NEW verdict,
           NEW addr \in Emails \cup {NoEmail}, NEW delta \in {0, 1}, NEW why \in Reasons,
           Finish(r, update_record_dual(row[r], s, verdict, addr, delta, why))
    PROVE  Outcome(r)
<1> DEFINE x == update_record_dual(row[r], s, verdict, addr, delta, why)
<1>1. row[r] \in Row /\ s \in States /\ delta \in Nat
    BY DEF IInv, TypeOK, States
<1>2. x.state = s /\ x.requeues = row[r].requeues
    BY <1>1, DualRow
<1> HIDE DEF x
<1>3. FinishedAs(row[r], x)
    BY <1>2 DEF FinishedAs
<1>4. QED
    BY <1>3, FinishOutcome DEF x

\* A step that only moves the task is one, too.
LEMMA GoOutcome ==
    ASSUME IInv, NEW r \in Records, task[r].pc # "idle", NEW t, Go(r, t),
           t.pc # "idle" \/ stop \/ halted'
    PROVE  Outcome(r)
BY DEF IInv, TypeOK, TasksOwnClaims, Go, Outcome, ClaimKept

\* A step of a task is one of a task that has begun, and touches nothing else.
LEMMA TaskTouches ==
    ASSUME NEW r \in Records, TaskStep(r)
    PROVE  task[r].pc # "idle" /\ TaskFrame
<1>1. CASE Begin(r) \/ Exhausted(r) \/ MsProbe(r) \/ RunBackends(r)
    BY <1>1 DEF Begin, Exhausted, MsProbe, RunBackends
<1>2. CASE NextCandidate(r)
    BY <1>2 DEF NextCandidate
<1>3. CASE Halt(r) \/ CircuitOpen(r) \/ ZuhalProbe(r) \/ RescueProbe(r) \/ Settle(r)
    BY <1>3 DEF Halt, CircuitOpen, ZuhalProbe, RescueProbe, Settle
<1>4. CASE Fallback(r) \/ inject_harvest_fallback(r) \/ inject_serper_fallback(r)
    BY <1>4 DEF Fallback, inject_harvest_fallback, inject_serper_fallback
<1>5. QED
    BY <1>1, <1>2, <1>3, <1>4 DEF TaskStep

\* _dispatch_record and _load_candidates stop, fail the row or go on with it.
LEMMA BeginOutcome ==
    ASSUME IInv, NEW r \in Records, Begin(r)
    PROVE  Outcome(r)
<1>1. task[r].pc = "queued" /\ row[r] \in Row
    BY DEF Begin, IInv, TypeOK
<1>2. CASE stop /\ Go(r, Idle)
    BY <1>1, <1>2, GoOutcome
<1>3. CASE Finish(r, update_record_status(row[r], "VALIDATION_FAILED"))
    BY <1>3, StatusOutcome
<1>4. CASE \E why \in Reasons : Finish(r, update_record_failed(row[r], why))
  <2>1. PICK why \in Reasons : Finish(r, update_record_failed(row[r], why))
      BY <1>4
  <2>2. FinishedAs(row[r], update_record_failed(row[r], why))
      BY <1>1, FailedRow DEF FinishedAs, SameCounters
  <2>3. QED
      BY <2>1, <2>2, FinishOutcome
<1>5. CASE Go(r, [Idle EXCEPT !.pc = "next", !.cands = Cand[r],
                              !.boundary = Len(Cand[r]), !.serper = row[r].enriched])
  <2> DEFINE t == [Idle EXCEPT !.pc = "next", !.cands = Cand[r],
                               !.boundary = Len(Cand[r]), !.serper = row[r].enriched]
  <2>1. t.pc = "next"
      BY DEF Idle
  <2> HIDE DEF t
  <2>2. QED
      BY <1>1, <1>5, <2>1, GoOutcome DEF t
<1>6. QED
    BY <1>2, <1>3, <1>4, <1>5 DEF Begin, Reasons

\* So do the top of the candidate loop and the Microsoft probe.
LEMMA CandidateOutcome ==
    ASSUME IInv, NEW r \in Records, Exhausted(r) \/ NextCandidate(r) \/ MsProbe(r)
    PROVE  Outcome(r)
<1>1. task[r] \in Task /\ task[r].pc \in {"next", "ms"}
  <2>1. CASE Exhausted(r) \/ MsProbe(r)
      BY <2>1 DEF Exhausted, MsProbe, IInv, TypeOK
  <2>2. CASE NextCandidate(r)
      BY <2>2 DEF NextCandidate, IInv, TypeOK, Task
  <2>3. QED
      BY <2>1, <2>2
<1>2. ASSUME NEW t, Go(r, t), t.pc # "idle"
      PROVE  Outcome(r)
    BY <1>1, <1>2, GoOutcome
<1>3. CASE Exhausted(r)
  <2> DEFINE why == IF task[r].rk = "blocked" THEN "provider_blocked"
                    ELSE IF task[r].real THEN "max_attempts" ELSE "infra_loop"
  <2>1. why \in Reasons
      BY DEF Reasons
  <2>2. Finish(r, update_record_dual(row[r], "VALIDATION_FAILED", "invalid", NoEmail, 1, why))
      BY <1>3 DEF Exhausted
  <2> HIDE DEF why
  <2>3. QED
      BY <2>1, <2>2, DualOutcome
<1>4. CASE NextCandidate(r)
  <2> DEFINE t == [task[r] EXCEPT !.i = @ + 1]
             u == [t EXCEPT !.pc = IF r \in Microsoft THEN "ms" ELSE "smtp"]
  <2>1. Go(r, t) \/ Finish(r, update_record_status(row[r], "COST_SKIPPED")) \/ Go(r, u)
      BY <1>4 DEF NextCandidate
  <2>2. t.pc = task[r].pc /\ u.pc \in {"ms", "smtp"}
      BY <1>1 DEF Task
  <2> HIDE DEF t, u
  <2>3. QED
      BY <1>1, <1>2, <2>1, <2>2, StatusOutcome
<1>5. CASE MsProbe(r)
  <2> DEFINE t == [task[r] EXCEPT !.pc = "next"]
             u == [task[r] EXCEPT !.pc = "smtp"]
  <2>1. t.pc = "next" /\ u.pc = "smtp"
      BY <1>1 DEF Task
  <2>2. current(r).addr \in Emails /\ "none" \in Reasons
      BY <1>5, CurrentCandidate DEF MsProbe, Reasons
  <2>3. \/ Finish(r, update_record_dual(row[r], "VALIDATED", "valid", current(r).addr, 0, "none"))
        \/ Go(r, t) \/ Go(r, u)
      BY <1>5 DEF MsProbe
  <2> HIDE DEF t, u
  <2>4. QED
      BY <1>2, <2>1, <2>2, <2>3, DualOutcome
<1>6. QED
    BY <1>3, <1>4, <1>5

\* So does each of the five steps the backends' verdicts lead to.
LEMMA BackendsOutcome ==
    ASSUME IInv, NEW r \in Records, RunBackends(r)
    PROVE  Outcome(r)
<1>1. task[r].pc = "smtp" /\ task[r] \in Task /\ row[r] \in Row
    BY RunBackendsSteps DEF IInv, TypeOK
<1>2. current(r).addr \in Emails /\ "none" \in Reasons
    BY <1>1, CurrentCandidate DEF Reasons
<1>3. ASSUME NEW burn \in BOOLEAN, NEW hold \in BOOLEAN, NEW infra,
             Finish(r, requeue_record(row[r], burn, hold, infra))
      PROVE  Outcome(r)
    BY <1>1, <1>3, RequeueOutcome
<1>4. CASE Finish(r, handoff_to_zuhal(row[r], current(r).addr))
  <2> DEFINE x == handoff_to_zuhal(row[r], current(r).addr)
  <2>1. x.state = "NEEDS_ZUHAL" /\ x.requeues = row[r].requeues
      BY <1>1, <1>2, HandoffRow DEF SameCounters
  <2> HIDE DEF x
  <2>2. FinishedAs(row[r], x)
      BY <2>1 DEF FinishedAs
  <2>3. QED
      BY <1>4, <2>2, FinishOutcome DEF x
<1>5. CASE Finish(r, update_record_status(row[r], "COST_SKIPPED"))
    BY <1>5, StatusOutcome
<1>6. ASSUME NEW v, Finish(r, update_record_dual(row[r], "VALIDATED", v, current(r).addr, 1, "none"))
      PROVE  Outcome(r)
    BY <1>2, <1>6, DualOutcome
<1>7. ASSUME NEW rk \in RkVerdict, NEW real \in BOOLEAN, NEW pc \in Onward,
             Go(r, [task[r] EXCEPT !.rk = rk, !.real = real, !.pc = pc])
      PROVE  Outcome(r)
  <2> DEFINE t == [task[r] EXCEPT !.rk = rk, !.real = real, !.pc = pc]
  <2>1. t.pc = pc /\ pc # "idle"
      BY <1>1 DEF Task, Onward
  <2> HIDE DEF t
  <2>2. QED
      BY <1>1, <1>7, <2>1, GoOutcome DEF t
<1>8. QED
    BY <1>3, <1>4, <1>5, <1>6, <1>7, RunBackendsSteps


\* So do the paid calls: a bad key leaves the claim, an open circuit gives the
\* row back, an answer is settled or the task goes on.
LEMMA PaidOutcome ==
    ASSUME IInv, NEW r \in Records,
           Halt(r) \/ CircuitOpen(r) \/ ZuhalProbe(r) \/ RescueProbe(r) \/ Settle(r)
    PROVE  Outcome(r)
<1>1. task[r].pc \in {"zuhal", "rescue", "serper", "settle"} /\ task[r] \in Task
    BY DEF Halt, CircuitOpen, ZuhalProbe, RescueProbe, Settle, IInv, TypeOK
<1>2. CASE Halt(r)
    BY <1>1, <1>2, GoOutcome DEF Halt
<1>3. CASE CircuitOpen(r)
    BY <1>1, <1>3, RequeueOutcome DEF CircuitOpen
<1>4. CASE ZuhalProbe(r)
  <2>1. PICK v \in ZuhalAnswer : Go(r, [task[r] EXCEPT !.pc = "settle", !.paid = v])
      BY <1>4 DEF ZuhalProbe
  <2> DEFINE t == [task[r] EXCEPT !.pc = "settle", !.paid = v]
  <2>2. t.pc = "settle"
      BY <1>1 DEF Task
  <2> HIDE DEF t
  <2>3. QED
      BY <1>1, <2>1, <2>2, GoOutcome DEF t
<1>5. CASE RescueProbe(r)
  <2>1. PICK v \in ZuhalAnswer : \/ Go(r, [task[r] EXCEPT !.pc = "settle", !.paid = v])
                                 \/ Go(r, [task[r] EXCEPT !.pc = "fallback"])
      BY <1>5 DEF RescueProbe
  <2> DEFINE t == [task[r] EXCEPT !.pc = "settle", !.paid = v]
             u == [task[r] EXCEPT !.pc = "fallback"]
  <2>2. t.pc = "settle" /\ u.pc = "fallback"
      BY <1>1 DEF Task
  <2> HIDE DEF t, u
  <2>3. QED
      BY <1>1, <2>1, <2>2, GoOutcome DEF t, u
<1>6. CASE Settle(r)
  <2> DEFINE s == IF task[r].paid \in {"valid", "catch_all"} THEN "VALIDATED"
                                                            ELSE "VALIDATION_FAILED"
  <2>1. s \in {"VALIDATED", "VALIDATION_FAILED"}
      OBVIOUS
  <2>2. Finish(r, update_record_dual(row[r], s, task[r].paid, current(r).addr, 1, "none"))
      BY <1>6 DEF Settle, settled
  <2> HIDE DEF s
  <2>3. current(r).addr \in Emails /\ "none" \in Reasons
      BY <1>1, CurrentCandidate DEF Reasons
  <2>4. QED
      BY <2>1, <2>2, <2>3, DualOutcome
<1>7. QED
    BY <1>2, <1>3, <1>4, <1>5, <1>6

\* So does the check that comes before a Serper call.
LEMMA TrySerperOutcome ==
    ASSUME IInv, NEW r \in Records, NEW t \in Task, task[r].pc # "idle", TrySerper(r, t)
    PROVE  Outcome(r)
<1> DEFINE u == [t EXCEPT !.pc = "next"]
           w == [t EXCEPT !.pc = "serper", !.serper = TRUE]
<1>1. u.pc = "next" /\ w.pc = "serper"
    BY DEF Task
<1>2. Go(r, u) \/ Finish(r, update_record_status(row[r], "COST_SKIPPED")) \/ Go(r, w)
    BY DEF TrySerper
<1> HIDE DEF u, w
<1>3. QED
    BY <1>1, <1>2, GoOutcome, StatusOutcome

\* So do the fallbacks: only a save of serper_enriched touches the row.
LEMMA FallbackOutcome ==
    ASSUME IInv, NEW r \in Records,
           Fallback(r) \/ inject_harvest_fallback(r) \/ inject_serper_fallback(r)
    PROVE  Outcome(r)
<1>1. task[r] \in Task /\ row[r] \in Row /\ task[r].pc \in {"fallback", "harvest", "serper"}
    BY DEF Fallback, inject_harvest_fallback, inject_serper_fallback, IInv, TypeOK
<1>2. CASE Fallback(r)
  <2> DEFINE t == [task[r] EXCEPT !.pc = "next"]
             u == [task[r] EXCEPT !.pc = "harvest", !.harvested = TRUE]
  <2>1. t.pc = "next" /\ u.pc = "harvest"
      BY <1>1 DEF Task
  <2>2. Go(r, t) \/ Go(r, u) \/ TrySerper(r, task[r])
      BY <1>2 DEF Fallback
  <2> HIDE DEF t, u
  <2>3. QED
      BY <1>1, <2>1, <2>2, GoOutcome, TrySerperOutcome
<1>3. CASE inject_harvest_fallback(r)
  <2>1. PICK new : \/ Go(r, [task[r] EXCEPT !.pc = "next", !.cands = @ \o new,
                                            !.boundary = @ + Len(new)])
                   \/ TrySerper(r, task[r])
      BY <1>3 DEF inject_harvest_fallback
  <2> DEFINE t == [task[r] EXCEPT !.pc = "next", !.cands = @ \o new,
                                  !.boundary = @ + Len(new)]
  <2>2. t.pc = "next"
      BY <1>1 DEF Task
  <2>3. Go(r, t) \/ TrySerper(r, task[r])
      BY <2>1
  <2> HIDE DEF t
  <2>4. QED
      BY <1>1, <2>2, <2>3, GoOutcome, TrySerperOutcome
<1>4. CASE inject_serper_fallback(r)
  <2>1. PICK new : /\ task' = [task EXCEPT ![r].pc = "next", ![r].cands = @ \o new]
                   /\ row' = [row EXCEPT ![r] = mark_serper_enriched(@)] \/ row' = row
      BY <1>4 DEF inject_serper_fallback
  <2> DEFINE t == [task[r] EXCEPT !.pc = "next", !.cands = @ \o new]
             x == mark_serper_enriched(row[r])
  <2>2. t.pc = "next"
      BY <1>1 DEF Task
  <2>3. x.state = row[r].state /\ x.requeues = row[r].requeues
      BY <1>1, EnrichedRow DEF SameCounters
  <2>4. task' = [task EXCEPT ![r] = t] /\ (row' = [row EXCEPT ![r] = x] \/ row' = row)
      BY <2>1 DEF IInv, TypeOK
  <2> HIDE DEF t, x
  <2>5. task'[r] = t /\ row'[r] \in {x, row[r]}
      BY <2>4 DEF IInv, TypeOK
  <2>6. \A q \in Records : q # r => row'[q] = row[q] /\ task'[q] = task[q]
      BY <2>4 DEF IInv, TypeOK
  <2>7. row[r].state = "VALIDATING"
      BY <1>1 DEF IInv, TasksOwnClaims
  <2>8. QED
      BY <2>2, <2>3, <2>5, <2>6, <2>7 DEF Outcome, ClaimKept
<1>5. QED
    BY <1>2, <1>3, <1>4

\* Every step of a task has an outcome.
LEMMA TaskOutcome ==
    ASSUME IInv, NEW r \in Records, TaskStep(r)
    PROVE  Outcome(r)
BY BeginOutcome, CandidateOutcome, BackendsOutcome, PaidOutcome, FallbackOutcome DEF TaskStep

-----------------------------------------------------------------------------

(* The refinement of RecordLifecycle. *)

\* The phases of the states this dispatcher deals with.
LEMMA Phases ==
    /\ PhaseOf("ABSENT") = "absent" /\ PhaseOf("DISCOVERED") = "waiting"
    /\ PhaseOf("VALIDATING") = "claimed" /\ PhaseOf("NEEDS_ZUHAL") = "paid"
    /\ PhaseOf("VALIDATED") = "accepted" /\ PhaseOf("VALIDATION_FAILED") = "failed"
    /\ PhaseOf("COST_SKIPPED") = "skipped"
BY DEF PhaseOf

\* A record that has not appeared has not been given back.
AbsentIsFresh ==
    \A r \in Records : PhaseOf(row[r].state) = "absent" => row[r].requeues = 0

\* Rows that move from one phase to another with their returns unchanged, while
\* the rest keeps its phase, make a move of RecordLifecycle.
LEMMA MoveStep ==
    ASSUME NEW S \in SUBSET Records, NEW from, NEW to,
           \A r \in S : PhaseOf(row[r].state) \in from /\ PhaseOf(row'[r].state) = to,
           \A r \in Records \ S : row'[r].state = row[r].state,
           \A r \in Records : row'[r].requeues = row[r].requeues
    PROVE  Lifecycle!Move(S, from, to)
BY DEF Lifecycle!Move

\* Rows that keep state and returns make a stutter.
LEMMA NoMove ==
    ASSUME \A r \in Records : row'[r].state = row[r].state /\ row'[r].requeues = row[r].requeues
    PROVE  UNCHANGED Lifecycle!lifeVars
BY DEF Lifecycle!lifeVars

\* What a task does to its row is a step of RecordLifecycle.
LEMMA OutcomeMoves ==
    ASSUME IInv, NEW r \in Records, task[r].pc # "idle", Outcome(r)
    PROVE  [Lifecycle!Next]_(Lifecycle!lifeVars)
<1>1. row[r].state = "VALIDATING" /\ \A q \in Records : q # r => row'[q] = row[q]
    BY DEF IInv, TasksOwnClaims, Outcome, ClaimKept, RowWritten
<1>2. CASE ClaimKept(r)
    BY <1>1, <1>2, NoMove DEF ClaimKept
<1>3. CASE GivenBack(row[r], row'[r])
  <2>1. Lifecycle!GiveBack(r)
      BY <1>1, <1>3, Phases DEF Lifecycle!GiveBack, GivenBack
  <2>2. QED
      BY <2>1 DEF Lifecycle!Next
<1>4. CASE FinishedAs(row[r], row'[r])
  <2>1. \A q \in Records : row'[q].requeues = row[q].requeues
      BY <1>1, <1>4 DEF FinishedAs
  <2>2. \A q \in Records \ {r} : row'[q].state = row[q].state
      BY <1>1
  <2>3. PhaseOf(row'[r].state) \in {"accepted", "failed", "skipped", "paid"}
      BY <1>4, Phases DEF FinishedAs
  <2>4. CASE PhaseOf(row'[r].state) = "paid"
    <3>1. Lifecycle!HandOver(r)
        BY <1>1, <2>1, <2>2, <2>4, Phases, MoveStep DEF Lifecycle!HandOver
    <3>2. QED
        BY <3>1 DEF Lifecycle!Next
  <2>5. CASE PhaseOf(row'[r].state) \in {"accepted", "failed", "skipped"}
    <3> DEFINE s == PhaseOf(row'[r].state)
    <3>1. Lifecycle!Move({r}, {"claimed", "paidClaimed"}, s)
        BY <1>1, <2>1, <2>2, Phases, MoveStep
    <3>2. s \in Lifecycle!Settled
        BY <2>5 DEF Lifecycle!Settled
    <3> HIDE DEF s
    <3>3. Lifecycle!Settle(r)
        BY <3>1, <3>2 DEF Lifecycle!Settle
    <3>4. QED
        BY <3>3 DEF Lifecycle!Next
  <2>6. QED
      BY <2>3, <2>4, <2>5
<1>5. QED
    BY <1>2, <1>3, <1>4 DEF Outcome, RowWritten

\* The loop claims waiting records and otherwise moves none.
LEMMA LoopMoves ==
    ASSUME IInv, LoopStep
    PROVE  [Lifecycle!Next]_(Lifecycle!lifeVars)
<1>1. ASSUME NEW chunk \in SUBSET Records, Claim(chunk)
      PROVE  [Lifecycle!Next]_(Lifecycle!lifeVars)
  <2>1. \A r \in Records :
            /\ r \in chunk => row[r].state = "DISCOVERED" /\ row'[r].state = "VALIDATING"
                              /\ row'[r].requeues = row[r].requeues
            /\ r \notin chunk => row'[r] = row[r]
    <3>1. \A r \in Records :
              LET y == fetch_pending_validation(row[r]) IN
              y.state = "VALIDATING" /\ y.requeues = row[r].requeues
        BY ClaimRow DEF IInv, TypeOK, SameCounters
    <3>2. \A r \in Records :
              /\ r \in chunk => row'[r] = fetch_pending_validation(row[r])
              /\ r \notin chunk => row'[r] = row[r]
        BY <1>1 DEF Claim
    <3>3. \A r \in chunk : row[r].state = "DISCOVERED"
        BY <1>1 DEF Claim, Claimable, claimable
    <3>4. QED
        BY <3>1, <3>2, <3>3
  <2>2. /\ \A r \in chunk : PhaseOf(row[r].state) = "waiting" /\ PhaseOf(row'[r].state) = "claimed"
        /\ \A r \in Records \ chunk : row'[r].state = row[r].state
        /\ \A r \in Records : row'[r].requeues = row[r].requeues
      BY <2>1, Phases
  <2>3. Lifecycle!Claim(chunk)
      BY <2>2, MoveStep DEF Lifecycle!Claim
  <2>4. QED
      BY <2>3 DEF Lifecycle!Next
<1>2. ASSUME PollEmpty \/ ReadProducerDone \/ CheckPending \/ Gathered \/ StopSeen
      PROVE  [Lifecycle!Next]_(Lifecycle!lifeVars)
  <2>1. row' = row
      BY <1>2 DEF PollEmpty, ReadProducerDone, CheckPending, Gathered, StopSeen
  <2>2. QED
      BY <2>1, NoMove
<1>3. QED
    BY <1>1, <1>2 DEF LoopStep

\* The surroundings let records appear, recover claims and re-open failures.
LEMMA EnvironmentMoves ==
    ASSUME IInv, AbsentIsFresh, Environment
    PROVE  [Lifecycle!Next]_(Lifecycle!lifeVars)
<1>1. CASE Start
  <2> DEFINE S == {r \in Records : row'[r] # row[r]}
  <2>1. \A r \in Records :
            /\ \/ row'[r] = row[r]
               \/ row[r].state = "VALIDATING" /\ row'[r].state = "DISCOVERED"
            /\ row'[r].requeues = row[r].requeues
      BY <1>1, RecoverRow DEF Start, IInv, TypeOK
  <2>2. /\ \A r \in S : PhaseOf(row[r].state) = "claimed" /\ PhaseOf(row'[r].state) = "waiting"
        /\ \A r \in Records \ S : row'[r].state = row[r].state
      BY <2>1, Phases
  <2>3. S \in SUBSET Records
      OBVIOUS
  <2> HIDE DEF S
  <2>4. Lifecycle!Recover(S)
      BY <2>1, <2>2, <2>3, MoveStep DEF Lifecycle!Recover
  <2>5. QED
      BY <2>3, <2>4 DEF Lifecycle!Next
<1>2. CASE Reset
  <2> DEFINE S == {r \in Records : row'[r] # row[r]}
  <2>1. PICK s \in {"VALIDATION_FAILED", "COST_SKIPPED"}, p, u \in BOOLEAN :
            row' = [r \in Records |-> reset_failed_records(row[r], s, p, u)]
      BY <1>2 DEF Reset
  <2>2. \A r \in Records :
            /\ \/ row'[r] = row[r]
               \/ row[r].state = s /\ row'[r].state = "DISCOVERED"
            /\ row'[r].requeues = row[r].requeues
    <3>1. ASSUME NEW r \in Records
          PROVE  /\ \/ row'[r] = row[r]
                    \/ row[r].state = s /\ row'[r].state = "DISCOVERED"
                 /\ row'[r].requeues = row[r].requeues
      <4>1. row'[r] = reset_failed_records(row[r], s, p, u) /\ row[r] \in Row
          BY <2>1 DEF IInv, TypeOK
      <4>2. QED
          BY <4>1 DEF reset_failed_records, Row, States
    <3>2. QED
        BY <3>1
  <2>3. /\ \A r \in S : PhaseOf(row[r].state) \in {"failed", "skipped"}
                        /\ PhaseOf(row'[r].state) = "waiting"
        /\ \A r \in Records \ S : row'[r].state = row[r].state
      BY <2>2, Phases
  <2>4. S \in SUBSET Records
      OBVIOUS
  <2> HIDE DEF S
  <2>5. Lifecycle!Reopen(S)
      BY <2>2, <2>3, <2>4, MoveStep DEF Lifecycle!Reopen
  <2>6. QED
      BY <2>4, <2>5 DEF Lifecycle!Next
<1>3. ASSUME NEW r \in Records, Produce(r)
      PROVE  [Lifecycle!Next]_(Lifecycle!lifeVars)
  <2> DEFINE x == FreshRow("DISCOVERED")
  <2>1. x.state = "DISCOVERED" /\ x.requeues = 0
      BY DEF FreshRow
  <2>2. row[r].state = "ABSENT" /\ row' = [row EXCEPT ![r] = x]
      BY <1>3 DEF Produce
  <2> HIDE DEF x
  <2>3. row'[r] = x /\ \A q \in Records : q # r => row'[q] = row[q]
      BY <2>2 DEF IInv, TypeOK
  <2>4. row[r].requeues = 0
      BY <2>2, Phases DEF AbsentIsFresh
  <2>5. Lifecycle!Appear(r)
      BY <2>1, <2>2, <2>3, <2>4, Phases, MoveStep DEF Lifecycle!Appear
  <2>6. QED
      BY <2>5 DEF Lifecycle!Next
<1>4. ASSUME NEW r \in Records, HoldExpires(r) \/ GrowsStale(r)
      PROVE  [Lifecycle!Next]_(Lifecycle!lifeVars)
  <2>1. \A q \in Records : row'[q].state = row[q].state /\ row'[q].requeues = row[q].requeues
    <3>1. row \in [Records -> Row]
        BY DEF IInv, TypeOK
    <3>2. CASE HoldExpires(r)
        BY <3>1, <3>2 DEF HoldExpires, Row
    <3>3. CASE GrowsStale(r)
        BY <3>1, <3>3 DEF GrowsStale, Row
    <3>4. QED
        BY <1>4, <3>2, <3>3
  <2>2. QED
      BY <2>1, NoMove
<1>5. ASSUME row' = row
      PROVE  [Lifecycle!Next]_(Lifecycle!lifeVars)
    BY <1>5, NoMove
<1>6. ASSUME NEW r \in Records, TaskDies(r)
      PROVE  row' = row
    BY <1>6 DEF TaskDies, Go
<1>7. Stop \/ Crash \/ ProducerEnds => row' = row
    BY DEF Stop, Crash, ProducerEnds
<1>8. QED
    BY <1>1, <1>2, <1>3, <1>4, <1>5, <1>6, <1>7 DEF Environment


\* Every step of the dispatcher is a step of RecordLifecycle or none.
LEMMA StepRefines ==
    ASSUME IInv, AbsentIsFresh, [Next]_vars
    PROVE  [Lifecycle!Next]_(Lifecycle!lifeVars)
<1>1. ASSUME NEW r \in Records, TaskStep(r)
      PROVE  [Lifecycle!Next]_(Lifecycle!lifeVars)
    BY <1>1, TaskTouches, TaskOutcome, OutcomeMoves
<1>2. CASE UNCHANGED vars
    BY <1>2, NoMove DEF vars
<1>3. QED
    BY <1>1, <1>2, LoopMoves, EnvironmentMoves DEF Next

\* No step of RecordLifecycle makes a record absent, so AbsentIsFresh lasts.
LEMMA AbsentStaysFresh ==
    ASSUME AbsentIsFresh, [Lifecycle!Next]_(Lifecycle!lifeVars)
    PROVE  AbsentIsFresh'
<1> DEFINE phase == [r \in Records |-> PhaseOf(row[r].state)]
           returns == [r \in Records |-> row[r].requeues]
<1>1. AbsentIsFresh <=> \A r \in Records : phase[r] = "absent" => returns[r] = 0
    BY DEF AbsentIsFresh
<1>2. AbsentIsFresh' <=> \A r \in Records : phase'[r] = "absent" => returns'[r] = 0
    BY DEF AbsentIsFresh
<1>3. ASSUME NEW S \in SUBSET Records, NEW from, NEW to, to # "absent",
             Lifecycle!Move(S, from, to)
      PROVE  \A r \in Records : phase'[r] = "absent" => phase[r] = "absent" /\ returns'[r] = returns[r]
    BY <1>3 DEF Lifecycle!Move
<1>4. ASSUME NEW r \in Records, Lifecycle!GiveBack(r)
      PROVE  \A q \in Records : phase'[q] = "absent" => phase[q] = "absent" /\ returns'[q] = returns[q]
    BY <1>4 DEF Lifecycle!GiveBack
<1>5. CASE Lifecycle!Next
  <2>1. ASSUME NEW r \in Records, Lifecycle!Settle(r)
        PROVE  \A q \in Records : phase'[q] = "absent" => phase[q] = "absent" /\ returns'[q] = returns[q]
      BY <1>3, <2>1 DEF Lifecycle!Settle, Lifecycle!Settled
  <2>2. ASSUME NEW r \in Records, Lifecycle!Appear(r) \/ Lifecycle!HandOver(r)
        PROVE  \A q \in Records : phase'[q] = "absent" => phase[q] = "absent" /\ returns'[q] = returns[q]
      BY <1>3, <2>2 DEF Lifecycle!Appear, Lifecycle!HandOver
  <2>3. ASSUME NEW S \in SUBSET Records,
               \/ Lifecycle!Claim(S) \/ Lifecycle!ClaimPaid(S) \/ Lifecycle!ReturnPaid(S)
               \/ Lifecycle!Recover(S) \/ Lifecycle!Reopen(S)
        PROVE  \A q \in Records : phase'[q] = "absent" => phase[q] = "absent" /\ returns'[q] = returns[q]
      BY <1>3, <2>3 DEF Lifecycle!Claim, Lifecycle!ClaimPaid, Lifecycle!ReturnPaid,
                        Lifecycle!Recover, Lifecycle!Reopen
  <2> HIDE DEF phase, returns
  <2>4. QED
      BY <1>1, <1>2, <1>4, <1>5, <2>1, <2>2, <2>3 DEF Lifecycle!Next
<1>6. CASE UNCHANGED Lifecycle!lifeVars
    BY <1>1, <1>2, <1>6 DEF Lifecycle!lifeVars
<1>7. QED
    BY <1>5, <1>6

\* The dispatcher implements RecordLifecycle: whatever the backends answer and
\* however runs are interrupted, a record is given back a bounded number of
\* times, leaves a claim only by an end, a hand-over or a return, and is accepted
\* for good (dispatcher.py, dispatch_verdicts.py, db/records.py).
THEOREM LifecycleTheorem == Spec => KeepsLifecycle
<1>1. Init => Lifecycle!Init /\ AbsentIsFresh
    BY Phases DEF Init, FreshRow, Lifecycle!Init, AbsentIsFresh
<1>2. IInv /\ AbsentIsFresh /\ [Next]_vars => [Lifecycle!Next]_(Lifecycle!lifeVars)
    BY StepRefines
<1>3. IInv /\ AbsentIsFresh /\ [Next]_vars => AbsentIsFresh'
    BY StepRefines, AbsentStaysFresh
<1>4. QED
    BY <1>1, <1>2, <1>3, InvariantHolds, PTL DEF Spec, KeepsLifecycle, Lifecycle!Spec


-----------------------------------------------------------------------------
(* The loop ends only when nothing is left to do. *)

\* A claim without a task.
Orphan(r) == row[r].state = "VALIDATING" /\ task[r].pc = "idle"

\* A claim loses its task only when the loop is about to leave by another way
\* than an empty queue, and the producer has ended before the loop asks whether
\* anything is pending.
DrainInv ==
    /\ \A r \in Records : row[r].state \in {"ABSENT", "DISCOVERED", "VALIDATING"} \cup Finished
    /\ \A r \in Records : Orphan(r) =>
          ~running \/ (mode \in {"poll", "gather"} /\ stop) \/ (mode = "gather" /\ halted)
    /\ mode = "checkPending" => producerDone

\* A step of a task keeps it: it stops without a last write only on a signal or
\* a halt.
LEMMA TaskDrains ==
    ASSUME IInv, DrainInv, NEW r \in Records, TaskStep(r)
    PROVE  DrainInv'
<1>1. task[r].pc # "idle" /\ mode = "gather" /\ UNCHANGED <<producerDone, mode, stop>>
    BY TaskTouches DEF IInv, TasksOwnClaims, TaskFrame
<1>2. halted' = halted \/ halted' = TRUE
  <2>1. CASE Begin(r) \/ Exhausted(r) \/ MsProbe(r) \/ RunBackends(r)
      BY <2>1 DEF Begin, Exhausted, MsProbe, RunBackends
  <2>2. CASE NextCandidate(r)
      BY <2>2 DEF NextCandidate
  <2>3. CASE Halt(r) \/ CircuitOpen(r) \/ ZuhalProbe(r) \/ RescueProbe(r) \/ Settle(r)
      BY <2>3 DEF Halt, CircuitOpen, ZuhalProbe, RescueProbe, Settle
  <2>4. CASE Fallback(r) \/ inject_harvest_fallback(r) \/ inject_serper_fallback(r)
      BY <2>4 DEF Fallback, inject_harvest_fallback, inject_serper_fallback
  <2>5. QED
      BY <2>1, <2>2, <2>3, <2>4 DEF TaskStep
<1>3. \A q \in Records : q # r => row'[q] = row[q] /\ task'[q] = task[q]
    BY TaskOutcome DEF Outcome, ClaimKept, RowWritten
<1>4. /\ row'[r].state \in {"DISCOVERED", "VALIDATING"} \cup Finished
      /\ row'[r].state = "VALIDATING" => task'[r].pc # "idle" \/ stop \/ halted'
  <2>1. CASE ClaimKept(r)
      BY <2>1 DEF ClaimKept
  <2>2. CASE RowWritten(r)
    <3>1. row'[r].state \in {"DISCOVERED", "VALIDATED", "VALIDATION_FAILED", "COST_SKIPPED",
                            "NEEDS_ZUHAL"}
        BY <2>2 DEF RowWritten, GivenBack, FinishedAs
    <3>2. QED
        BY <3>1 DEF Finished, Terminal
  <2>3. QED
      BY <2>1, <2>2, TaskOutcome DEF Outcome
<1>5. (\A q \in Records : Orphan(q) => stop \/ halted)'
  <2>1. ASSUME NEW q \in Records, Orphan(q)', q # r
        PROVE  stop' \/ halted'
    <3>1. Orphan(q)
        BY <1>3, <2>1 DEF Orphan
    <3>2. stop \/ halted
        BY <1>1, <3>1 DEF DrainInv, running
    <3>3. QED
        BY <1>1, <1>2, <3>2
  <2>2. Orphan(r)' => stop' \/ halted'
      BY <1>1, <1>4 DEF Orphan
  <2>3. QED
      BY <2>1, <2>2
<1>6. QED
    BY <1>1, <1>3, <1>4, <1>5 DEF DrainInv

\* A move of the loop keeps it.
LEMMA LoopDrains ==
    ASSUME IInv, DrainInv, LoopStep
    PROVE  DrainInv'
<1>1. ASSUME NEW chunk \in SUBSET Records, Claim(chunk)
      PROVE  DrainInv'
  <2>1. \A r \in Records :
            /\ r \in chunk => row'[r].state = "VALIDATING" /\ task'[r].pc = "queued"
            /\ r \notin chunk => row'[r] = row[r] /\ task'[r] = task[r]
    <3>1. \A r \in Records : fetch_pending_validation(row[r]).state = "VALIDATING"
        BY ClaimRow DEF IInv, TypeOK
    <3>2. [Idle EXCEPT !.pc = "queued"].pc = "queued"
        BY DEF Idle
    <3>3. QED
        BY <1>1, <3>1, <3>2 DEF Claim
  <2>2. mode = "poll" /\ ~stop /\ mode' = "gather"
      BY <1>1 DEF Claim
  <2>3. \A r \in Records : ~Orphan(r)
      BY <2>2 DEF DrainInv, running
  <2>4. QED
      BY <2>1, <2>2, <2>3 DEF DrainInv, Orphan
<1>2. ASSUME UNCHANGED <<row, task, stop, producerDone>>,
             mode \in {"poll", "readDone", "checkPending"},
             mode = "poll" => ~stop \/ mode' = "exited",
             mode' \in {"poll", "readDone", "checkPending", "exited"},
             mode' = "checkPending" => producerDone
      PROVE  DrainInv'
  <2>1. mode' = "exited" \/ \A r \in Records : ~Orphan(r)
      BY <1>2 DEF DrainInv, running
  <2>2. QED
      BY <1>2, <2>1 DEF DrainInv, Orphan, running
<1>3. CASE PollEmpty
    BY <1>2, <1>3 DEF PollEmpty
<1>4. CASE ReadProducerDone
    BY <1>2, <1>4 DEF ReadProducerDone
<1>5. CASE CheckPending
    BY <1>2, <1>5 DEF CheckPending
<1>6. CASE StopSeen
    BY <1>2, <1>6 DEF StopSeen
<1>7. CASE Gathered
  <2>1. /\ mode = "gather" /\ UNCHANGED <<row, task, stop, producerDone>>
        /\ mode' = IF halted THEN "exited" ELSE "poll"
      BY <1>7 DEF Gathered
  <2>2. QED
      BY <2>1 DEF DrainInv, Orphan, running
<1>8. QED
    BY <1>1, <1>3, <1>4, <1>5, <1>6, <1>7 DEF LoopStep

\* So do the surroundings, if no task dies and a run starts only when every
\* claim the last one left can be recovered.
LEMMA EnvironmentDrains ==
    ASSUME IInv, DrainInv, Environment, PatientRestart, ~Faults
    PROVE  DrainInv'
<1>1. CASE Start
  <2>1. \A r \in Records :
            row'[r].state # "VALIDATING" /\ (row'[r] = row[r] \/ row'[r].state = "DISCOVERED")
    <3>1. ASSUME NEW r \in Records
          PROVE  /\ row'[r].state # "VALIDATING"
                 /\ row'[r] = row[r] \/ row'[r].state = "DISCOVERED"
      <4>1. row'[r] = recover_stale_validating(row[r]) /\ row[r] \in Row
          BY <1>1 DEF Start, IInv, TypeOK
      <4>2. row[r].state = "VALIDATING" => row[r].stale
          BY <1>1 DEF Start
      <4>3. QED
          BY <4>1, <4>2 DEF recover_stale_validating, Row
    <3>2. QED
        BY <3>1
  <2>2. mode' = "poll"
      BY <1>1 DEF Start
  <2>3. QED
      BY <2>1, <2>2 DEF DrainInv, Orphan
<1>2. CASE Reset
  <2>1. \A r \in Records : row'[r] = row[r] \/ row'[r].state = "DISCOVERED"
    <3>1. PICK s \in {"VALIDATION_FAILED", "COST_SKIPPED"}, p, u \in BOOLEAN :
              row' = [r \in Records |-> reset_failed_records(row[r], s, p, u)]
        BY <1>2 DEF Reset
    <3>2. ASSUME NEW r \in Records
          PROVE  row'[r] = row[r] \/ row'[r].state = "DISCOVERED"
      <4>1. row'[r] = reset_failed_records(row[r], s, p, u) /\ row[r] \in Row
          BY <3>1 DEF IInv, TypeOK
      <4>2. QED
          BY <4>1 DEF reset_failed_records, Row, States
    <3>3. QED
        BY <3>2
  <2>2. ~running /\ mode' = mode
      BY <1>2 DEF Reset, loopVars
  <2>3. QED
      BY <2>1, <2>2 DEF DrainInv, Orphan, running
<1>3. CASE Stop
    BY <1>3 DEF Stop, loopVars, DrainInv, Orphan, running
<1>4. CASE Crash
    BY <1>4 DEF Crash, DrainInv, Orphan, running
<1>5. CASE ProducerEnds
    BY <1>5 DEF ProducerEnds, loopVars, DrainInv, Orphan, running
<1>6. ASSUME NEW r \in Records, Produce(r)
      PROVE  DrainInv'
  <2>1. row'[r].state = "DISCOVERED" /\ \A q \in Records : q # r => row'[q] = row[q]
      BY <1>6 DEF Produce, IInv, TypeOK, FreshRow
  <2>2. UNCHANGED <<producerDone, task, mode, halted, stop>>
      BY <1>6 DEF Produce, loopVars
  <2>3. QED
      BY <2>1, <2>2 DEF DrainInv, Orphan, running
<1>7. ASSUME NEW r \in Records, HoldExpires(r) \/ GrowsStale(r)
      PROVE  DrainInv'
  <2>1. \A q \in Records : row'[q].state = row[q].state
      BY <1>7 DEF HoldExpires, GrowsStale, IInv, TypeOK, Row
  <2>2. UNCHANGED <<producerDone, task, mode, halted, stop>>
      BY <1>7 DEF HoldExpires, GrowsStale, loopVars
  <2>3. QED
      BY <2>1, <2>2 DEF DrainInv, Orphan, running
<1>8. \A r \in Records : ~TaskDies(r)
    BY DEF TaskDies
<1>9. QED
    BY <1>1, <1>2, <1>3, <1>4, <1>5, <1>6, <1>7, <1>8 DEF Environment

\* The last of the three queries finds no row that is not finished.
LEMMA LeavesDrained ==
    ASSUME IInv, DrainInv, [Next]_vars, CleanExit
    PROVE  producerDone /\ \A r \in Records : row[r].state \in Finished \cup {"ABSENT"}
<1>1. mode = "checkPending" /\ mode' = "exited"
    BY DEF CleanExit
<1>2. CheckPending
  <2>1. \A r \in Records : ~TaskStep(r)
      BY <1>1, TaskTouches DEF IInv, TasksOwnClaims
  <2>2. ~Environment
      BY <1>1 DEF Environment, Start, Stop, Crash, Reset, ProducerEnds, Produce, HoldExpires,
                  GrowsStale, TaskDies, TaskFrame, loopVars
  <2>3. mode' # mode
      BY <1>1
  <2>4. LoopStep
      BY <2>1, <2>2, <2>3 DEF Next, vars
  <2>5. QED
      BY <1>1, <2>4 DEF LoopStep, Claim, PollEmpty, ReadProducerDone, Gathered, StopSeen
<1>3. \A r \in Records : row[r].state # "DISCOVERED"
    BY <1>1, <1>2 DEF CheckPending, has_pending_validation
<1>4. \A r \in Records : row[r].state # "VALIDATING"
    BY <1>1 DEF DrainInv, Orphan, running, IInv, TasksOwnClaims
<1>5. QED
    BY <1>1, <1>3, <1>4 DEF DrainInv

\* The dispatcher ends by itself only when the producer has ended and every row
\* it wrote is finished, for any number of records, tasks and runs, provided no
\* task dies and runs are not started too early (dispatcher.py:136-163).
THEOREM DrainTheorem ==
    ASSUME PatientRestart, ~Faults
    PROVE  Spec => ExitsDrained
<1>1. Init => DrainInv
    BY DEF Init, FreshRow, DrainInv, Orphan
<1>2. IInv /\ DrainInv /\ [Next]_vars => DrainInv'
  <2>1. ASSUME IInv, DrainInv, UNCHANGED vars
        PROVE  DrainInv'
      BY <2>1 DEF vars, DrainInv, Orphan, running
  <2>2. QED
      BY <2>1, TaskDrains, LoopDrains, EnvironmentDrains DEF Next
<1>3. IInv /\ DrainInv /\ [Next]_vars =>
          (CleanExit => /\ producerDone
                        /\ \A r \in Records : row[r].state \in Finished \cup {"ABSENT"})
    BY LeavesDrained
<1>4. QED
    BY <1>1, <1>2, <1>3, InvariantHolds, PTL DEF Spec, ExitsDrained

=============================================================================
