-------------------------- MODULE DispatcherProofs --------------------------
(***************************************************************************)
(* Theorems about Dispatcher, for every set of records, every candidate    *)
(* list, every pair of backends and every value of the limits.             *)
(*                                                                         *)
(* A step of a task either writes the row for the last time (Finish) or    *)
(* only moves the task on (Go).  FinishKeeps and GoKeeps say once what     *)
(* each kind has to respect to preserve IInv; the lemma of an action then  *)
(* shows that it does, with the facts of RowsProofs about its UPDATE.      *)
(***************************************************************************)
EXTENDS Dispatcher, RowsProofs

\* What one row owes the retry budgets when n runs have been started.
WithinBudget(x, n) ==
    /\ x.requeues <= MaxRequeues /\ x.tunnel <= MaxTunnel /\ x.bbops <= MaxBbops
    /\ x.attempts <= MaxAttempts + n

\* The part of a task's step that is neither its row nor its local state.
SideEffects ==
    /\ spent' \in Nat /\ billed' \in Nat /\ halted' \in BOOLEAN
    /\ hist' \in [Records -> History]

\* The idle task is a task.
LEMMA IdleType == Idle \in Task
BY DEF Idle, Task, PC

\* A last write within the budgets keeps the invariant, whatever the task was
\* doing: the row is claimed, so no other task is concerned.
LEMMA FinishKeeps ==
    ASSUME IInv, NEW r \in Records, NEW x \in Row, WithinBudget(x, starts),
           Finish(r, x), TaskFrame, SideEffects
    PROVE  IInv'
<1>1. row' \in [Records -> Row] /\ task' \in [Records -> Task]
    BY IdleType DEF IInv, TypeOK, Finish
<1>2. \A q \in Records : q # r => row'[q] = row[q] /\ task'[q] = task[q]
    BY DEF IInv, TypeOK, Finish
<1>3. row'[r] = x /\ task'[r] = Idle
    BY DEF IInv, TypeOK, Finish
<1>4. TypeOK'
    BY <1>1 DEF IInv, TypeOK, TaskFrame, runVars, SideEffects
<1>5. TasksOwnClaims'
    BY <1>2, <1>3 DEF IInv, TasksOwnClaims, TaskFrame, runVars, Idle
<1>6. BudgetsHold'
    BY <1>2, <1>3 DEF IInv, BudgetsHold, TaskFrame, runVars, WithinBudget
<1>7. (\A q \in Records : TaskInv(task[q], row[q]))'
    BY <1>2, <1>3 DEF IInv, TaskInv, Idle
<1>8. QED
    BY <1>4, <1>5, <1>6, <1>7 DEF IInv

\* A step that leaves the row alone keeps the invariant when the task's new
\* local state does.
LEMMA GoKeeps ==
    ASSUME IInv, NEW r \in Records, NEW t \in Task, TaskInv(t, row[r]),
           task[r].pc # "idle", Go(r, t), TaskFrame, SideEffects
    PROVE  IInv'
<1>1. task' \in [Records -> Task] /\ row' = row
    BY DEF IInv, TypeOK, Go
<1>2. task'[r] = t /\ \A q \in Records : q # r => task'[q] = task[q]
    BY DEF IInv, TypeOK, Go
<1>3. TypeOK'
    BY <1>1 DEF IInv, TypeOK, TaskFrame, runVars, SideEffects
<1>4. TasksOwnClaims'
    BY <1>1, <1>2 DEF IInv, TasksOwnClaims, TaskFrame
<1>5. BudgetsHold'
    BY <1>1 DEF IInv, BudgetsHold, TaskFrame, runVars
<1>6. (\A q \in Records : TaskInv(task[q], row[q]))'
    BY <1>1, <1>2 DEF IInv
<1>7. QED
    BY <1>3, <1>4, <1>5, <1>6 DEF IInv

\* A task that stops without writing keeps it, too (stop, halt, exception).
LEMMA QuitKeeps ==
    ASSUME IInv, NEW r \in Records, task[r].pc # "idle", Go(r, Idle), TaskFrame, SideEffects
    PROVE  IInv'
<1>1. TaskInv(Idle, row[r])
    BY DEF TaskInv, Idle
<1>2. QED
    BY <1>1, IdleType, GoKeeps

\* What a step of a task that is past _load_candidates finds.
LEMMA WorkingTask ==
    ASSUME IInv, NEW r \in Records, task[r].pc \notin {"idle", "queued"}
    PROVE  /\ task[r] \in Task /\ row[r] \in Row
           /\ row[r].requeues < MaxRequeues /\ row[r].attempts < MaxAttempts
           /\ row[r].tunnel <= MaxTunnel /\ row[r].bbops <= MaxBbops
           /\ starts \in Nat /\ MaxAttempts \in Nat /\ MaxRequeues \in Nat
           /\ row[r].requeues \in Nat /\ row[r].attempts \in Nat
           /\ row[r].tunnel \in Nat /\ row[r].bbops \in Nat
BY DispatcherAssumption DEF IInv, TypeOK, TaskInv, BudgetsHold, Row

\* Past the top of the candidate loop a task has a current address.
LEMMA CurrentCandidate ==
    ASSUME IInv, NEW r \in Records, task[r].pc \notin {"idle", "queued", "next"}
    PROVE  current(r) \in Candidate /\ current(r).addr \in Emails
<1>1. task[r] \in Task /\ task[r].i \in 1 .. Len(task[r].cands)
    BY DEF IInv, TypeOK, TaskInv
<1>2. task[r].cands \in Seq(Candidate)
    BY <1>1 DEF Task
<1>3. current(r) \in Candidate
    BY <1>1, <1>2 DEF current
<1>4. QED
    BY <1>3 DEF Candidate

\* The counters and histories stay what they are.
LEMMA NoSideEffects ==
    ASSUME IInv, NoCost, UNCHANGED <<halted, hist>>
    PROVE  SideEffects
BY DEF IInv, TypeOK, NoCost, costVars, SideEffects

-----------------------------------------------------------------------------
(* The steps of a task. *)

\* A task begins only with both counters below their limits (_dispatch_record).
LEMMA BeginKeeps ==
    ASSUME IInv, NEW r \in Records, Begin(r)
    PROVE  IInv'
<1> DEFINE x == row[r]
<1>1. x \in Row /\ task[r].pc = "queued" /\ WithinBudget(x, starts)
    BY DEF IInv, TypeOK, BudgetsHold, WithinBudget, Begin
<1>2. TaskFrame /\ SideEffects
    BY NoSideEffects DEF Begin
<1>3. CASE Go(r, Idle)
    BY <1>1, <1>2, <1>3, QuitKeeps
<1>4. CASE Finish(r, update_record_status(x, "VALIDATION_FAILED"))
  <2>1. /\ update_record_status(x, "VALIDATION_FAILED") \in Row
        /\ WithinBudget(update_record_status(x, "VALIDATION_FAILED"), starts)
      BY <1>1, StatusRow DEF States, SameCounters, WithinBudget
  <2>2. QED
      BY <1>2, <1>4, <2>1, FinishKeeps
<1>5. CASE \E why \in Reasons : Finish(r, update_record_failed(x, why))
  <2>1. PICK why \in Reasons : Finish(r, update_record_failed(x, why))
      BY <1>5
  <2>2. update_record_failed(x, why) \in Row /\ WithinBudget(update_record_failed(x, why), starts)
      BY <1>1, FailedRow DEF SameCounters, WithinBudget
  <2>3. QED
      BY <1>2, <2>1, <2>2, FinishKeeps
<1>6. CASE /\ ~(x.attempts >= MaxAttempts) /\ ~(x.requeues >= MaxRequeues)
           /\ Go(r, [Idle EXCEPT !.pc = "next", !.cands = Cand[r],
                                 !.boundary = Len(Cand[r]), !.serper = x.enriched])
  <2> DEFINE t == [Idle EXCEPT !.pc = "next", !.cands = Cand[r],
                               !.boundary = Len(Cand[r]), !.serper = x.enriched]
  <2>1. Cand[r] \in Seq(Candidate) /\ Len(Cand[r]) \in Nat /\ x.enriched \in BOOLEAN
      BY <1>1, DispatcherAssumption DEF Row
  <2>2. t \in Task /\ t.pc = "next" /\ t.i = 0 /\ t.cands = Cand[r]
      BY <2>1, IdleType DEF Idle, Task, PC
  <2>3. /\ MaxAttempts \in Nat /\ MaxRequeues \in Nat
        /\ x.attempts \in Nat /\ x.requeues \in Nat
      BY <1>1, DispatcherAssumption DEF Row
  <2>4. TaskInv(t, x)
      BY <1>6, <2>1, <2>2, <2>3 DEF TaskInv
  <2> HIDE DEF t
  <2>5. QED
      BY <1>1, <1>2, <1>6, <2>2, <2>4, GoKeeps DEF t
<1>7. QED
    BY <1>3, <1>4, <1>5, <1>6 DEF Begin, Reasons

\* Giving a row up costs it the attempt it still had (the end of _process_record).
LEMMA ExhaustedKeeps ==
    ASSUME IInv, NEW r \in Records, Exhausted(r)
    PROVE  IInv'
<1> DEFINE why == IF task[r].rk = "blocked" THEN "provider_blocked"
                  ELSE IF task[r].real THEN "max_attempts" ELSE "infra_loop"
           x == update_record_dual(row[r], "VALIDATION_FAILED", "invalid", NoEmail, 1, why)
<1>1. why \in Reasons
    BY DEF Reasons
<1>2. task[r].pc = "next" /\ Finish(r, x) /\ TaskFrame /\ SideEffects
    BY NoSideEffects DEF Exhausted
<1> HIDE DEF why
<1>3. /\ x \in Row /\ x.attempts = row[r].attempts + 1 /\ x.requeues = row[r].requeues
      /\ x.tunnel = row[r].tunnel /\ x.bbops = row[r].bbops
    BY <1>1, <1>2, WorkingTask, DualRow DEF States
<1>4. WithinBudget(x, starts)
    BY <1>2, <1>3, WorkingTask DEF WithinBudget
<1> HIDE DEF x
<1>5. QED
    BY <1>2, <1>3, <1>4, FinishKeeps

\* A task in the candidate loop goes on with the same list at the same place.
LEMMA ContinueKeeps ==
    ASSUME IInv, NEW r \in Records, task[r].pc \notin {"idle", "queued", "next"},
           NEW t \in Task, t.i = task[r].i, t.cands = task[r].cands,
           Go(r, t), TaskFrame, SideEffects
    PROVE  IInv'
<1>1. TaskInv(t, row[r])
  <2>1. row[r].requeues < MaxRequeues /\ row[r].attempts < MaxAttempts
      BY WorkingTask
  <2>2. t.i \in 1 .. Len(t.cands) /\ t.cands \in Seq(Candidate)
      BY DEF IInv, TaskInv, Task
  <2>3. t.i <= Len(t.cands)
      BY <2>2
  <2>4. QED
      BY <2>1, <2>2, <2>3 DEF TaskInv
<1>2. QED
    BY <1>1, GoKeeps

\* It ends with a change of state and nothing else (update_record_status).
LEMMA StatusKeeps ==
    ASSUME IInv, NEW r \in Records, task[r].pc \notin {"idle", "queued"}, NEW s \in States,
           Finish(r, update_record_status(row[r], s)), TaskFrame, SideEffects
    PROVE  IInv'
<1> DEFINE x == update_record_status(row[r], s)
<1>1. x \in Row /\ SameCounters(row[r], x)
    BY WorkingTask, StatusRow
<1> HIDE DEF x
<1>2. WithinBudget(x, starts)
    BY <1>1, WorkingTask DEF SameCounters, WithinBudget
<1>3. QED
    BY <1>1, <1>2, FinishKeeps DEF x

\* It ends with a verdict, which counts at most one attempt (update_record_dual).
LEMMA DualKeeps ==
    ASSUME IInv, NEW r \in Records, task[r].pc \notin {"idle", "queued"},
           NEW s \in States, NEW verdict, NEW addr \in Emails, NEW delta \in {0, 1},
           Finish(r, update_record_dual(row[r], s, verdict, addr, delta, "none")),
           TaskFrame, SideEffects
    PROVE  IInv'
<1> DEFINE x == update_record_dual(row[r], s, verdict, addr, delta, "none")
<1>1. /\ x \in Row /\ x.attempts = row[r].attempts + delta /\ x.requeues = row[r].requeues
      /\ x.tunnel = row[r].tunnel /\ x.bbops = row[r].bbops
    BY WorkingTask, DualRow DEF Reasons
<1> HIDE DEF x
<1>2. WithinBudget(x, starts)
    BY <1>1, WorkingTask DEF WithinBudget
<1>3. QED
    BY <1>1, <1>2, FinishKeeps DEF x

\* It ends with a requeue, and the budget that is drawn on has room (requeue_record).
LEMMA RequeueKeeps ==
    ASSUME IInv, NEW r \in Records, task[r].pc \notin {"idle", "queued"},
           NEW burn \in BOOLEAN, NEW hold \in BOOLEAN, NEW infra,
           infra = "tunnel" => row[r].tunnel < MaxTunnel,
           infra = "bbops" => row[r].bbops < MaxBbops,
           Finish(r, requeue_record(row[r], burn, hold, infra)), TaskFrame, SideEffects
    PROVE  IInv'
<1> DEFINE x == requeue_record(row[r], burn, hold, infra)
<1>1. /\ x \in Row
      /\ x.requeues = row[r].requeues + 1
      /\ x.attempts \in {row[r].attempts, row[r].attempts + 1}
      /\ x.tunnel = IF infra = "tunnel" THEN row[r].tunnel + 1 ELSE row[r].tunnel
      /\ x.bbops = IF infra = "bbops" THEN row[r].bbops + 1 ELSE row[r].bbops
    BY WorkingTask, RequeueRow
<1> HIDE DEF x
<1>2. MaxTunnel \in Nat /\ MaxBbops \in Nat
    BY DispatcherAssumption
<1>3. WithinBudget(x, starts)
    BY <1>1, <1>2, WorkingTask DEF WithinBudget
<1>4. QED
    BY <1>1, <1>3, FinishKeeps DEF x

\* The top of the candidate loop moves on by one, within the list.
LEMMA NextCandidateKeeps ==
    ASSUME IInv, NEW r \in Records, NextCandidate(r)
    PROVE  IInv'
<1> DEFINE t == [task[r] EXCEPT !.i = @ + 1]
           u == [t EXCEPT !.pc = IF r \in Microsoft THEN "ms" ELSE "smtp"]
<1>1. task[r].pc = "next" /\ task[r].i < Len(task[r].cands) /\ TaskFrame
    BY DEF NextCandidate
<1>2. SideEffects
  <2>1. hist' \in [Records -> History]
      BY DEF NextCandidate, IInv, TypeOK, History
  <2>2. QED
      BY <2>1 DEF NextCandidate, NoCost, costVars, IInv, TypeOK, SideEffects
<1>3. task[r] \in Task /\ task[r].i \in Nat /\ task[r].cands \in Seq(Candidate)
    BY DEF IInv, TypeOK, Task
<1>4. t \in Task /\ t.pc = "next" /\ t.i = task[r].i + 1 /\ t.cands = task[r].cands
    BY <1>1, <1>3 DEF Task
<1>5. u \in Task /\ u.pc \in {"ms", "smtp"} /\ u.i = t.i /\ u.cands = t.cands
    BY <1>4 DEF Task, PC
<1>6. row[r].requeues < MaxRequeues /\ row[r].attempts < MaxAttempts
    BY <1>1, WorkingTask
<1>7. Len(t.cands) \in Nat /\ t.i \in 1 .. Len(t.cands)
    BY <1>1, <1>3, <1>4
<1>8. \/ Go(r, t)
      \/ Finish(r, update_record_status(row[r], "COST_SKIPPED"))
      \/ Go(r, u)
    BY DEF NextCandidate
<1> HIDE DEF t, u
<1>9. TaskInv(t, row[r]) /\ TaskInv(u, row[r])
    BY <1>4, <1>5, <1>6, <1>7 DEF TaskInv
<1>10. CASE Go(r, t)
    BY <1>1, <1>2, <1>4, <1>9, <1>10, GoKeeps
<1>11. CASE Finish(r, update_record_status(row[r], "COST_SKIPPED"))
    BY <1>1, <1>2, <1>11, StatusKeeps DEF States
<1>12. CASE Go(r, u)
    BY <1>1, <1>2, <1>5, <1>9, <1>12, GoKeeps
<1>13. QED
    BY <1>8, <1>10, <1>11, <1>12

\* The Microsoft probe accepts the address, drops it or leaves it to SMTP.
LEMMA MsProbeKeeps ==
    ASSUME IInv, NEW r \in Records, MsProbe(r)
    PROVE  IInv'
<1>1. task[r].pc = "ms" /\ TaskFrame /\ SideEffects /\ task[r] \in Task
    BY NoSideEffects DEF MsProbe, IInv, TypeOK
<1>2. CASE Finish(r, update_record_dual(row[r], "VALIDATED", "valid",
                                        current(r).addr, 0, "none"))
    BY <1>1, <1>2, CurrentCandidate, DualKeeps DEF States
<1>3. CASE \E pc \in {"next", "smtp"} : Go(r, [task[r] EXCEPT !.pc = pc])
  <2>1. PICK pc \in {"next", "smtp"} : Go(r, [task[r] EXCEPT !.pc = pc])
      BY <1>3
  <2> DEFINE t == [task[r] EXCEPT !.pc = pc]
  <2>2. t \in Task /\ t.i = task[r].i /\ t.cands = task[r].cands
      BY <1>1 DEF Task, PC
  <2> HIDE DEF t
  <2>3. QED
      BY <1>1, <2>1, <2>2, ContinueKeeps DEF t
<1>4. QED
    BY <1>2, <1>3 DEF MsProbe

\* Where a task goes on after its backends have answered.
Onward == {"next", "zuhal", "rescue", "fallback"}

\* What run_backends brings leads to one of five steps.
LEMMA RunBackendsSteps ==
    ASSUME IInv, NEW r \in Records, RunBackends(r)
    PROVE  /\ task[r].pc = "smtp" /\ TaskFrame /\ SideEffects
           /\ \/ \E burn, hold \in BOOLEAN, infra \in {"tunnel", "bbops", "none"} :
                    /\ infra = "tunnel" => row[r].tunnel < MaxTunnel
                    /\ infra = "bbops" => row[r].bbops < MaxBbops
                    /\ Finish(r, requeue_record(row[r], burn, hold, infra))
              \/ Finish(r, handoff_to_zuhal(row[r], current(r).addr))
              \/ Finish(r, update_record_status(row[r], "COST_SKIPPED"))
              \/ \E v \in {"valid", "catch_all", "invalid", "unknown"} :
                    Finish(r, update_record_dual(row[r], "VALIDATED", v,
                                                 current(r).addr, 1, "none"))
              \/ \E rk \in RkVerdict, real \in BOOLEAN, pc \in Onward :
                    Go(r, [task[r] EXCEPT !.rk = rk, !.real = real, !.pc = pc])
<1>1. PICK rk0 \in RkVerdicts, bb \in BbVerdicts :
          /\ \/ TunnelRequeue(r, rk0, bb)
             \/ BbopsFailed(r, heard(rk0), bb)
             \/ Judge(r, heard(rk0), bb)
          /\ hist' = [hist EXCEPT ![r].valid = @ \/ "valid" \in {rk0, bb}]
    BY DEF RunBackends
<1> DEFINE rk == heard(rk0)
<1>2. rk \in RkVerdict
    BY DispatcherAssumption DEF heard, RkVerdict, Inconclusive
<1>3. task[r].pc = "smtp" /\ TaskFrame /\ halted' = halted /\ task[r] \in Task
    BY DEF RunBackends, IInv, TypeOK
<1>4. hist' \in [Records -> History]
    BY <1>1 DEF IInv, TypeOK, History
<1>5. CASE TunnelRequeue(r, rk0, bb)
    BY <1>3, <1>4, <1>5 DEF TunnelRequeue, TunnelBudgetLeft, NoCost, costVars,
                            IInv, TypeOK, SideEffects
<1>6. CASE BbopsFailed(r, rk, bb)
  <2> DEFINE real == task[r].real \/ rk \in Definitive
  <2>1. real \in BOOLEAN /\ "next" \in Onward
      BY DEF Onward
  <2>2. \/ row[r].bbops < MaxBbops /\ Finish(r, requeue_record(row[r], FALSE, TRUE, "bbops"))
        \/ Go(r, [task[r] EXCEPT !.rk = rk, !.real = real, !.pc = "next"])
      BY <1>3, <1>6 DEF BbopsFailed, Task
  <2>3. SideEffects
      BY <1>3, <1>4, <1>6 DEF BbopsFailed, NoCost, costVars, IInv, TypeOK, SideEffects
  <2> HIDE DEF real, rk
  <2>4. QED
      BY <1>2, <1>3, <2>1, <2>2, <2>3
<1>7. CASE Judge(r, rk, bb)
  <2> DEFINE real == task[r].real \/ {rk, bb} \cap Definitive # {}
             t == [task[r] EXCEPT !.rk = rk, !.real = real]
             burn == {rk, bb} \cap Definitive # {}
             hold == rk = "greylisted"
  <2>1. real \in BOOLEAN /\ burn \in BOOLEAN /\ hold \in BOOLEAN
        /\ "zuhal" \in Onward /\ "rescue" \in Onward /\ "fallback" \in Onward
      BY DEF Onward
  <2>2. HandleInconclusive(r, rk, bb, t) \/ Accept(r, rk, bb) \/ Reject(r, rk, bb, t)
      BY <1>7 DEF Judge
  <2>3. SideEffects
      BY <1>3, <1>4, <2>2 DEF HandleInconclusive, Accept, Reject, NoCost, costVars,
                              IInv, TypeOK, SideEffects
  <2>4. \A pc \in Onward : [t EXCEPT !.pc = pc] = [task[r] EXCEPT !.rk = rk, !.real = real, !.pc = pc]
      BY <1>3 DEF Task
  <2>5. reconcile(rk, bb) \in {"valid", "catch_all", "invalid", "unknown"}
      BY ReconcileOutcome
  <2>6. \/ Finish(r, handoff_to_zuhal(row[r], current(r).addr))
        \/ Finish(r, update_record_status(row[r], "COST_SKIPPED"))
        \/ Finish(r, requeue_record(row[r], burn, hold, "none"))
        \/ Finish(r, update_record_dual(row[r], "VALIDATED", reconcile(rk, bb),
                                        current(r).addr, 1, "none"))
        \/ \E pc \in Onward : Go(r, [t EXCEPT !.pc = pc])
      BY <2>1, <2>2 DEF HandleInconclusive, Accept, Reject
  <2> HIDE DEF real, t, burn, hold, rk
  <2>7. QED
      BY <1>2, <1>3, <2>1, <2>3, <2>4, <2>5, <2>6
<1>8. QED
    BY <1>1, <1>5, <1>6, <1>7

\* Each of the five steps keeps the invariant.
LEMMA RunBackendsKeeps ==
    ASSUME IInv, NEW r \in Records, RunBackends(r)
    PROVE  IInv'
<1>1. task[r].pc = "smtp" /\ TaskFrame /\ SideEffects /\ task[r] \in Task
    BY RunBackendsSteps DEF IInv, TypeOK
<1>2. ASSUME NEW burn \in BOOLEAN, NEW hold \in BOOLEAN, NEW infra \in {"tunnel", "bbops", "none"},
             infra = "tunnel" => row[r].tunnel < MaxTunnel,
             infra = "bbops" => row[r].bbops < MaxBbops,
             Finish(r, requeue_record(row[r], burn, hold, infra))
      PROVE  IInv'
    BY <1>1, <1>2, RequeueKeeps
<1>3. CASE Finish(r, handoff_to_zuhal(row[r], current(r).addr))
  <2> DEFINE x == handoff_to_zuhal(row[r], current(r).addr)
  <2>1. x \in Row /\ SameCounters(row[r], x)
      BY <1>1, WorkingTask, CurrentCandidate, HandoffRow
  <2> HIDE DEF x
  <2>2. WithinBudget(x, starts)
      BY <1>1, <2>1, WorkingTask DEF SameCounters, WithinBudget
  <2>3. QED
      BY <1>1, <1>3, <2>1, <2>2, FinishKeeps DEF x
<1>4. CASE Finish(r, update_record_status(row[r], "COST_SKIPPED"))
    BY <1>1, <1>4, StatusKeeps DEF States
<1>5. ASSUME NEW v, Finish(r, update_record_dual(row[r], "VALIDATED", v,
                                                 current(r).addr, 1, "none"))
      PROVE  IInv'
    BY <1>1, <1>5, CurrentCandidate, DualKeeps DEF States
<1>6. ASSUME NEW rk \in RkVerdict, NEW real \in BOOLEAN, NEW pc \in Onward,
             Go(r, [task[r] EXCEPT !.rk = rk, !.real = real, !.pc = pc])
      PROVE  IInv'
  <2> DEFINE t == [task[r] EXCEPT !.rk = rk, !.real = real, !.pc = pc]
  <2>1. t \in Task /\ t.i = task[r].i /\ t.cands = task[r].cands
      BY <1>1 DEF Task, PC, Onward
  <2> HIDE DEF t
  <2>2. QED
      BY <1>1, <1>6, <2>1, ContinueKeeps DEF t
<1>7. QED
    BY <1>2, <1>3, <1>4, <1>5, <1>6, RunBackendsSteps

\* A task that raises PipelineHaltError leaves its claim as it is.
LEMMA HaltKeeps ==
    ASSUME IInv, NEW r \in Records, Halt(r)
    PROVE  IInv'
<1>1. task[r].pc # "idle" /\ Go(r, Idle) /\ TaskFrame
    BY DEF Halt
<1>2. SideEffects
    BY DEF Halt, NoCost, costVars, IInv, TypeOK, SideEffects
<1>3. QED
    BY <1>1, <1>2, QuitKeeps

\* So does one that dies of an unexpected exception.
LEMMA TaskDiesKeeps ==
    ASSUME IInv, NEW r \in Records, TaskDies(r)
    PROVE  IInv'
<1>1. task[r].pc # "idle" /\ Go(r, Idle) /\ TaskFrame /\ SideEffects
    BY NoSideEffects DEF TaskDies, Active
<1>2. QED
    BY <1>1, QuitKeeps

\* A breaker that is open costs the row one requeue and no attempt.
LEMMA CircuitOpenKeeps ==
    ASSUME IInv, NEW r \in Records, CircuitOpen(r)
    PROVE  IInv'
<1>1. /\ task[r].pc \notin {"idle", "queued"} /\ TaskFrame /\ SideEffects
      /\ Finish(r, requeue_record(row[r], FALSE, FALSE, "none"))
    BY NoSideEffects DEF CircuitOpen
<1>2. QED
    BY <1>1, RequeueKeeps

\* A paid answer moves the task on.
LEMMA ProbeKeeps ==
    ASSUME IInv, NEW r \in Records, ZuhalProbe(r) \/ RescueProbe(r)
    PROVE  IInv'
<1>1. task[r].pc \in {"zuhal", "rescue"} /\ TaskFrame /\ task[r] \in Task
    BY DEF ZuhalProbe, RescueProbe, IInv, TypeOK
<1>2. SideEffects
  <2>1. \E v \in ZuhalAnswer : Answered(v) /\ UNCHANGED <<halted, hist>>
      BY DEF ZuhalProbe, RescueProbe
  <2>2. spent' = spent + 0 /\ (billed' = billed + 0 \/ billed' = billed + 1)
      BY <2>1 DEF Answered, Cost
  <2>3. spent \in Nat /\ billed \in Nat /\ halted \in BOOLEAN /\ hist \in [Records -> History]
      BY DEF IInv, TypeOK
  <2>4. QED
      BY <2>1, <2>2, <2>3 DEF SideEffects
<1>3. \/ \E v \in ZuhalAnswer : Go(r, [task[r] EXCEPT !.pc = "settle", !.paid = v])
      \/ Go(r, [task[r] EXCEPT !.pc = "fallback"])
    BY DEF ZuhalProbe, RescueProbe
<1>4. ASSUME NEW v \in ZuhalAnswer, Go(r, [task[r] EXCEPT !.pc = "settle", !.paid = v])
      PROVE  IInv'
  <2> DEFINE t == [task[r] EXCEPT !.pc = "settle", !.paid = v]
  <2>1. t \in Task /\ t.i = task[r].i /\ t.cands = task[r].cands
      BY <1>1 DEF Task, PC
  <2> HIDE DEF t
  <2>2. QED
      BY <1>1, <1>2, <1>4, <2>1, ContinueKeeps DEF t
<1>5. CASE Go(r, [task[r] EXCEPT !.pc = "fallback"])
  <2> DEFINE t == [task[r] EXCEPT !.pc = "fallback"]
  <2>1. t \in Task /\ t.i = task[r].i /\ t.cands = task[r].cands
      BY <1>1 DEF Task, PC
  <2> HIDE DEF t
  <2>2. QED
      BY <1>1, <1>2, <1>5, <2>1, ContinueKeeps DEF t
<1>6. QED
    BY <1>3, <1>4, <1>5

\* The verdict of a paid call is written as any other terminal verdict.
LEMMA SettleKeeps ==
    ASSUME IInv, NEW r \in Records, Settle(r)
    PROVE  IInv'
<1> DEFINE s == IF task[r].paid \in {"valid", "catch_all"} THEN "VALIDATED"
                                                         ELSE "VALIDATION_FAILED"
<1>1. /\ task[r].pc = "settle" /\ TaskFrame
      /\ Finish(r, update_record_dual(row[r], s, task[r].paid, current(r).addr, 1, "none"))
    BY DEF Settle, settled
<1>2. SideEffects
    BY DEF Settle, Cost, IInv, TypeOK, SideEffects
<1>3. s \in States
    BY DEF States
<1>4. current(r).addr \in Emails
    BY <1>1, CurrentCandidate
<1> HIDE DEF s
<1>5. QED
    BY <1>1, <1>2, <1>3, <1>4, DualKeeps

\* The second half of the fallback check, entered with the task's own state or
\* that state after a harvest.
LEMMA TrySerperKeeps ==
    ASSUME IInv, NEW r \in Records, task[r].pc \in {"fallback", "harvest"},
           TrySerper(r, task[r]), TaskFrame, SideEffects
    PROVE  IInv'
<1>1. task[r] \in Task
    BY DEF IInv, TypeOK
<1>2. CASE Go(r, [task[r] EXCEPT !.pc = "next"])
  <2> DEFINE t == [task[r] EXCEPT !.pc = "next"]
  <2>1. t \in Task /\ t.i = task[r].i /\ t.cands = task[r].cands
      BY <1>1 DEF Task, PC
  <2> HIDE DEF t
  <2>2. QED
      BY <1>2, <2>1, ContinueKeeps DEF t
<1>3. CASE Finish(r, update_record_status(row[r], "COST_SKIPPED"))
    BY <1>3, StatusKeeps DEF States
<1>4. CASE Go(r, [task[r] EXCEPT !.pc = "serper", !.serper = TRUE])
  <2> DEFINE t == [task[r] EXCEPT !.pc = "serper", !.serper = TRUE]
  <2>1. t \in Task /\ t.i = task[r].i /\ t.cands = task[r].cands
      BY <1>1 DEF Task, PC
  <2> HIDE DEF t
  <2>2. QED
      BY <1>4, <2>1, ContinueKeeps DEF t
<1>5. QED
    BY <1>2, <1>3, <1>4 DEF TrySerper

\* The fallback check itself.
LEMMA FallbackKeeps ==
    ASSUME IInv, NEW r \in Records, Fallback(r)
    PROVE  IInv'
<1>1. task[r].pc = "fallback" /\ TaskFrame /\ SideEffects /\ task[r] \in Task
    BY NoSideEffects DEF Fallback, IInv, TypeOK
<1>2. CASE Go(r, [task[r] EXCEPT !.pc = "next"])
  <2> DEFINE t == [task[r] EXCEPT !.pc = "next"]
  <2>1. t \in Task /\ t.i = task[r].i /\ t.cands = task[r].cands
      BY <1>1 DEF Task, PC
  <2> HIDE DEF t
  <2>2. QED
      BY <1>1, <1>2, <2>1, ContinueKeeps DEF t
<1>3. CASE Go(r, [task[r] EXCEPT !.pc = "harvest", !.harvested = TRUE])
  <2> DEFINE t == [task[r] EXCEPT !.pc = "harvest", !.harvested = TRUE]
  <2>1. t \in Task /\ t.i = task[r].i /\ t.cands = task[r].cands
      BY <1>1 DEF Task, PC
  <2> HIDE DEF t
  <2>2. QED
      BY <1>1, <1>3, <2>1, ContinueKeeps DEF t
<1>4. CASE TrySerper(r, task[r])
    BY <1>1, <1>4, TrySerperKeeps
<1>5. QED
    BY <1>2, <1>3, <1>4 DEF Fallback

\* A task whose list of candidates has grown stands where it stood.
LEMMA GrownKeeps ==
    ASSUME IInv, NEW r \in Records, task[r].pc \notin {"idle", "queued", "next"},
           NEW new \in Seq(Candidate), NEW b \in Nat,
           Go(r, [task[r] EXCEPT !.pc = "next", !.cands = @ \o new, !.boundary = b]),
           TaskFrame, SideEffects
    PROVE  IInv'
<1> DEFINE cs == task[r].cands \o new
           t == [task[r] EXCEPT !.pc = "next", !.cands = cs, !.boundary = b]
<1>1. task[r] \in Task /\ task[r].cands \in Seq(Candidate) /\ task[r].i \in 1 .. Len(task[r].cands)
    BY DEF IInv, TypeOK, TaskInv, Task
<1>2. cs \in Seq(Candidate) /\ Len(cs) = Len(task[r].cands) + Len(new)
    BY <1>1
<1>3. task[r].i <= Len(cs)
    BY <1>1, <1>2
<1> HIDE DEF cs
<1>4. t \in Task /\ t.pc = "next" /\ t.i = task[r].i /\ t.cands = cs
    BY <1>1, <1>2 DEF Task, PC
<1>5. Go(r, t)
    BY DEF cs
<1> HIDE DEF t
<1>6. TaskInv(t, row[r])
    BY <1>3, <1>4, WorkingTask DEF TaskInv
<1>7. QED
    BY <1>4, <1>5, <1>6, GoKeeps

\* What a fallback may add is a list of candidates.
LEMMA UnseenType ==
    ASSUME NEW finds, finds \subseteq Seq(Candidate), NEW cands, NEW new \in Unseen(finds, cands)
    PROVE  new \in Seq(Candidate)
<1>1. <<>> \in Seq(Candidate)
    OBVIOUS
<1>2. new \in {<<>>} \/ new \in finds
    BY DEF Unseen
<1>3. QED
    BY <1>1, <1>2

\* The free fallback adds scraped addresses or goes on to the paid one.
LEMMA HarvestKeeps ==
    ASSUME IInv, NEW r \in Records, inject_harvest_fallback(r)
    PROVE  IInv'
<1>1. task[r].pc = "harvest" /\ TaskFrame /\ SideEffects /\ task[r] \in Task
    BY NoSideEffects DEF inject_harvest_fallback, IInv, TypeOK
<1>2. PICK new \in Unseen(HarvestFinds, task[r].cands) :
          IF new # <<>>
          THEN Go(r, [task[r] EXCEPT !.pc = "next", !.cands = @ \o new,
                                     !.boundary = @ + Len(new)])
          ELSE TrySerper(r, task[r])
    BY DEF inject_harvest_fallback
<1>3. new \in Seq(Candidate)
    BY UnseenType, DispatcherAssumption
<1>4. task[r].boundary + Len(new) \in Nat
    BY <1>1, <1>3 DEF Task
<1>5. CASE new # <<>>
    BY <1>1, <1>2, <1>3, <1>4, <1>5, GrownKeeps
<1>6. CASE new = <<>>
    BY <1>1, <1>2, <1>6, TrySerperKeeps
<1>7. QED
    BY <1>5, <1>6

\* The paid fallback adds addresses, marks the row as enriched unless that
\* fails, and charges its calls.
LEMMA SerperKeeps ==
    ASSUME IInv, NEW r \in Records, inject_serper_fallback(r)
    PROVE  IInv'
<1>1. task[r].pc = "serper" /\ TaskFrame /\ task[r] \in Task /\ row[r] \in Row
    BY DEF inject_serper_fallback, IInv, TypeOK
<1>2. PICK new \in Unseen(SerperFinds, task[r].cands), calls \in 0 .. SerperCalls :
          /\ task' = [task EXCEPT ![r].pc = "next", ![r].cands = @ \o new]
          /\ row' = row \/ row' = [row EXCEPT ![r] = mark_serper_enriched(@)]
          /\ Cost(calls, 0)
    BY DEF inject_serper_fallback
<1>3. SideEffects
  <2>1. calls \in Nat
      BY DispatcherAssumption
  <2>2. halted' = halted /\ hist' = hist
      BY DEF inject_serper_fallback
  <2>3. QED
      BY <1>2, <2>1, <2>2 DEF Cost, IInv, TypeOK, SideEffects
<1> DEFINE cs == task[r].cands \o new
           t == [task[r] EXCEPT !.pc = "next", !.cands = cs]
           x == mark_serper_enriched(row[r])
<1>4. task[r].cands \in Seq(Candidate) /\ task[r].i \in 1 .. Len(task[r].cands)
    BY <1>1 DEF IInv, TaskInv, Task
<1>5. cs \in Seq(Candidate) /\ Len(cs) = Len(task[r].cands) + Len(new)
    BY <1>4, UnseenType, DispatcherAssumption
<1>6. task[r].i <= Len(cs)
    BY <1>4, <1>5, UnseenType, DispatcherAssumption
<1>7. task' = [task EXCEPT ![r] = t]
    BY <1>2 DEF IInv, TypeOK
<1> HIDE DEF cs
<1>8. t \in Task /\ t.pc = "next" /\ t.i = task[r].i /\ t.cands = cs
    BY <1>1, <1>5 DEF Task, PC
<1>9. x \in Row /\ x.state = row[r].state /\ SameCounters(row[r], x)
    BY <1>1, EnrichedRow
<1>10. row' = row \/ row' = [row EXCEPT ![r] = x]
    BY <1>2
<1> HIDE DEF t, x
<1>11. TaskInv(t, row[r]) /\ TaskInv(t, x)
    BY <1>1, <1>6, <1>8, <1>9, WorkingTask DEF TaskInv, SameCounters
<1>12. CASE row' = row
    BY <1>1, <1>3, <1>7, <1>8, <1>11, <1>12, GoKeeps DEF Go
<1>13. CASE row' = [row EXCEPT ![r] = x]
  <2>1. row' \in [Records -> Row] /\ task' \in [Records -> Task]
      BY <1>7, <1>8, <1>9, <1>13 DEF IInv, TypeOK
  <2>2. /\ row'[r] = x /\ task'[r] = t
        /\ \A q \in Records : q # r => row'[q] = row[q] /\ task'[q] = task[q]
      BY <1>7, <1>13 DEF IInv, TypeOK
  <2>3. TypeOK'
      BY <1>1, <1>3, <2>1 DEF IInv, TypeOK, TaskFrame, runVars, SideEffects
  <2>4. TasksOwnClaims'
      BY <1>1, <1>9, <2>2 DEF IInv, TasksOwnClaims, TaskFrame
  <2>5. BudgetsHold'
      BY <1>1, <1>9, <2>2 DEF IInv, BudgetsHold, TaskFrame, runVars, SameCounters
  <2>6. (\A q \in Records : TaskInv(task[q], row[q]))'
      BY <1>11, <2>2 DEF IInv
  <2>7. QED
      BY <2>3, <2>4, <2>5, <2>6 DEF IInv
<1>14. QED
    BY <1>10, <1>12, <1>13

-----------------------------------------------------------------------------
(* The poll loop and the surroundings. *)

\* A step that leaves rows and tasks alone, and moves the loop away from gather
\* only when every task is idle, keeps the invariant.
LEMMA LoopKeeps ==
    ASSUME IInv, UNCHANGED <<row, task, starts>>,
           mode' \in Modes, empties' \in 0 .. EmptyThreshold, stop' \in BOOLEAN,
           halted' \in BOOLEAN, producerDone' \in BOOLEAN,
           mode = "gather" => mode' = "gather" \/ \A r \in Records : task[r].pc = "idle",
           UNCHANGED <<costVars, hist, conf>>
    PROVE  IInv'
<1>1. TypeOK'
    BY DEF IInv, TypeOK, costVars
<1>2. TasksOwnClaims'
    BY DEF IInv, TasksOwnClaims
<1>3. BudgetsHold'
    BY DEF IInv, BudgetsHold
<1>4. (\A r \in Records : TaskInv(task[r], row[r]))'
    BY DEF IInv
<1>5. QED
    BY <1>1, <1>2, <1>3, <1>4 DEF IInv

\* A step that changes rows nobody works on, and no task, keeps it when the
\* rows stay within the budgets.
LEMMA RowsKeep ==
    ASSUME IInv, row' \in [Records -> Row], task' = task,
           \A r \in Records : task[r].pc # "idle" => row'[r] = row[r],
           \A r \in Records : WithinBudget(row'[r], starts'),
           TypeOK', mode = "gather" => mode' = "gather"
    PROVE  IInv'
<1>1. TasksOwnClaims'
    BY DEF IInv, TasksOwnClaims
<1>2. BudgetsHold'
    BY DEF BudgetsHold, WithinBudget
<1>3. (\A r \in Records : TaskInv(task[r], row[r]))'
  <2>1. ASSUME NEW r \in Records
        PROVE  TaskInv(task[r], row'[r])
    <3>1. CASE task[r].pc = "idle"
        BY <3>1 DEF TaskInv
    <3>2. CASE task[r].pc # "idle"
        BY <3>2 DEF IInv
    <3>3. QED
        BY <3>1, <3>2
  <2>2. QED
      BY <2>1
<1>4. QED
    BY <1>1, <1>2, <1>3 DEF IInv

\* A new run finds no task, and adds at most one attempt to a row it recovers.
LEMMA StartKeeps ==
    ASSUME IInv, Start
    PROVE  IInv'
<1>1. \A r \in Records : task[r].pc = "idle"
    BY DEF IInv, TasksOwnClaims, Start, running
<1>2. /\ row' = [r \in Records |-> recover_stale_validating(row[r])]
      /\ task' = task /\ starts' = starts + 1 /\ mode' = "poll"
      /\ starts \in Nat /\ starts < MaxStarts /\ MaxStarts \in Nat /\ MaxAttempts \in Nat
    BY DispatcherAssumption DEF Start, IInv, TypeOK
<1>3. \A r \in Records :
          /\ row'[r] \in Row /\ row'[r].attempts \in {row[r].attempts, row[r].attempts + 1}
          /\ row'[r].requeues = row[r].requeues /\ row'[r].tunnel = row[r].tunnel
          /\ row'[r].bbops = row[r].bbops /\ row[r].attempts \in Nat
  <2>1. \A r \in Records : row'[r] = recover_stale_validating(row[r]) /\ row[r] \in Row
      BY <1>2 DEF IInv, TypeOK
  <2>2. ASSUME NEW x \in Row
        PROVE  x.attempts \in Nat
      BY DEF Row
  <2>3. QED
      BY <2>1, <2>2, RecoverRow
<1>4. row' \in [Records -> Row]
    BY <1>2, <1>3
<1>5. \A r \in Records : WithinBudget(row'[r], starts')
    BY <1>2, <1>3 DEF IInv, BudgetsHold, WithinBudget
<1>6. starts' \in 0 .. MaxStarts
    BY <1>2
<1>7. TypeOK'
  <2>1. /\ mode' \in Modes /\ empties' \in 0 .. EmptyThreshold /\ conf' \in Confs
        /\ stop' = FALSE /\ halted' = FALSE /\ spent' = 0 /\ billed' = 0
        /\ UNCHANGED <<producerDone, task, hist>>
      BY DEF Start, Modes, EmptyThreshold
  <2>2. QED
      BY <1>4, <1>6, <2>1 DEF IInv, TypeOK
<1>8. mode # "gather"
    BY DEF Start, running
<1>9. QED
    BY <1>1, <1>2, <1>4, <1>5, <1>7, <1>8, RowsKeep

\* A chunk is claimed when every task is idle; its rows are claimed and queued.
LEMMA ClaimKeeps ==
    ASSUME IInv, NEW chunk \in SUBSET Records, Claim(chunk)
    PROVE  IInv'
<1>1. \A r \in Records : task[r].pc = "idle"
    BY DEF IInv, TasksOwnClaims, Claim
<1> DEFINE queued == [Idle EXCEPT !.pc = "queued"]
<1>2. queued \in Task /\ queued.pc = "queued"
    BY IdleType DEF Idle, Task, PC
<1>3. \A r \in Records :
          LET y == fetch_pending_validation(row[r]) IN
          y \in Row /\ y.state = "VALIDATING" /\ SameCounters(row[r], y)
    BY ClaimRow DEF IInv, TypeOK
<1>4. \A r \in Records :
          /\ r \in chunk => row'[r] = fetch_pending_validation(row[r]) /\ task'[r] = queued
          /\ r \notin chunk => row'[r] = row[r] /\ task'[r] = task[r]
    BY DEF Claim
<1> HIDE DEF queued
<1>5. row' \in [Records -> Row] /\ task' \in [Records -> Task]
  <2>1. /\ row' = [r \in Records |-> IF r \in chunk THEN fetch_pending_validation(row[r]) ELSE row[r]]
        /\ task' = [r \in Records |-> IF r \in chunk THEN queued ELSE task[r]]
      BY DEF Claim, queued
  <2>2. QED
      BY <1>2, <1>3, <2>1 DEF IInv, TypeOK
<1>6. TypeOK'
    BY <1>5 DEF Claim, IInv, TypeOK, Modes, EmptyThreshold, costVars, runVars
<1>7. TasksOwnClaims'
    BY <1>1, <1>3, <1>4 DEF TasksOwnClaims, Claim
<1>8. BudgetsHold'
    BY <1>3, <1>4 DEF IInv, BudgetsHold, SameCounters, Claim, runVars
<1>9. (\A r \in Records : TaskInv(task[r], row[r]))'
    BY <1>1, <1>2, <1>4 DEF TaskInv
<1>10. QED
    BY <1>6, <1>7, <1>8, <1>9 DEF IInv

\* The loop's own moves.
LEMMA LoopStepKeeps ==
    ASSUME IInv, LoopStep
    PROVE  IInv'
<1> USE DEF IInv, TypeOK, Modes, runVars
<1>1. ASSUME NEW chunk \in SUBSET Records, Claim(chunk)
      PROVE  IInv'
    BY <1>1, ClaimKeeps
<1>2. CASE PollEmpty
  <2>1. empties' \in 0 .. EmptyThreshold /\ mode = "poll" /\ mode' = "readDone"
      BY <1>2 DEF PollEmpty, EmptyThreshold
  <2>2. UNCHANGED <<row, producerDone, task, stop, halted, costVars, hist, conf, starts>>
      BY <1>2 DEF PollEmpty
  <2>3. QED
      BY <2>1, <2>2, LoopKeeps
<1>3. CASE ReadProducerDone
    BY <1>3, LoopKeeps DEF ReadProducerDone
<1>4. CASE CheckPending
    BY <1>4, LoopKeeps DEF CheckPending, EmptyThreshold
<1>5. CASE Gathered
    BY <1>5, LoopKeeps DEF Gathered
<1>6. CASE StopSeen
    BY <1>6, LoopKeeps DEF StopSeen
<1>7. QED
    BY <1>1, <1>2, <1>3, <1>4, <1>5, <1>6 DEF LoopStep

\* Everything around the loop and the tasks.
LEMMA EnvironmentKeeps ==
    ASSUME IInv, Environment
    PROVE  IInv'
<1>1. CASE Start
    BY <1>1, StartKeeps
<1>2. CASE Stop
    BY <1>2, LoopKeeps DEF Stop, IInv, TypeOK, loopVars, runVars
<1>3. CASE ProducerEnds
    BY <1>3, LoopKeeps DEF ProducerEnds, IInv, TypeOK, loopVars, runVars
<1>4. CASE Crash
  <2>1. /\ row' = row /\ task' = [r \in Records |-> Idle] /\ mode' = "down"
        /\ empties' = 0 /\ stop' = FALSE /\ halted' = FALSE
        /\ UNCHANGED <<producerDone, costVars, hist, conf, starts>>
      BY <1>4 DEF Crash, runVars
  <2>2. TypeOK'
    <3>1. task' \in [Records -> Task]
        BY <2>1, IdleType
    <3>2. mode' \in Modes /\ empties' \in 0 .. EmptyThreshold
        BY <2>1 DEF Modes, EmptyThreshold
    <3>3. QED
        BY <2>1, <3>1, <3>2 DEF IInv, TypeOK, costVars
  <2>3. \A r \in Records : task'[r].pc = "idle"
      BY <2>1 DEF Idle
  <2>4. TasksOwnClaims' /\ (\A r \in Records : TaskInv(task[r], row[r]))'
      BY <2>3 DEF TasksOwnClaims, TaskInv
  <2>5. BudgetsHold'
      BY <2>1 DEF IInv, BudgetsHold
  <2>6. QED
      BY <2>2, <2>4, <2>5 DEF IInv
<1>5. CASE Reset
  <2>1. PICK s \in {"VALIDATION_FAILED", "COST_SKIPPED"}, p, u \in BOOLEAN :
            /\ row' = [r \in Records |-> reset_failed_records(row[r], s, p, u)]
            /\ hist' = [r \in Records |->
                   [hist[r] EXCEPT !.reset = @ \/ reset_failed_records(row[r], s, p, u) # row[r]]]
      BY <1>5 DEF Reset
  <2>2. /\ task' = task /\ mode' = mode /\ starts' = starts
        /\ UNCHANGED <<producerDone, empties, halted, stop, costVars, conf>>
        /\ mode # "gather" /\ starts \in Nat /\ MaxAttempts \in Nat
      BY <1>5, DispatcherAssumption DEF Reset, loopVars, runVars, running, IInv, TypeOK
  <2>3. \A r \in Records : task[r].pc = "idle"
      BY <2>2 DEF IInv, TasksOwnClaims
  <2>4. \A r \in Records :
            LET y == reset_failed_records(row[r], s, p, u) IN
            /\ y \in Row /\ y.requeues = row[r].requeues /\ y.tunnel = row[r].tunnel
            /\ y.bbops = row[r].bbops /\ (y.attempts = row[r].attempts \/ y.attempts = 0)
    <3>1. ASSUME NEW r \in Records
          PROVE  LET y == reset_failed_records(row[r], s, p, u) IN
                 /\ y \in Row /\ y.requeues = row[r].requeues /\ y.tunnel = row[r].tunnel
                 /\ y.bbops = row[r].bbops /\ (y.attempts = row[r].attempts \/ y.attempts = 0)
      <4>1. row[r] \in Row
          BY DEF IInv, TypeOK
      <4> DEFINE y == reset_failed_records(row[r], s, p, u)
      <4>2. /\ y \in Row
            /\ \/ y = row[r]
               \/ row[r].state = s /\ y.state = "DISCOVERED" /\ y.attempts = 0
            /\ y.requeues = row[r].requeues /\ y.tunnel = row[r].tunnel
            /\ y.bbops = row[r].bbops
          BY <4>1 DEF reset_failed_records, Row, States
      <4> HIDE DEF y
      <4>3. y.attempts = row[r].attempts \/ y.attempts = 0
          BY <4>2
      <4>4. QED
          BY <4>2, <4>3 DEF y
    <3>2. QED
        BY <3>1
  <2>5. row' \in [Records -> Row]
      BY <2>1, <2>4
  <2>6. \A r \in Records : WithinBudget(row'[r], starts')
      BY <2>1, <2>2, <2>4 DEF IInv, BudgetsHold, WithinBudget
  <2>7. hist' \in [Records -> History]
      BY <2>1 DEF IInv, TypeOK, History
  <2>8. TypeOK'
      BY <2>2, <2>5, <2>7 DEF IInv, TypeOK, costVars
  <2>9. QED
      BY <2>2, <2>3, <2>5, <2>6, <2>8, RowsKeep
<1>6. ASSUME NEW r \in Records, NEW x \in Row, row' = [row EXCEPT ![r] = x],
             x.requeues <= MaxRequeues, x.tunnel <= MaxTunnel, x.bbops <= MaxBbops,
             x.attempts <= MaxAttempts + starts,
             x.state = row[r].state \/ task[r].pc = "idle",
             x.requeues = row[r].requeues \/ task[r].pc = "idle",
             x.attempts = row[r].attempts \/ task[r].pc = "idle",
             UNCHANGED <<producerDone, task, loopVars, stop, costVars, hist, runVars>>
      PROVE  IInv'
  <2>1. /\ task' = task /\ mode' = mode /\ starts' = starts /\ row' \in [Records -> Row]
        /\ UNCHANGED <<producerDone, empties, halted, stop, costVars, hist, conf>>
      BY <1>6 DEF loopVars, runVars, IInv, TypeOK
  <2>2. row'[r] = x /\ \A q \in Records : q # r => row'[q] = row[q]
      BY <1>6 DEF IInv, TypeOK
  <2>3. TypeOK'
      BY <2>1 DEF IInv, TypeOK, costVars
  <2>4. TasksOwnClaims'
      BY <1>6, <2>1, <2>2 DEF IInv, TasksOwnClaims
  <2>5. BudgetsHold'
      BY <1>6, <2>1, <2>2 DEF IInv, BudgetsHold
  <2>6. (\A q \in Records : TaskInv(task[q], row[q]))'
      BY <1>6, <2>1, <2>2 DEF IInv, TaskInv
  <2>7. QED
      BY <2>3, <2>4, <2>5, <2>6 DEF IInv
<1>7. ASSUME NEW r \in Records, Produce(r)
      PROVE  IInv'
  <2> DEFINE x == FreshRow("DISCOVERED")
  <2>1. x \in Row /\ x.attempts = 0 /\ x.requeues = 0 /\ x.tunnel = 0 /\ x.bbops = 0
      BY FreshRowType DEF States, FreshRow
  <2>2. task[r].pc = "idle"
      BY <1>7 DEF Produce, IInv, TasksOwnClaims
  <2>3. /\ MaxRequeues \in Nat /\ MaxTunnel \in Nat /\ MaxBbops \in Nat
        /\ MaxAttempts + starts \in Nat
      BY DispatcherAssumption DEF IInv, TypeOK
  <2> HIDE DEF x
  <2>4. /\ row' = [row EXCEPT ![r] = x]
        /\ UNCHANGED <<producerDone, task, loopVars, stop, costVars, hist, runVars>>
      BY <1>7 DEF Produce, x
  <2>5. /\ x.requeues <= MaxRequeues /\ x.tunnel <= MaxTunnel /\ x.bbops <= MaxBbops
        /\ x.attempts <= MaxAttempts + starts
      BY <2>1, <2>3
  <2>6. QED
      BY <1>6, <2>1, <2>2, <2>4, <2>5
<1>8. ASSUME NEW r \in Records, HoldExpires(r) \/ GrowsStale(r)
      PROVE  IInv'
  <2>1. PICK x : /\ x = [row[r] EXCEPT !.held = FALSE] \/ x = [row[r] EXCEPT !.stale = TRUE]
                 /\ row' = [row EXCEPT ![r] = x]
      BY <1>8 DEF HoldExpires, GrowsStale, IInv, TypeOK
  <2>2. /\ x \in Row /\ x.state = row[r].state /\ x.requeues = row[r].requeues
        /\ x.attempts = row[r].attempts /\ x.tunnel = row[r].tunnel /\ x.bbops = row[r].bbops
      BY <2>1 DEF IInv, TypeOK, Row
  <2>3. WithinBudget(row[r], starts)
      BY DEF IInv, BudgetsHold, WithinBudget
  <2>4. UNCHANGED <<producerDone, task, loopVars, stop, costVars, hist, runVars>>
      BY <1>8 DEF HoldExpires, GrowsStale
  <2>5. QED
      BY <1>6, <2>1, <2>2, <2>3, <2>4 DEF WithinBudget
<1>9. ASSUME NEW r \in Records, TaskDies(r)
      PROVE  IInv'
    BY <1>9, TaskDiesKeeps
<1>10. QED
    BY <1>1, <1>2, <1>3, <1>4, <1>5, <1>7, <1>8, <1>9 DEF Environment

-----------------------------------------------------------------------------

\* IInv is inductive.
LEMMA Inductive ==
    /\ Init => IInv
    /\ IInv /\ [Next]_vars => IInv'
<1>1. ASSUME Init
      PROVE  IInv
  <2>1. /\ row = [r \in Records |-> FreshRow("ABSENT")]
        /\ \A r \in Records : FreshRow("ABSENT") \in Row
      BY <1>1, FreshRowType DEF Init, States
  <2>2. TypeOK
    <3>1. row \in [Records -> Row] /\ task \in [Records -> Task]
        BY <1>1, <2>1, IdleType DEF Init
    <3>2. mode \in Modes /\ empties \in 0 .. EmptyThreshold
        BY <1>1 DEF Init, Modes, EmptyThreshold
    <3>3. hist \in [Records -> History]
        BY <1>1 DEF Init, History
    <3>4. starts \in 0 .. MaxStarts
        BY <1>1, DispatcherAssumption DEF Init
    <3>5. QED
        BY <1>1, <3>1, <3>2, <3>3, <3>4 DEF Init, TypeOK
  <2>3. \A r \in Records : task[r].pc = "idle"
      BY <1>1 DEF Init, Idle
  <2>4. TasksOwnClaims /\ \A r \in Records : TaskInv(task[r], row[r])
      BY <2>3 DEF TasksOwnClaims, TaskInv
  <2>5. BudgetsHold
    <3>1. \A r \in Records : row[r].attempts = 0 /\ row[r].requeues = 0
                             /\ row[r].tunnel = 0 /\ row[r].bbops = 0
        BY <2>1 DEF FreshRow
    <3>2. /\ MaxRequeues \in Nat /\ MaxTunnel \in Nat /\ MaxBbops \in Nat
          /\ MaxAttempts \in Nat /\ starts = 0
        BY <1>1, DispatcherAssumption DEF Init
    <3>3. QED
        BY <3>1, <3>2 DEF BudgetsHold
  <2>6. QED
      BY <2>2, <2>4, <2>5 DEF IInv
<1>2. ASSUME IInv, [Next]_vars
      PROVE  IInv'
  <2>1. CASE LoopStep
      BY <1>2, <2>1, LoopStepKeeps
  <2>2. CASE Environment
      BY <1>2, <2>2, EnvironmentKeeps
  <2>3. ASSUME NEW r \in Records, TaskStep(r)
        PROVE  IInv'
      BY <1>2, <2>3, BeginKeeps, ExhaustedKeeps, NextCandidateKeeps, MsProbeKeeps,
         RunBackendsKeeps, HaltKeeps, CircuitOpenKeeps, ProbeKeeps, SettleKeeps,
         FallbackKeeps, HarvestKeeps, SerperKeeps DEF TaskStep
  <2>4. CASE UNCHANGED vars
      BY <1>2, <2>4 DEF vars, IInv, TypeOK, TasksOwnClaims, BudgetsHold
  <2>5. QED
      BY <1>2, <2>1, <2>2, <2>3, <2>4 DEF Next
<1>3. QED
    BY <1>1, <1>2

\* The inductive invariant holds in every reachable state.
THEOREM InvariantHolds == Spec => []IInv
BY Inductive, PTL DEF Spec

\* Every variable of the dispatcher has its type: tasks, rows and counters stay
\* in range and only canonical statuses are stored.
THEOREM TypesHold == Spec => []TypeOK
<1>1. IInv => TypeOK
    BY DEF IInv
<1>2. QED
    BY <1>1, InvariantHolds, PTL

\* The retry budgets hold for every number of records and runs and every limit
\* (dispatcher.py:203-217, 369, 387).
THEOREM BudgetsTheorem == Spec => []BudgetsHold
<1>1. IInv => BudgetsHold
    BY DEF IInv
<1>2. QED
    BY <1>1, InvariantHolds, PTL

\* A task works only on a claimed row and only while the loop waits for it: no
\* row has two owners, however runs are interrupted (dispatcher.py:168-169).
THEOREM OwnershipTheorem == Spec => []TasksOwnClaims
<1>1. IInv => TasksOwnClaims
    BY DEF IInv
<1>2. QED
    BY <1>1, InvariantHolds, PTL

=============================================================================
