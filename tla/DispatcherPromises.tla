------------------------- MODULE DispatcherPromises -------------------------
(***************************************************************************)
(* What Dispatcher promises about money and about verdicts, for every      *)
(* value of the constants: how far the ceiling may be overshot, that an    *)
(* answered call is charged, that a valid verdict is kept and that no      *)
(* record is given up without a search.                                    *)
(*                                                                         *)
(* The ceiling is read in one stretch of a task and raised in a later one. *)
(* MoneyMoves says what a step can do to a task's place and to the two     *)
(* counters together; the invariants count the tasks in between.           *)
(***************************************************************************)
EXTENDS DispatcherRefinement, FiniteSetTheorems

\* Where a task stands that has passed the ceiling and not been charged yet.
PayPC == {"zuhal", "rescue", "settle", "serper"}

Paying == {r \in Records : task[r].pc \in PayPC}

Settling == {r \in Records : task[r].pc = "settle"}

CostsKept == spent' = spent /\ billed' = billed

\* The moves of a task's place p to q together with the counters.
StaysFree(p, q) == p \notin PayPC /\ q \notin PayPC /\ CostsKept

PassesCeiling(p, q) ==
    /\ p \notin PayPC \cup {"idle", "queued"} /\ q \in PayPC \ {"settle"}
    /\ spent < Ceiling /\ CostsKept
    /\ q = "rescue" => conf.onBothInvalid

PaysNothing(p, q) ==
    /\ p \in PayPC \ {"settle"} /\ q \notin PayPC
    /\ spent' = spent /\ (p = "rescue" \/ billed' = billed)

IsAnswered(p, q) ==
    /\ p \in {"zuhal", "rescue"} /\ q = "settle"
    /\ spent' = spent /\ billed' \in {billed, billed + 1}

IsCharged(p, q) ==
    /\ p = "settle" /\ q \notin PayPC
    /\ spent' = spent + 1 /\ billed' = billed

IsSearched(p, q) ==
    /\ p = "serper" /\ q \notin PayPC
    /\ spent' \in spent .. (spent + SerperCalls) /\ billed' = billed

MoneyMove(r) ==
    LET p == task[r].pc  q == task'[r].pc IN
    \/ StaysFree(p, q) \/ PassesCeiling(p, q) \/ PaysNothing(p, q)
    \/ IsAnswered(p, q) \/ IsCharged(p, q) \/ IsSearched(p, q)

\* A task that begins has found a free place in the semaphore.
Enters(r) ==
    task[r].pc \in {"idle", "queued"} /\ task'[r].pc \notin {"idle", "queued"} =>
        Cardinality(Active) < Concurrency

-----------------------------------------------------------------------------
(* The moves, action by action. *)

\* The place of a task after Go or Finish.
LEMMA PlaceAfter ==
    ASSUME IInv, NEW r \in Records
    PROVE  /\ \A t : Go(r, t) => task'[r] = t
           /\ \A x : Finish(r, x) => task'[r] = Idle
BY DEF IInv, TypeOK, Go, Finish

\* Neither counter moves with the costs of a free step.
LEMMA FreeStep ==
    ASSUME NoCost
    PROVE  CostsKept
BY DEF NoCost, costVars, CostsKept

\* Beginning, giving up, the next candidate and the Microsoft probe are free.
LEMMA CandidateMoney ==
    ASSUME IInv, NEW r \in Records,
           Begin(r) \/ Exhausted(r) \/ NextCandidate(r) \/ MsProbe(r)
    PROVE  MoneyMove(r) /\ Enters(r)
<1>1. task[r] \in Task /\ task[r].pc \notin PayPC
  <2>1. CASE Begin(r) \/ Exhausted(r) \/ MsProbe(r)
      BY <2>1 DEF Begin, Exhausted, MsProbe, IInv, TypeOK, PayPC
  <2>2. CASE NextCandidate(r)
      BY <2>2 DEF NextCandidate, IInv, TypeOK, PayPC, Task
  <2>3. QED
      BY <2>1, <2>2
<1>2. CostsKept
    BY FreeStep DEF Begin, Exhausted, NextCandidate, MsProbe
<1>3. Idle.pc = "idle"
    BY DEF Idle
<1>4. task'[r].pc \notin PayPC
  <2>1. CASE Begin(r)
    <3> DEFINE t == [Idle EXCEPT !.pc = "next", !.cands = Cand[r],
                                 !.boundary = Len(Cand[r]), !.serper = row[r].enriched]
    <3>1. t.pc = "next"
        BY DEF Idle
    <3>2. Go(r, Idle) \/ Go(r, t) \/ \E x : Finish(r, x)
        BY <2>1 DEF Begin
    <3> HIDE DEF t
    <3>3. QED
        BY <1>3, <3>1, <3>2, PlaceAfter DEF PayPC
  <2>2. CASE Exhausted(r)
      BY <1>3, <2>2, PlaceAfter DEF Exhausted, PayPC
  <2>3. CASE NextCandidate(r)
    <3> DEFINE t == [task[r] EXCEPT !.i = @ + 1]
               u == [t EXCEPT !.pc = IF r \in Microsoft THEN "ms" ELSE "smtp"]
    <3>1. t.pc = "next" /\ u.pc \in {"ms", "smtp"}
        BY <1>1, <2>3 DEF NextCandidate, Task
    <3>2. Go(r, t) \/ Go(r, u) \/ \E x : Finish(r, x)
        BY <2>3 DEF NextCandidate
    <3> HIDE DEF t, u
    <3>3. QED
        BY <1>3, <3>1, <3>2, PlaceAfter DEF PayPC
  <2>4. CASE MsProbe(r)
    <3> DEFINE t == [task[r] EXCEPT !.pc = "next"]
               u == [task[r] EXCEPT !.pc = "smtp"]
    <3>1. t.pc = "next" /\ u.pc = "smtp"
        BY <1>1 DEF Task
    <3>2. Go(r, t) \/ Go(r, u) \/ \E x : Finish(r, x)
        BY <2>4 DEF MsProbe
    <3> HIDE DEF t, u
    <3>3. QED
        BY <1>3, <3>1, <3>2, PlaceAfter DEF PayPC
  <2>5. QED
      BY <2>1, <2>2, <2>3, <2>4
<1>5. MoneyMove(r)
    BY <1>1, <1>2, <1>4 DEF MoneyMove, StaysFree
<1>6. Enters(r)
  <2>1. CASE Begin(r)
      BY <2>1 DEF Begin, Enters
  <2>2. CASE Exhausted(r) \/ MsProbe(r)
      BY <2>2 DEF Exhausted, MsProbe, Enters
  <2>3. CASE NextCandidate(r)
      BY <1>1, <2>3 DEF NextCandidate, Enters, Task
  <2>4. QED
      BY <2>1, <2>2, <2>3
<1>7. QED
    BY <1>5, <1>6

\* What the backends bring is free; the two ways to a paid call ask for the
\* ceiling first, and that to a rescue for the setting (handle_inconclusive,
\* and the reject branch of dispatch_verdicts.py:206).
LEMMA BackendsMoney ==
    ASSUME IInv, NEW r \in Records, RunBackends(r)
    PROVE  MoneyMove(r) /\ Enters(r)
<1>1. task[r].pc = "smtp" /\ task[r] \in Task
    BY DEF RunBackends, IInv, TypeOK
<1>2. Idle.pc = "idle"
    BY DEF Idle
<1>3. PICK rk0 \in RkVerdicts, bb \in BbVerdicts :
          \/ TunnelRequeue(r, rk0, bb)
          \/ BbopsFailed(r, heard(rk0), bb)
          \/ Judge(r, heard(rk0), bb)
    BY DEF RunBackends
<1> DEFINE rk == heard(rk0)
           real == task[r].real \/ {rk, bb} \cap Definitive # {}
           heardReal == task[r].real \/ rk \in Definitive
           t == [task[r] EXCEPT !.rk = rk, !.real = real]
           u == [task[r] EXCEPT !.rk = rk, !.pc = "next", !.real = heardReal]
           at(pc) == [t EXCEPT !.pc = pc]
<1> HIDE DEF rk, real, heardReal
<1>4. u.pc = "next" /\ at("fallback").pc = "fallback" /\ at("zuhal").pc = "zuhal"
      /\ at("rescue").pc = "rescue"
    BY <1>1 DEF Task
<1> USE DEF rk, real, heardReal
<1>5. CostsKept
    BY <1>3, FreeStep DEF TunnelRequeue, BbopsFailed, Judge, HandleInconclusive, Accept, Reject
<1>6. \/ \E x : Finish(r, x)
      \/ Go(r, u)
      \/ Go(r, at("fallback"))
      \/ Go(r, at("zuhal")) /\ ~ceiling_reached
      \/ Go(r, at("rescue")) /\ ~ceiling_reached /\ conf.onBothInvalid
  <2>1. CASE TunnelRequeue(r, rk0, bb)
      BY <2>1 DEF TunnelRequeue
  <2>2. CASE BbopsFailed(r, rk, bb)
      BY <2>2 DEF BbopsFailed
  <2>3. CASE HandleInconclusive(r, rk, bb, t)
      BY <2>3 DEF HandleInconclusive
  <2>4. CASE Accept(r, rk, bb)
      BY <2>4 DEF Accept
  <2>5. CASE Reject(r, rk, bb, t)
      BY <2>5 DEF Reject
  <2>6. QED
      BY <1>3, <2>1, <2>2, <2>3, <2>4, <2>5 DEF Judge
<1> HIDE DEF u, at, t, rk, real, heardReal
<1>7. Enters(r)
    BY <1>1 DEF Enters
<1>8. CASE (\E x : Finish(r, x)) \/ Go(r, u) \/ Go(r, at("fallback"))
  <2>1. task'[r].pc \in {"idle", "next", "fallback"}
      BY <1>2, <1>4, <1>8, PlaceAfter
  <2>2. StaysFree(task[r].pc, task'[r].pc)
      BY <1>1, <1>5, <2>1 DEF StaysFree, PayPC
  <2>3. QED
      BY <1>7, <2>2 DEF MoneyMove
<1>9. CASE \/ Go(r, at("zuhal")) /\ ~ceiling_reached
           \/ Go(r, at("rescue")) /\ ~ceiling_reached /\ conf.onBothInvalid
  <2>1. spent < Ceiling
      BY <1>9, DispatcherAssumption DEF ceiling_reached, IInv, TypeOK
  <2>2. task'[r].pc \in {"zuhal", "rescue"} /\ (task'[r].pc = "rescue" => conf.onBothInvalid)
      BY <1>4, <1>9, PlaceAfter
  <2>3. PassesCeiling(task[r].pc, task'[r].pc)
      BY <1>1, <1>5, <2>1, <2>2 DEF PassesCeiling, PayPC
  <2>4. QED
      BY <1>7, <2>3 DEF MoneyMove
<1>10. QED
    BY <1>6, <1>7, <1>8, <1>9

\* The steps of the rescue: a call is dropped, answered or charged.
LEMMA PaidMoney ==
    ASSUME IInv, NEW r \in Records,
           Halt(r) \/ CircuitOpen(r) \/ ZuhalProbe(r) \/ RescueProbe(r) \/ Settle(r)
    PROVE  MoneyMove(r) /\ Enters(r)
<1>1. task[r].pc \in PayPC /\ task[r] \in Task
    BY DEF Halt, CircuitOpen, ZuhalProbe, RescueProbe, Settle, IInv, TypeOK, PayPC
<1>2. Enters(r)
    BY <1>1 DEF Enters, PayPC
<1>3. Idle.pc = "idle" /\ spent \in Nat /\ billed \in Nat
    BY DEF Idle, IInv, TypeOK
<1>4. CASE Halt(r) \/ CircuitOpen(r)
  <2>1. task[r].pc \in PayPC \ {"settle"} /\ task'[r].pc = "idle" /\ CostsKept
      BY <1>3, <1>4, PlaceAfter, FreeStep DEF Halt, CircuitOpen, PayPC
  <2>2. PaysNothing(task[r].pc, task'[r].pc)
      BY <2>1 DEF PaysNothing, PayPC, CostsKept
  <2>3. QED
      BY <1>2, <2>2 DEF MoneyMove
<1>5. ASSUME NEW v \in ZuhalAnswer, Answered(v)
      PROVE  spent' = spent /\ billed' \in {billed, billed + 1}
    BY <1>3, <1>5 DEF Answered, Cost
<1>6. ASSUME NEW v \in ZuhalAnswer, Answered(v), task[r].pc \in {"zuhal", "rescue"},
             Go(r, [task[r] EXCEPT !.pc = "settle", !.paid = v])
      PROVE  MoneyMove(r) /\ Enters(r)
  <2> DEFINE t == [task[r] EXCEPT !.pc = "settle", !.paid = v]
  <2>1. t.pc = "settle"
      BY <1>1 DEF Task
  <2> HIDE DEF t
  <2>2. task'[r].pc = "settle"
      BY <1>6, <2>1, PlaceAfter DEF t
  <2>3. IsAnswered(task[r].pc, task'[r].pc)
      BY <1>5, <1>6, <2>2 DEF IsAnswered
  <2>4. QED
      BY <1>2, <2>3 DEF MoneyMove
<1>7. CASE ZuhalProbe(r)
    BY <1>6, <1>7 DEF ZuhalProbe
<1>8. CASE RescueProbe(r)
  <2>1. PICK v \in ZuhalAnswer :
            /\ Go(r, IF v \in {"valid", "catch_all"}
                     THEN [task[r] EXCEPT !.pc = "settle", !.paid = v]
                     ELSE [task[r] EXCEPT !.pc = "fallback"])
            /\ Answered(v)
      BY <1>8 DEF RescueProbe
  <2>2. task[r].pc = "rescue"
      BY <1>8 DEF RescueProbe
  <2>3. CASE v \in {"valid", "catch_all"}
      BY <1>6, <2>1, <2>2, <2>3
  <2>4. CASE v \notin {"valid", "catch_all"}
    <3> DEFINE t == [task[r] EXCEPT !.pc = "fallback"]
    <3>1. t.pc = "fallback"
        BY <1>1 DEF Task
    <3> HIDE DEF t
    <3>2. task'[r].pc = "fallback"
        BY <2>1, <2>4, <3>1, PlaceAfter DEF t
    <3>3. PaysNothing(task[r].pc, task'[r].pc)
        BY <1>5, <2>1, <2>2, <3>2 DEF PaysNothing, PayPC
    <3>4. QED
        BY <1>2, <3>3 DEF MoneyMove
  <2>5. QED
      BY <2>3, <2>4
<1>9. CASE Settle(r)
  <2>1. task[r].pc = "settle" /\ task'[r].pc = "idle"
      BY <1>3, <1>9, PlaceAfter DEF Settle
  <2>2. spent' = spent + 1 /\ billed' = billed
      BY <1>3, <1>9 DEF Settle, Cost
  <2>3. IsCharged(task[r].pc, task'[r].pc)
      BY <2>1, <2>2 DEF IsCharged, PayPC
  <2>4. QED
      BY <1>2, <2>3 DEF MoneyMove
<1>10. QED
    BY <1>4, <1>7, <1>8, <1>9

\* The fallbacks: the search asks for the ceiling first and is charged at its end.
LEMMA FallbackMoney ==
    ASSUME IInv, NEW r \in Records,
           Fallback(r) \/ inject_harvest_fallback(r) \/ inject_serper_fallback(r)
    PROVE  MoneyMove(r) /\ Enters(r)
<1>1. task[r].pc \in {"fallback", "harvest", "serper"} /\ task[r] \in Task
    BY DEF Fallback, inject_harvest_fallback, inject_serper_fallback, IInv, TypeOK
<1>2. Enters(r)
    BY <1>1 DEF Enters
<1>3. Idle.pc = "idle" /\ spent \in Nat /\ billed \in Nat
    BY DEF Idle, IInv, TypeOK
<1>4. ASSUME task[r].pc \in {"fallback", "harvest"}, CostsKept, TrySerper(r, task[r])
      PROVE  MoneyMove(r)
  <2> DEFINE t == [task[r] EXCEPT !.pc = "next"]
             u == [task[r] EXCEPT !.pc = "serper", !.serper = TRUE]
  <2>1. t.pc = "next" /\ u.pc = "serper"
      BY <1>1 DEF Task
  <2>2. Go(r, t) \/ (\E x : Finish(r, x)) \/ (Go(r, u) /\ ~ceiling_reached)
      BY <1>4 DEF TrySerper
  <2> HIDE DEF t, u
  <2>3. CASE Go(r, t) \/ \E x : Finish(r, x)
      BY <1>3, <1>4, <2>1, <2>3, PlaceAfter DEF MoneyMove, StaysFree, PayPC
  <2>4. CASE Go(r, u) /\ ~ceiling_reached
    <3>1. spent < Ceiling
        BY <1>3, <2>4, DispatcherAssumption DEF ceiling_reached
    <3>2. task'[r].pc = "serper"
        BY <2>1, <2>4, PlaceAfter
    <3>3. PassesCeiling(task[r].pc, task'[r].pc)
        BY <1>4, <3>1, <3>2 DEF PassesCeiling, PayPC
    <3>4. QED
        BY <3>3 DEF MoneyMove
  <2>5. QED
      BY <2>2, <2>3, <2>4
<1>5. ASSUME NEW t, Go(r, t), t.pc \in {"next", "harvest"}, CostsKept,
             task[r].pc \in {"fallback", "harvest"}
      PROVE  MoneyMove(r)
    BY <1>5, PlaceAfter DEF MoneyMove, StaysFree, PayPC
<1>6. CASE Fallback(r)
  <2> DEFINE t == [task[r] EXCEPT !.pc = "next"]
             u == [task[r] EXCEPT !.pc = "harvest", !.harvested = TRUE]
  <2>1. t.pc = "next" /\ u.pc = "harvest"
      BY <1>1 DEF Task
  <2>2. Go(r, t) \/ Go(r, u) \/ TrySerper(r, task[r])
      BY <1>6 DEF Fallback
  <2>3. task[r].pc = "fallback" /\ CostsKept
      BY <1>6, FreeStep DEF Fallback
  <2> HIDE DEF t, u
  <2>4. QED
      BY <1>2, <1>4, <1>5, <2>1, <2>2, <2>3
<1>7. CASE inject_harvest_fallback(r)
  <2>1. task[r].pc = "harvest" /\ CostsKept
      BY <1>7, FreeStep DEF inject_harvest_fallback
  <2>2. PICK new : \/ Go(r, [task[r] EXCEPT !.pc = "next", !.cands = @ \o new,
                                            !.boundary = @ + Len(new)])
                   \/ TrySerper(r, task[r])
      BY <1>7 DEF inject_harvest_fallback
  <2> DEFINE t == [task[r] EXCEPT !.pc = "next", !.cands = @ \o new, !.boundary = @ + Len(new)]
  <2>3. t.pc = "next"
      BY <1>1 DEF Task
  <2>4. Go(r, t) \/ TrySerper(r, task[r])
      BY <2>2
  <2> HIDE DEF t
  <2>5. QED
      BY <1>2, <1>4, <1>5, <2>1, <2>3, <2>4
<1>8. CASE inject_serper_fallback(r)
  <2>1. PICK new \in Unseen(SerperFinds, task[r].cands), calls \in 0 .. SerperCalls :
            /\ task' = [task EXCEPT ![r].pc = "next", ![r].cands = @ \o new]
            /\ Cost(calls, 0)
      BY <1>8 DEF inject_serper_fallback
  <2>2. task[r].pc = "serper"
      BY <1>8 DEF inject_serper_fallback
  <2>3. task'[r].pc = "next"
      BY <1>1, <2>1 DEF IInv, TypeOK, Task
  <2>4. spent' \in spent .. (spent + SerperCalls) /\ billed' = billed
      BY <1>3, <2>1, DispatcherAssumption DEF Cost
  <2>5. IsSearched(task[r].pc, task'[r].pc)
      BY <2>2, <2>3, <2>4 DEF IsSearched, PayPC
  <2>6. QED
      BY <1>2, <2>5 DEF MoneyMove
<1>9. QED
    BY <1>6, <1>7, <1>8

\* Every step of a task is one of the moves, and only its own.
LEMMA MoneyMoves ==
    ASSUME IInv, NEW r \in Records, TaskStep(r)
    PROVE  /\ MoneyMove(r) /\ Enters(r)
           /\ \A q \in Records : q # r => task'[q] = task[q]
           /\ mode' = mode /\ conf' = conf
<1>1. MoneyMove(r) /\ Enters(r)
    BY CandidateMoney, BackendsMoney, PaidMoney, FallbackMoney DEF TaskStep
<1>2. \A q \in Records : q # r => task'[q] = task[q]
    BY TaskOutcome DEF Outcome, ClaimKept, RowWritten
<1>3. mode' = mode /\ conf' = conf
    BY TaskTouches DEF TaskFrame, runVars
<1>4. QED
    BY <1>1, <1>2, <1>3

-----------------------------------------------------------------------------
(* The other steps. *)

\* A step of the loop or of the surroundings leaves tasks idle, queued or as
\* they were, and either leaves the costs alone or starts them afresh when
\* nobody is at work.
QuietMove ==
    /\ \A r \in Records : task'[r].pc \in {"idle", "queued"} \/ task'[r] = task[r]
    /\ \/ /\ CostsKept /\ conf' = conf
          /\ running' => /\ running
                        /\ \A r \in Records : task[r].pc = "settle" => task'[r] = task[r]
       \/ spent' = 0 /\ billed' = 0 /\ \A r \in Records : task'[r].pc = "idle"

\* A step that changes no task and no cost, and does not start a run, is quiet.
LEMMA SameTasksQuiet ==
    ASSUME UNCHANGED <<task, costVars, conf>>, running' => running
    PROVE  QuietMove
BY DEF QuietMove, CostsKept, costVars

\* The loop queues tasks when none is at work.
LEMMA LoopQuiet ==
    ASSUME IInv, LoopStep
    PROVE  QuietMove
<1>1. ASSUME NEW chunk \in SUBSET Records, Claim(chunk)
      PROVE  QuietMove
  <2>1. \A r \in Records : task[r].pc = "idle"
      BY <1>1 DEF IInv, TasksOwnClaims, Claim
  <2>2. [Idle EXCEPT !.pc = "queued"].pc = "queued"
      BY DEF Idle
  <2>3. \A r \in Records : task'[r].pc = "queued" \/ task'[r] = task[r]
      BY <1>1, <2>2 DEF Claim
  <2>4. CostsKept /\ conf' = conf /\ running
      BY <1>1 DEF Claim, costVars, runVars, CostsKept, running
  <2>5. QED
      BY <2>1, <2>3, <2>4 DEF QuietMove
<1>2. CASE PollEmpty \/ ReadProducerDone \/ CheckPending
    BY <1>2, SameTasksQuiet DEF PollEmpty, ReadProducerDone, CheckPending, runVars, running
<1>3. CASE Gathered \/ StopSeen
    BY <1>3, SameTasksQuiet DEF Gathered, StopSeen, runVars, running
<1>4. QED
    BY <1>1, <1>2, <1>3 DEF LoopStep

\* So are a start, a crash and whatever happens around the tasks, but for a task
\* that dies.
LEMMA EnvironmentQuiet ==
    ASSUME IInv, Environment
    PROVE  QuietMove \/ \E r \in Records : TaskDies(r)
<1>1. CASE Start
  <2>1. \A r \in Records : task[r].pc = "idle"
      BY <1>1 DEF IInv, TasksOwnClaims, Start, running
  <2>2. QED
      BY <1>1, <2>1 DEF Start, QuietMove
<1>2. CASE Crash
  <2>1. ~running'
      BY <1>2 DEF Crash, running
  <2>2. \A r \in Records : task'[r].pc = "idle"
      BY <1>2 DEF Crash, Idle
  <2>3. CostsKept /\ conf' = conf
      BY <1>2 DEF Crash, costVars, runVars, CostsKept
  <2>4. QED
      BY <2>1, <2>2, <2>3 DEF QuietMove
<1>3. CASE Stop \/ Reset \/ ProducerEnds
    BY <1>3, SameTasksQuiet DEF Stop, Reset, ProducerEnds, runVars, loopVars, running
<1>4. ASSUME NEW r \in Records, Produce(r) \/ HoldExpires(r) \/ GrowsStale(r)
      PROVE  QuietMove
    BY <1>4, SameTasksQuiet DEF Produce, HoldExpires, GrowsStale, runVars, loopVars, running
<1>5. QED
    BY <1>1, <1>2, <1>3, <1>4 DEF Environment

\* A task that dies is idle and nothing else.
LEMMA DyingTask ==
    ASSUME IInv, NEW r \in Records, TaskDies(r)
    PROVE  /\ Faults /\ task'[r].pc = "idle" /\ CostsKept
           /\ \A q \in Records : q # r => task'[q] = task[q]
<1>1. Go(r, Idle) /\ Faults /\ CostsKept
    BY FreeStep DEF TaskDies
<1>2. QED
    BY <1>1 DEF Go, Idle, IInv, TypeOK

-----------------------------------------------------------------------------
(* The ceiling. *)

\* Whoever may still add to the tracker holds the semaphore, and what they may
\* add together fits between the tracker and the bound.
SpendInv ==
    /\ IsFiniteSet(Active) /\ Cardinality(Active) <= Concurrency
    /\ spent + Cardinality(Paying) * CallLimit < Ceiling + Concurrency * CallLimit

\* The bounds in numbers.
LEMMA Limits ==
    /\ CallLimit \in Nat /\ CallLimit >= 1 /\ SerperCalls <= CallLimit
    /\ Concurrency \in Nat /\ Concurrency >= 1 /\ Ceiling \in Nat /\ SerperCalls \in Nat
BY DispatcherAssumption DEF CallLimit

\* Multiplication in the form the invariant needs.
LEMMA Times ==
    ASSUME NEW m \in Nat, NEW n \in Nat, NEW c \in Nat
    PROVE  /\ m * c \in Nat
           /\ m <= n => m * c <= n * c
           /\ (m + 1) * c = m * c + c
OBVIOUS

\* Payers hold the semaphore.
LEMMA PayingActive ==
    ASSUME IsFiniteSet(Active)
    PROVE  /\ Paying \subseteq Active /\ IsFiniteSet(Paying)
           /\ Cardinality(Paying) \in Nat /\ Cardinality(Active) \in Nat
           /\ Cardinality(Paying) <= Cardinality(Active)
<1>1. Paying \subseteq Active
    BY DEF Paying, Active, PayPC
<1>2. QED
    BY <1>1, FS_Subset, FS_CardinalityType

\* A place in the semaphore is taken only when there is one.
LEMMA SemaphoreHeld ==
    ASSUME IsFiniteSet(Active), Cardinality(Active) <= Concurrency,
           NEW r \in Records, Enters(r), \A q \in Records : q # r => task'[q] = task[q]
    PROVE  IsFiniteSet(Active') /\ Cardinality(Active') <= Concurrency
<1>1. Cardinality(Active) \in Nat /\ Concurrency \in Nat
    BY FS_CardinalityType, Limits
<1>2. CASE task'[r].pc \in {"idle", "queued"}
  <2>1. Active' = Active \ {r}
      BY <1>2 DEF Active
  <2>2. QED
      BY <1>1, <2>1, FS_RemoveElement
<1>3. CASE task'[r].pc \notin {"idle", "queued"}
  <2>1. Active' = Active \cup {r}
      BY <1>3 DEF Active
  <2>2. r \notin Active => Cardinality(Active) < Concurrency
      BY <1>3 DEF Enters, Active
  <2>3. /\ IsFiniteSet(Active \cup {r})
        /\ Cardinality(Active \cup {r}) = IF r \in Active THEN Cardinality(Active)
                                                        ELSE Cardinality(Active) + 1
      BY FS_AddElement
  <2>4. Cardinality(Active \cup {r}) <= Concurrency
      BY <1>1, <2>2, <2>3
  <2>5. QED
      BY <2>1, <2>3, <2>4
<1>4. QED
    BY <1>2, <1>3

\* A step of a task keeps the bound: it is checked on the way in, when at most
\* Concurrency tasks can be inside, and what is charged on the way out was
\* reserved.
LEMMA TaskSpends ==
    ASSUME IInv, SpendInv, NEW r \in Records, TaskStep(r)
    PROVE  SpendInv'
<1>1. /\ MoneyMove(r) /\ Enters(r) /\ spent \in Nat
      /\ \A q \in Records : q # r => task'[q] = task[q]
    BY MoneyMoves DEF IInv, TypeOK
<1>2. IsFiniteSet(Active') /\ Cardinality(Active') <= Concurrency
    BY <1>1, SemaphoreHeld DEF SpendInv
<1> DEFINE n == Cardinality(Paying)
           m == Cardinality(Paying')
<1>3. n \in Nat /\ IsFiniteSet(Paying)
    BY PayingActive DEF SpendInv
<1>4. m \in Nat /\ m <= Concurrency
  <2>1. Paying' \subseteq Active'
      BY DEF Paying, Active, PayPC
  <2>2. m \in Nat /\ Cardinality(Active') \in Nat /\ m <= Cardinality(Active')
      BY <1>2, <2>1, FS_Subset, FS_CardinalityType
  <2>3. QED
      BY <1>2, <2>2, Limits
<1>5. spent + n * CallLimit < Ceiling + Concurrency * CallLimit
    BY DEF SpendInv
<1>6. /\ n * CallLimit \in Nat /\ m * CallLimit \in Nat /\ Concurrency * CallLimit \in Nat
      /\ m * CallLimit <= Concurrency * CallLimit
      /\ n = m + 1 => n * CallLimit = m * CallLimit + CallLimit
    BY <1>3, <1>4, Limits, Times
<1>7. /\ (r \in Paying /\ task'[r].pc \notin PayPC) => n = m + 1
      /\ (r \in Paying <=> task'[r].pc \in PayPC) => n = m
  <2>1. CASE r \in Paying /\ task'[r].pc \notin PayPC
    <3>1. Paying' = Paying \ {r}
        BY <1>1, <2>1 DEF Paying
    <3>2. m = Cardinality(Paying \ {r})
        BY <3>1
    <3>3. Cardinality(Paying \ {r}) = Cardinality(Paying) - 1
        BY <1>3, <2>1, FS_RemoveElement
    <3>4. n = m + 1
        BY <1>3, <3>2, <3>3
    <3>5. QED
        BY <2>1, <3>4
  <2>2. CASE r \in Paying <=> task'[r].pc \in PayPC
    <3>1. Paying' = Paying
        BY <1>1, <2>2 DEF Paying
    <3>2. QED
        BY <2>2, <3>1
  <2>3. QED
      BY <2>1, <2>2
<1>8. r \in Paying <=> task[r].pc \in PayPC
    BY DEF Paying
<1> DEFINE p == task[r].pc
           q == task'[r].pc
<1> HIDE DEF n, m, p, q
<1>9. spent' + m * CallLimit < Ceiling + Concurrency * CallLimit
  <2>1. CASE StaysFree(p, q) \/ IsAnswered(p, q)
    <3>1. n = m /\ spent' = spent
        BY <1>7, <1>8, <2>1 DEF StaysFree, IsAnswered, CostsKept, PayPC, p, q
    <3>2. QED
        BY <1>5, <3>1
  <2>2. CASE PassesCeiling(p, q)
    <3>1. spent' = spent /\ spent < Ceiling
        BY <2>2 DEF PassesCeiling, CostsKept
    <3>2. QED
        BY <1>1, <1>6, <3>1, Limits
  <2>3. CASE PaysNothing(p, q) \/ IsCharged(p, q) \/ IsSearched(p, q)
    <3>1. n = m + 1
        BY <1>7, <1>8, <2>3 DEF PaysNothing, IsCharged, IsSearched, PayPC, p, q
    <3>2. spent' \in Nat /\ spent' <= spent + CallLimit
        BY <1>1, <2>3, Limits DEF PaysNothing, IsCharged, IsSearched
    <3>3. n * CallLimit = m * CallLimit + CallLimit
        BY <1>6, <3>1
    <3> DEFINE a == n * CallLimit  b == m * CallLimit  c == Concurrency * CallLimit
               t == spent'
    <3>4. /\ a \in Nat /\ b \in Nat /\ c \in Nat /\ a = b + CallLimit
          /\ spent + a < Ceiling + c /\ t \in Nat /\ t <= spent + CallLimit
        BY <1>5, <1>6, <3>2, <3>3
    <3> HIDE DEF a, b, c, t
    <3>5. t + b < Ceiling + c
        BY <1>1, <3>4, Limits
    <3>6. QED
        BY <3>5 DEF b, c, t
  <2>4. QED
      BY <1>1, <2>1, <2>2, <2>3 DEF MoneyMove, p, q
<1>10. QED
    BY <1>2, <1>9 DEF SpendInv, m

\* A step that only takes tasks out of the semaphore keeps it, too.
LEMMA FewerSpend ==
    ASSUME SpendInv, spent \in Nat, spent' \in Nat, spent' <= spent,
           \A r \in Records : task'[r].pc \in {"idle", "queued"} \/ task'[r] = task[r]
    PROVE  SpendInv'
<1>1. Active' \subseteq Active /\ Paying' \subseteq Paying
    BY DEF Active, Paying, PayPC
<1>2. IsFiniteSet(Active) /\ IsFiniteSet(Paying) /\ Cardinality(Active) <= Concurrency
    BY PayingActive DEF SpendInv
<1>3. /\ IsFiniteSet(Active') /\ Cardinality(Active') <= Cardinality(Active)
      /\ Cardinality(Paying') <= Cardinality(Paying)
      /\ Cardinality(Paying) \in Nat /\ Cardinality(Paying') \in Nat
      /\ Cardinality(Active) \in Nat /\ Cardinality(Active') \in Nat
    BY <1>1, <1>2, FS_Subset, FS_CardinalityType
<1> DEFINE a == Cardinality(Paying) * CallLimit
           b == Cardinality(Paying') * CallLimit
           c == Concurrency * CallLimit
           t == spent'
<1>4. a \in Nat /\ b \in Nat /\ c \in Nat /\ b <= a /\ t \in Nat /\ t <= spent
    BY <1>3, Limits, Times
<1>5. spent + a < Ceiling + c
    BY DEF SpendInv
<1>6. Cardinality(Active') <= Concurrency
    BY <1>2, <1>3, Limits
<1> HIDE DEF a, b, c, t
<1>7. t + b < Ceiling + c
    BY <1>4, <1>5, Limits
<1>8. QED
    BY <1>3, <1>6, <1>7 DEF SpendInv, b, c, t

\* SpendInv holds to begin with and is kept by every step.
LEMMA SpendInductive ==
    /\ Init => SpendInv
    /\ IInv /\ SpendInv /\ [Next]_vars => SpendInv'
<1>1. ASSUME Init
      PROVE  SpendInv
  <2>1. \A r \in Records : task[r].pc = "idle"
      BY <1>1 DEF Init, Idle
  <2>2. Active = {} /\ Paying = {} /\ spent = 0
      BY <1>1, <2>1 DEF Active, Paying, PayPC, Init
  <2>3. IsFiniteSet(Active) /\ Cardinality(Active) = 0 /\ Cardinality(Paying) = 0
      BY <2>2, FS_EmptySet
  <2>4. 0 * CallLimit = 0 /\ Concurrency * CallLimit >= CallLimit
    <3>1. 1 * CallLimit <= Concurrency * CallLimit
        BY Limits, Times
    <3>2. QED
        BY <3>1, Limits
  <2>5. Concurrency * CallLimit \in Nat
      BY Limits, Times
  <2>6. QED
      BY <2>2, <2>3, <2>4, <2>5, Limits DEF SpendInv
<1>2. ASSUME IInv, SpendInv, [Next]_vars
      PROVE  SpendInv'
  <2>1. ASSUME NEW r \in Records, TaskStep(r)
        PROVE  SpendInv'
      BY <1>2, <2>1, TaskSpends
  <2>2. ASSUME QuietMove
        PROVE  SpendInv'
    <3>1. spent \in Nat /\ spent' \in Nat /\ spent' <= spent
        BY <1>2, <2>2 DEF QuietMove, CostsKept, IInv, TypeOK
    <3>2. QED
        BY <1>2, <2>2, <3>1, FewerSpend DEF QuietMove
  <2>3. ASSUME NEW r \in Records, TaskDies(r)
        PROVE  SpendInv'
    <3>1. spent \in Nat /\ spent' = spent
        BY <1>2, <2>3, DyingTask DEF CostsKept, IInv, TypeOK
    <3>2. QED
        BY <1>2, <2>3, <3>1, DyingTask, FewerSpend
  <2>4. CASE UNCHANGED vars
      BY <1>2, <2>4 DEF vars, SpendInv, Active, Paying
  <2>5. QED
      BY <1>2, <2>1, <2>2, <2>3, <2>4, LoopQuiet, EnvironmentQuiet DEF Next
<1>3. QED
    BY <1>1, <1>2

\* The ceiling of a run is overshot by less than one call's charge per place in
\* the semaphore, however tasks interleave between the check and the charge
\* (cost_tracker.py:32, dispatch_verdicts.py:90, 128, 168, 206).
THEOREM SpendTheorem == Spec => []SpendBounded
<1>1. IInv /\ SpendInv => SpendBounded
  <2> SUFFICES ASSUME IInv, SpendInv
               PROVE  SpendBounded
      OBVIOUS
  <2> DEFINE a == Cardinality(Paying) * CallLimit
             c == Concurrency * CallLimit
  <2>1. Cardinality(Paying) \in Nat
      BY PayingActive DEF SpendInv
  <2>2. a \in Nat /\ c \in Nat /\ spent \in Nat /\ spent + a < Ceiling + c
      BY <2>1, Limits, Times DEF SpendInv, IInv, TypeOK
  <2> HIDE DEF a, c
  <2>3. spent < Ceiling + c
      BY <2>2, Limits
  <2>4. QED
      BY <2>3 DEF SpendBounded, c
<1>2. QED
    BY <1>1, InvariantHolds, SpendInductive, PTL DEF Spec

-----------------------------------------------------------------------------
(* The tracker and Zuhal's own count. *)

\* Under settings without the rescue of a reject no task is in one, and every
\* answer is on the tracker or with a task that is about to put it there.
BillInv ==
    running /\ ~conf.onBothInvalid =>
        /\ billed <= spent + Cardinality(Settling)
        /\ \A r \in Records : task[r].pc # "rescue"

\* Those about to charge are finitely many.
LEMMA SettlingFinite ==
    ASSUME SpendInv
    PROVE  IsFiniteSet(Settling) /\ Cardinality(Settling) \in Nat
<1>1. Settling \subseteq Active /\ IsFiniteSet(Active)
    BY DEF Settling, Active, SpendInv
<1>2. QED
    BY <1>1, FS_Subset, FS_CardinalityType

\* A step of a task bills and charges in the order answer, write, charge.
LEMMA TaskBills ==
    ASSUME IInv, SpendInv, BillInv, NEW r \in Records, TaskStep(r)
    PROVE  BillInv'
<1>1. /\ MoneyMove(r) /\ \A q \in Records : q # r => task'[q] = task[q]
      /\ mode' = mode /\ conf' = conf
    BY MoneyMoves
<1>2. SUFFICES ASSUME running, ~conf.onBothInvalid
               PROVE  /\ billed' <= spent' + Cardinality(Settling')
                      /\ \A q \in Records : task'[q].pc # "rescue"
    BY <1>1 DEF BillInv, running
<1> DEFINE p == task[r].pc
           q == task'[r].pc
           n == Cardinality(Settling)
           m == Cardinality(Settling')
           s == spent'
           b == billed'
<1>3. /\ n \in Nat /\ IsFiniteSet(Settling) /\ billed <= spent + n /\ p # "rescue"
      /\ spent \in Nat /\ billed \in Nat /\ SerperCalls \in Nat
    BY <1>2, SettlingFinite, DispatcherAssumption DEF BillInv, IInv, TypeOK
<1>4. /\ p = "settle" /\ q # "settle" => n = m + 1 /\ m \in Nat
      /\ p # "settle" /\ q = "settle" => m = n + 1
      /\ (p = "settle" <=> q = "settle") => m = n
  <2>1. CASE p = "settle" /\ q # "settle"
    <3>1. Settling' = Settling \ {r} /\ r \in Settling
        BY <1>1, <2>1 DEF Settling
    <3>2. Cardinality(Settling \ {r}) = n - 1 /\ IsFiniteSet(Settling \ {r})
        BY <1>3, <3>1, FS_RemoveElement
    <3>3. Cardinality(Settling \ {r}) \in Nat
        BY <3>2, FS_CardinalityType
    <3>4. m = n - 1 /\ m \in Nat
        BY <3>1, <3>2, <3>3
    <3>5. QED
        BY <1>3, <2>1, <3>4
  <2>2. CASE p # "settle" /\ q = "settle"
    <3>1. Settling' = Settling \cup {r} /\ r \notin Settling
        BY <1>1, <2>2 DEF Settling
    <3>2. Cardinality(Settling \cup {r}) = n + 1
        BY <1>3, <3>1, FS_AddElement
    <3>3. QED
        BY <2>2, <3>1, <3>2
  <2>3. CASE p = "settle" <=> q = "settle"
    <3>1. Settling' = Settling
        BY <1>1, <2>3 DEF Settling
    <3>2. QED
        BY <2>3, <3>1
  <2>4. QED
      BY <2>1, <2>2, <2>3
<1>5. q # "rescue"
    BY <1>1, <1>2, <1>3 DEF MoneyMove, StaysFree, PassesCeiling, PaysNothing, IsAnswered,
                            IsCharged, IsSearched, PayPC
<1>6. \A x \in Records : task'[x].pc # "rescue"
    BY <1>1, <1>2, <1>5 DEF BillInv
<1>7. \/ StaysFree(p, q) \/ PassesCeiling(p, q) \/ PaysNothing(p, q)
      \/ IsAnswered(p, q) \/ IsCharged(p, q) \/ IsSearched(p, q)
    BY <1>1 DEF MoneyMove
<1>8. CASE StaysFree(p, q) \/ PassesCeiling(p, q) \/ PaysNothing(p, q)
  <2>1. p # "settle" /\ q # "settle" /\ s = spent /\ b = billed
      BY <1>3, <1>8 DEF StaysFree, PassesCeiling, PaysNothing, PayPC, CostsKept
  <2> HIDE DEF n, m, p, q, s, b
  <2>2. b <= s + m
      BY <1>3, <1>4, <2>1
  <2>3. QED
      BY <1>6, <2>2 DEF b, s, m
<1>9. CASE IsAnswered(p, q)
  <2>1. p # "settle" /\ q = "settle" /\ s = spent /\ b \in {billed, billed + 1}
      BY <1>3, <1>9 DEF IsAnswered
  <2> HIDE DEF n, m, p, q, s, b
  <2>2. b <= s + m
      BY <1>3, <1>4, <2>1
  <2>3. QED
      BY <1>6, <2>2 DEF b, s, m
<1>10. CASE IsCharged(p, q)
  <2>1. p = "settle" /\ q # "settle" /\ s = spent + 1 /\ b = billed
      BY <1>10 DEF IsCharged, PayPC
  <2> HIDE DEF n, m, p, q, s, b
  <2>2. b <= s + m
      BY <1>3, <1>4, <2>1
  <2>3. QED
      BY <1>6, <2>2 DEF b, s, m
<1>11. CASE IsSearched(p, q)
  <2>1. p # "settle" /\ q # "settle" /\ s \in spent .. (spent + SerperCalls) /\ b = billed
      BY <1>11 DEF IsSearched, PayPC
  <2> HIDE DEF n, m, p, q, s, b
  <2>2. b <= s + m
      BY <1>3, <1>4, <2>1
  <2>3. QED
      BY <1>6, <2>2 DEF b, s, m
<1>12. QED
    BY <1>7, <1>8, <1>9, <1>10, <1>11

\* The loop and the surroundings do not come between an answer and its charge,
\* unless they end the run.
LEMMA QuietBills ==
    ASSUME IInv, BillInv, QuietMove
    PROVE  BillInv'
<1>1. CASE /\ CostsKept /\ conf' = conf
           /\ running' => /\ running
                         /\ \A r \in Records : task[r].pc = "settle" => task'[r] = task[r]
  <2>1. SUFFICES ASSUME running', ~conf'.onBothInvalid
                 PROVE  /\ billed' <= spent' + Cardinality(Settling')
                        /\ \A r \in Records : task'[r].pc # "rescue"
      BY DEF BillInv
  <2>2. Settling' = Settling
      BY <1>1, <2>1 DEF QuietMove, Settling
  <2>3. billed <= spent + Cardinality(Settling) /\ \A r \in Records : task[r].pc # "rescue"
      BY <1>1, <2>1 DEF BillInv
  <2>4. \A r \in Records : task'[r].pc # "rescue"
      BY <2>3 DEF QuietMove
  <2>5. QED
      BY <1>1, <2>2, <2>3, <2>4 DEF CostsKept
<1>2. CASE spent' = 0 /\ billed' = 0 /\ \A r \in Records : task'[r].pc = "idle"
  <2>1. Settling' = {}
      BY <1>2 DEF Settling
  <2>2. Cardinality(Settling') = 0
      BY <2>1, FS_EmptySet
  <2>3. QED
      BY <1>2, <2>2 DEF BillInv
<1>3. QED
    BY <1>1, <1>2 DEF QuietMove

\* The invariant of the money: SpendInv and BillInv.
LEMMA BillInductive ==
    ASSUME ~Faults
    PROVE  /\ Init => BillInv
           /\ IInv /\ SpendInv /\ BillInv /\ [Next]_vars => BillInv'
<1>1. ASSUME Init
      PROVE  BillInv
    BY <1>1 DEF Init, BillInv, running
<1>2. ASSUME IInv, SpendInv, BillInv, [Next]_vars
      PROVE  BillInv'
  <2>1. ASSUME NEW r \in Records, TaskStep(r)
        PROVE  BillInv'
      BY <1>2, <2>1, TaskBills
  <2>2. \A r \in Records : ~TaskDies(r)
      BY DEF TaskDies
  <2>3. CASE UNCHANGED vars
      BY <1>2, <2>3 DEF vars, BillInv, Settling, running
  <2>4. QED
      BY <1>2, <2>1, <2>2, <2>3, LoopQuiet, EnvironmentQuiet, QuietBills DEF Next
<1>3. QED
    BY <1>1, <1>2

\* Every call Zuhal has answered is on the tracker or about to be put there
\* (dispatch_verdicts.py:128, 206), as long as no task dies of an unexpected
\* exception between the write of its row and the charge.
THEOREM ChargeTheorem ==
    ASSUME ~Faults
    PROVE  Spec => []AnsweredIsCharged
<1>1. BillInv => AnsweredIsCharged
    BY DEF BillInv, AnsweredIsCharged, Settling
<1>2. QED
    BY <1>1, InvariantHolds, SpendInductive, BillInductive, PTL DEF Spec

-----------------------------------------------------------------------------
(* Verdicts. *)

\* A record that a backend has called valid has been accepted.
ValidIsKept == \A r \in Records : hist[r].valid => row[r].state = "VALIDATED"

\* A backend's valid reaches reconcile: a dead tunnel is not among the verdicts
\* or has no budget to be retried on, and an error of bbops does not end the
\* matter because there is a Zuhal client (dispatcher.py:368, 387).
ValidReachesReconcile ==
    /\ "tunnel_down" \notin RkVerdicts \/ MaxTunnel = 0
    /\ "error" \notin BbVerdicts \/ \A c \in Confs : c.zuhal # "none"

\* One valid is enough, and a record accepted is written at once.
LEMMA BackendsKeepValid ==
    ASSUME ValidReachesReconcile, IInv, ValidIsKept, NEW r \in Records, RunBackends(r)
    PROVE  ValidIsKept'
<1>1. task[r].pc = "smtp" /\ row[r].state = "VALIDATING" /\ hist \in [Records -> History]
      /\ \A q \in Records : q # r => row'[q] = row[q]
  <2>1. TaskStep(r)
      BY DEF TaskStep
  <2>2. QED
      BY <2>1, TaskOutcome DEF Outcome, ClaimKept, RowWritten, RunBackends, IInv, TypeOK,
                               TasksOwnClaims
<1>2. ~hist[r].valid
    BY <1>1 DEF ValidIsKept
<1>3. PICK rk0 \in RkVerdicts, bb \in BbVerdicts :
          /\ \/ TunnelRequeue(r, rk0, bb)
             \/ BbopsFailed(r, heard(rk0), bb)
             \/ Judge(r, heard(rk0), bb)
          /\ hist' = [hist EXCEPT ![r].valid = @ \/ "valid" \in {rk0, bb}]
    BY DEF RunBackends
<1>4. /\ \A q \in Records : q # r => hist'[q].valid = hist[q].valid
      /\ hist'[r].valid => "valid" \in {rk0, bb}
    BY <1>1, <1>2, <1>3 DEF History
<1>5. ASSUME "valid" \in {rk0, bb}
      PROVE  row'[r].state = "VALIDATED"
  <2>1. ~TunnelRequeue(r, rk0, bb)
    <3>1. row[r].tunnel \in Nat
        BY DEF IInv, TypeOK, Row
    <3>2. TunnelRequeue(r, rk0, bb) => rk0 = "tunnel_down" /\ row[r].tunnel < MaxTunnel
        BY DEF TunnelRequeue, TunnelBudgetLeft
    <3>3. rk0 # "tunnel_down" \/ MaxTunnel = 0
        BY DEF ValidReachesReconcile
    <3>4. QED
        BY <3>1, <3>2, <3>3
  <2>2. ~BbopsFailed(r, heard(rk0), bb)
      BY DEF ValidReachesReconcile, BbopsFailed, IInv, TypeOK
  <2>3. reconcile(heard(rk0), bb) = "valid"
      BY <1>5 DEF heard, reconcile
  <2>4. Accept(r, heard(rk0), bb)
      BY <1>3, <2>1, <2>2, <2>3 DEF Judge, HandleInconclusive, Reject, accepted
  <2> DEFINE x == update_record_dual(row[r], "VALIDATED", reconcile(heard(rk0), bb),
                                     current(r).addr, 1, "none")
  <2>5. Finish(r, x)
      BY <2>4 DEF Accept
  <2>6. row[r] \in Row
      BY DEF IInv, TypeOK
  <2>7. x.state = "VALIDATED"
      BY <2>6 DEF update_record_dual, Row
  <2> HIDE DEF x
  <2>8. QED
      BY <2>5, <2>7 DEF Finish, IInv, TypeOK
<1>6. QED
    BY <1>1, <1>4, <1>5 DEF ValidIsKept

\* The other steps of a task record no verdict, and write no accepted row.
LEMMA TaskKeepsValid ==
    ASSUME ValidReachesReconcile, IInv, ValidIsKept, NEW r \in Records, TaskStep(r)
    PROVE  ValidIsKept'
<1>1. CASE RunBackends(r)
    BY <1>1, BackendsKeepValid
<1>2. CASE ~RunBackends(r)
  <2>1. \A q \in Records : hist'[q].valid = hist[q].valid
    <3>1. CASE NextCandidate(r)
        BY <3>1 DEF NextCandidate, IInv, TypeOK, History
    <3>2. CASE Begin(r) \/ Exhausted(r) \/ MsProbe(r)
        BY <3>2 DEF Begin, Exhausted, MsProbe
    <3>3. CASE Halt(r) \/ CircuitOpen(r) \/ ZuhalProbe(r) \/ RescueProbe(r) \/ Settle(r)
        BY <3>3 DEF Halt, CircuitOpen, ZuhalProbe, RescueProbe, Settle
    <3>4. CASE Fallback(r) \/ inject_harvest_fallback(r) \/ inject_serper_fallback(r)
        BY <3>4 DEF Fallback, inject_harvest_fallback, inject_serper_fallback
    <3>5. QED
        BY <1>2, <3>1, <3>2, <3>3, <3>4 DEF TaskStep
  <2>2. \A q \in Records : q # r => row'[q] = row[q]
      BY TaskOutcome DEF Outcome, ClaimKept, RowWritten
  <2>3. row[r].state = "VALIDATING"
      BY TaskTouches DEF IInv, TasksOwnClaims
  <2>4. QED
      BY <2>1, <2>2, <2>3 DEF ValidIsKept
<1>3. QED
    BY <1>1, <1>2

\* Nobody else touches a row that has been accepted.
LEMMA OthersKeepValid ==
    ASSUME IInv, ValidIsKept, LoopStep \/ Environment
    PROVE  ValidIsKept'
<1> SUFFICES ASSUME NEW r \in Records
             PROVE  hist'[r].valid => row'[r].state = "VALIDATED"
    BY DEF ValidIsKept
<1>1. row[r] \in Row /\ hist[r] \in History /\ (hist[r].valid => row[r].state = "VALIDATED")
    BY DEF IInv, TypeOK, ValidIsKept
<1>2. CASE LoopStep
  <2>1. hist' = hist
      BY <1>2 DEF LoopStep, Claim, PollEmpty, ReadProducerDone, CheckPending, Gathered, StopSeen
  <2>2. row[r].state = "VALIDATED" => row'[r] = row[r]
    <3>1. ASSUME NEW chunk \in SUBSET Records, Claim(chunk)
          PROVE  row[r].state = "VALIDATED" => row'[r] = row[r]
        BY <3>1 DEF Claim, Claimable, claimable
    <3>2. QED
        BY <1>2, <3>1 DEF LoopStep, PollEmpty, ReadProducerDone, CheckPending, Gathered, StopSeen
  <2>3. QED
      BY <1>1, <2>1, <2>2
<1>3. CASE Start
  <2>1. hist' = hist /\ row'[r] = recover_stale_validating(row[r])
      BY <1>3 DEF Start
  <2>2. QED
      BY <1>1, <2>1 DEF recover_stale_validating
<1>4. CASE Stop \/ Crash \/ ProducerEnds
    BY <1>1, <1>4 DEF Stop, Crash, ProducerEnds
<1>5. CASE Reset
  <2>1. PICK s \in {"VALIDATION_FAILED", "COST_SKIPPED"}, p, u \in BOOLEAN :
            /\ row' = [q \in Records |-> reset_failed_records(row[q], s, p, u)]
            /\ hist' = [q \in Records |->
                          [hist[q] EXCEPT !.reset = @ \/ reset_failed_records(row[q], s, p, u) # row[q]]]
      BY <1>5 DEF Reset
  <2>2. hist'[r].valid = hist[r].valid
      BY <1>1, <2>1 DEF History
  <2>3. row[r].state = "VALIDATED" => row'[r] = row[r]
      BY <2>1 DEF reset_failed_records
  <2>4. QED
      BY <1>1, <2>2, <2>3
<1>6. ASSUME NEW q \in Records, Produce(q) \/ HoldExpires(q) \/ GrowsStale(q)
      PROVE  hist'[r].valid => row'[r].state = "VALIDATED"
  <2>1. hist' = hist /\ row \in [Records -> Row]
      BY <1>6 DEF Produce, HoldExpires, GrowsStale, IInv, TypeOK
  <2>2. row[r].state = "VALIDATED" => row'[r].state = "VALIDATED"
      BY <1>1, <1>6, <2>1 DEF Produce, HoldExpires, GrowsStale, Row
  <2>3. QED
      BY <1>1, <2>1, <2>2
<1>7. ASSUME NEW q \in Records, TaskDies(q)
      PROVE  hist'[r].valid => row'[r].state = "VALIDATED"
    BY <1>1, <1>7 DEF TaskDies, Go
<1>8. QED
    BY <1>2, <1>3, <1>4, <1>5, <1>6, <1>7 DEF Environment

\* A record that one backend has called valid is never written off, however
\* often it is claimed, and whatever the other backend says
\* (reconcile.py:44-46).
THEOREM ValidTheorem ==
    ASSUME ValidReachesReconcile
    PROVE  Spec => []ValidNeverLost
<1>1. Init => ValidIsKept
    BY DEF Init, ValidIsKept
<1>2. IInv /\ ValidIsKept /\ [Next]_vars => ValidIsKept'
  <2>1. ASSUME IInv, ValidIsKept, UNCHANGED vars
        PROVE  ValidIsKept'
      BY <2>1 DEF vars, ValidIsKept
  <2>2. QED
      BY <2>1, TaskKeepsValid, OthersKeepValid DEF Next
<1>3. ValidIsKept => ValidNeverLost
    BY DEF ValidIsKept, ValidNeverLost
<1>4. QED
    BY <1>1, <1>2, <1>3, InvariantHolds, PTL DEF Spec

-----------------------------------------------------------------------------
(* Giving up. *)

WellFormed(cands) == \A k \in DOMAIN cands : cands[k].wf

\* The settings in which every rejected address comes to the fallback check: a
\* search is configured, there is a Zuhal client, no Microsoft probe, no
\* malformed address (their `continue`s pass it by) and no failing save.
FallbackIsReached ==
    /\ SerperFinds # {} /\ ~Faults /\ Microsoft = {}
    /\ \A c \in Confs : c.zuhal # "none"
    /\ \A r \in Records : WellFormed(Cand[r])
    /\ \A new \in HarvestFinds : WellFormed(new)

\* As long as a row is not marked as enriched its task has the whole list inside
\* the boundary, stands before its end and has not been to Serper.
SearchAhead(t) ==
    /\ t.boundary = Len(t.cands) /\ WellFormed(t.cands)
    /\ t.pc = "next" => t.i < Len(t.cands)
    /\ t.serper => t.pc = "serper"
    /\ t.pc # "ms"

AheadOrEnriched(t, x) == t.pc \in {"idle", "queued"} \/ x.enriched \/ SearchAhead(t)

AheadInv == \A r \in Records : AheadOrEnriched(task[r], row[r])

\* A step of a task keeps the invariant when its new state or row does.
LEMMA AheadStep ==
    ASSUME AheadInv, NEW r \in Records, AheadOrEnriched(task'[r], row'[r]),
           \A q \in Records : q # r => row'[q] = row[q] /\ task'[q] = task[q]
    PROVE  AheadInv'
BY DEF AheadInv

\* Beginning, and the steps through the list.
LEMMA CandidateAhead ==
    ASSUME FallbackIsReached, IInv, AheadInv, NEW r \in Records,
           Begin(r) \/ Exhausted(r) \/ NextCandidate(r) \/ MsProbe(r)
    PROVE  AheadOrEnriched(task'[r], row'[r])
<1>1. task[r] \in Task /\ AheadOrEnriched(task[r], row[r]) /\ row \in [Records -> Row]
    BY DEF IInv, TypeOK, AheadInv
<1>2. ASSUME NEW x, Finish(r, x)
      PROVE  AheadOrEnriched(task'[r], row'[r])
    BY <1>2, PlaceAfter DEF AheadOrEnriched, Idle
<1>3. ASSUME Go(r, Idle)
      PROVE  AheadOrEnriched(task'[r], row'[r])
    BY <1>3, PlaceAfter DEF AheadOrEnriched, Idle
<1>4. CASE Begin(r)
  <2> DEFINE t == [Idle EXCEPT !.pc = "next", !.cands = Cand[r],
                               !.boundary = Len(Cand[r]), !.serper = row[r].enriched]
  <2>1. /\ t.pc = "next" /\ t.cands = Cand[r] /\ t.boundary = Len(Cand[r])
        /\ t.serper = row[r].enriched /\ t.i = 0
      BY DEF Idle
  <2>2. \/ Go(r, Idle) \/ (\E x : Finish(r, x))
        \/ Go(r, t) /\ Cand[r] # <<>>
      BY <1>4 DEF Begin
  <2> HIDE DEF t
  <2>3. CASE Go(r, t) /\ Cand[r] # <<>>
    <3>1. task'[r] = t /\ row'[r] = row[r]
        BY <2>3, PlaceAfter DEF Go
    <3>2. Cand[r] \in Seq(Candidate) /\ WellFormed(Cand[r])
        BY DispatcherAssumption DEF FallbackIsReached
    <3>3. Len(Cand[r]) > 0
        BY <2>3, <3>2
    <3>4. row[r].enriched \/ SearchAhead(t)
        BY <2>1, <3>2, <3>3 DEF SearchAhead
    <3>5. QED
        BY <3>1, <3>4 DEF AheadOrEnriched
  <2>4. QED
      BY <1>2, <1>3, <2>2, <2>3
<1>5. CASE Exhausted(r)
    BY <1>2, <1>5 DEF Exhausted
<1>6. CASE NextCandidate(r)
  <2> DEFINE t == [task[r] EXCEPT !.i = @ + 1]
             u == [t EXCEPT !.pc = IF r \in Microsoft THEN "ms" ELSE "smtp"]
  <2>1. task[r].pc = "next" /\ task[r].i < Len(task[r].cands)
      BY <1>6 DEF NextCandidate, Task
  <2>2. /\ t.i = task[r].i + 1 /\ t.cands = task[r].cands /\ u.pc = "smtp"
        /\ u.cands = task[r].cands /\ u.boundary = task[r].boundary /\ u.serper = task[r].serper
      BY <1>1 DEF Task, FallbackIsReached
  <2>3. \/ Go(r, t) /\ ~t.cands[t.i].wf
        \/ \E x : Finish(r, x)
        \/ Go(r, u)
      BY <1>6 DEF NextCandidate
  <2>4. row[r].enriched \/ SearchAhead(task[r])
      BY <1>1, <2>1 DEF AheadOrEnriched
  <2>5. task[r].i \in Nat /\ task[r].cands \in Seq(Candidate)
      BY <1>1 DEF Task
  <2>6. SearchAhead(task[r]) => t.cands[t.i].wf /\ SearchAhead(u)
    <3>1. t.i \in DOMAIN task[r].cands
        BY <2>1, <2>2, <2>5
    <3>2. QED
        BY <2>1, <2>2, <3>1 DEF SearchAhead, WellFormed
  <2> HIDE DEF t, u
  <2>7. CASE row[r].enriched /\ (Go(r, t) \/ Go(r, u))
      BY <2>7 DEF Go, AheadOrEnriched
  <2>8. CASE SearchAhead(task[r]) /\ Go(r, u)
      BY <2>6, <2>8, PlaceAfter DEF AheadOrEnriched
  <2>9. QED
      BY <1>2, <2>3, <2>4, <2>6, <2>7, <2>8
<1>7. CASE MsProbe(r)
  <2>1. row[r].enriched
      BY <1>1, <1>7 DEF MsProbe, AheadOrEnriched, SearchAhead
  <2>2. CASE \E x : Finish(r, x)
      BY <1>2, <2>2
  <2>3. CASE row' = row
      BY <2>1, <2>3 DEF AheadOrEnriched
  <2>4. QED
      BY <1>7, <2>2, <2>3 DEF MsProbe, Go
<1>8. QED
    BY <1>4, <1>5, <1>6, <1>7

\* A step that moves a task on inside the loop body keeps list and boundary.
LEMMA MovesAhead ==
    ASSUME IInv, AheadInv, NEW r \in Records, NEW t, Go(r, t),
           task[r].pc \notin {"idle", "queued"}, t.pc \notin {"next", "ms"},
           t.cands = task[r].cands, t.boundary = task[r].boundary,
           t.serper = task[r].serper, task[r].pc # "serper"
    PROVE  AheadOrEnriched(task'[r], row'[r])
<1>1. task'[r] = t /\ row'[r] = row[r]
    BY PlaceAfter DEF Go
<1>2. row[r].enriched \/ SearchAhead(task[r])
    BY DEF AheadInv, AheadOrEnriched
<1>3. SearchAhead(task[r]) => SearchAhead(t)
    BY DEF SearchAhead
<1>4. QED
    BY <1>1, <1>2, <1>3 DEF AheadOrEnriched

\* With a Zuhal client the backends' step never skips the fallback check.
LEMMA BackendsAhead ==
    ASSUME FallbackIsReached, IInv, AheadInv, NEW r \in Records, RunBackends(r)
    PROVE  AheadOrEnriched(task'[r], row'[r])
<1>1. task[r].pc = "smtp" /\ task[r] \in Task
    BY DEF RunBackends, IInv, TypeOK
<1>2. PICK rk0 \in RkVerdicts, bb \in BbVerdicts :
          \/ TunnelRequeue(r, rk0, bb)
          \/ BbopsFailed(r, heard(rk0), bb)
          \/ Judge(r, heard(rk0), bb)
    BY DEF RunBackends
<1> DEFINE rk == heard(rk0)
           real == task[r].real \/ {rk, bb} \cap Definitive # {}
           t == [task[r] EXCEPT !.rk = rk, !.real = real]
           at(pc) == [t EXCEPT !.pc = pc]
<1>3. \/ \E x : Finish(r, x)
      \/ \E pc \in {"zuhal", "rescue", "fallback"} : Go(r, at(pc))
  <2>1. CASE TunnelRequeue(r, rk0, bb)
      BY <2>1 DEF TunnelRequeue
  <2>2. ~BbopsFailed(r, rk, bb)
      BY DEF BbopsFailed, FallbackIsReached, IInv, TypeOK
  <2>3. CASE HandleInconclusive(r, rk, bb, t)
      BY <2>3 DEF HandleInconclusive
  <2>4. CASE Accept(r, rk, bb)
      BY <2>4 DEF Accept
  <2>5. CASE Reject(r, rk, bb, t)
      BY <2>5 DEF Reject
  <2>6. QED
      BY <1>2, <2>1, <2>2, <2>3, <2>4, <2>5 DEF Judge
<1>4. ASSUME NEW x, Finish(r, x)
      PROVE  AheadOrEnriched(task'[r], row'[r])
    BY <1>4, PlaceAfter DEF AheadOrEnriched, Idle
<1>5. ASSUME NEW pc \in {"zuhal", "rescue", "fallback"}, Go(r, at(pc))
      PROVE  AheadOrEnriched(task'[r], row'[r])
  <2> HIDE DEF rk, real
  <2>1. /\ at(pc).pc = pc /\ at(pc).cands = task[r].cands
        /\ at(pc).boundary = task[r].boundary /\ at(pc).serper = task[r].serper
      BY <1>1 DEF Task
  <2> HIDE DEF at, t
  <2>2. QED
      BY <1>1, <1>5, <2>1, MovesAhead
<1> HIDE DEF at
<1>6. QED
    BY <1>3, <1>4, <1>5

\* The paid steps.
LEMMA PaidAhead ==
    ASSUME IInv, AheadInv, NEW r \in Records,
           Halt(r) \/ CircuitOpen(r) \/ ZuhalProbe(r) \/ RescueProbe(r) \/ Settle(r)
    PROVE  AheadOrEnriched(task'[r], row'[r])
<1>1. task[r] \in Task
    BY DEF IInv, TypeOK
<1>2. ASSUME NEW x, Finish(r, x)
      PROVE  AheadOrEnriched(task'[r], row'[r])
    BY <1>2, PlaceAfter DEF AheadOrEnriched, Idle
<1>3. ASSUME Go(r, Idle)
      PROVE  AheadOrEnriched(task'[r], row'[r])
    BY <1>3, PlaceAfter DEF AheadOrEnriched, Idle
<1>4. ASSUME NEW v \in ZuhalAnswer, task[r].pc \in {"zuhal", "rescue"},
             Go(r, [task[r] EXCEPT !.pc = "settle", !.paid = v])
      PROVE  AheadOrEnriched(task'[r], row'[r])
  <2> DEFINE t == [task[r] EXCEPT !.pc = "settle", !.paid = v]
  <2>1. /\ t.pc = "settle" /\ t.cands = task[r].cands
        /\ t.boundary = task[r].boundary /\ t.serper = task[r].serper
      BY <1>1 DEF Task
  <2> HIDE DEF t
  <2>2. QED
      BY <1>4, <2>1, MovesAhead DEF t
<1>5. ASSUME task[r].pc = "rescue", Go(r, [task[r] EXCEPT !.pc = "fallback"])
      PROVE  AheadOrEnriched(task'[r], row'[r])
  <2> DEFINE t == [task[r] EXCEPT !.pc = "fallback"]
  <2>1. /\ t.pc = "fallback" /\ t.cands = task[r].cands
        /\ t.boundary = task[r].boundary /\ t.serper = task[r].serper
      BY <1>1 DEF Task
  <2> HIDE DEF t
  <2>2. QED
      BY <1>5, <2>1, MovesAhead DEF t
<1>6. CASE Halt(r) \/ CircuitOpen(r) \/ Settle(r)
    BY <1>2, <1>3, <1>6 DEF Halt, CircuitOpen, Settle
<1>7. CASE ZuhalProbe(r) \/ RescueProbe(r)
    BY <1>4, <1>5, <1>7 DEF ZuhalProbe, RescueProbe
<1>8. QED
    BY <1>6, <1>7

\* The paid half of the fallback check is taken unless it has been before.
LEMMA TrySerperAhead ==
    ASSUME FallbackIsReached, IInv, AheadInv, NEW r \in Records,
           task[r].pc \in {"fallback", "harvest"}, TrySerper(r, task[r])
    PROVE  AheadOrEnriched(task'[r], row'[r])
<1> DEFINE t == [task[r] EXCEPT !.pc = "next"]
           u == [task[r] EXCEPT !.pc = "serper", !.serper = TRUE]
<1>1. task[r] \in Task /\ (row[r].enriched \/ SearchAhead(task[r]))
    BY DEF IInv, TypeOK, AheadInv, AheadOrEnriched
<1>2. u.pc = "serper" /\ u.cands = task[r].cands /\ u.boundary = task[r].boundary
    BY <1>1 DEF Task
<1>3. SearchAhead(task[r]) => SearchAhead(u)
    BY <1>2 DEF SearchAhead
<1>4. \/ Go(r, t) /\ task[r].serper
      \/ \E x : Finish(r, x)
      \/ Go(r, u)
    BY DEF TrySerper, FallbackIsReached
<1> HIDE DEF t, u
<1>5. CASE Go(r, t) /\ task[r].serper
  <2>1. row[r].enriched /\ row'[r] = row[r]
      BY <1>1, <1>5 DEF SearchAhead, Go
  <2>2. QED
      BY <2>1 DEF AheadOrEnriched
<1>6. CASE \E x : Finish(r, x)
    BY <1>6, PlaceAfter DEF AheadOrEnriched, Idle
<1>7. CASE Go(r, u)
    BY <1>1, <1>3, <1>7, PlaceAfter DEF Go, AheadOrEnriched
<1>8. QED
    BY <1>4, <1>5, <1>6, <1>7

\* The fallbacks: at the boundary one of them is tried, a harvest moves the
\* boundary with the list, and a search marks the row.
LEMMA FallbackAhead ==
    ASSUME FallbackIsReached, IInv, AheadInv, NEW r \in Records,
           Fallback(r) \/ inject_harvest_fallback(r) \/ inject_serper_fallback(r)
    PROVE  AheadOrEnriched(task'[r], row'[r])
<1>1. /\ task[r] \in Task /\ task[r].pc \in {"fallback", "harvest", "serper"}
      /\ row[r].enriched \/ SearchAhead(task[r])
    BY DEF Fallback, inject_harvest_fallback, inject_serper_fallback, IInv, TypeOK,
           AheadInv, AheadOrEnriched
<1>2. /\ task[r].cands \in Seq(Candidate) /\ task[r].i \in 1 .. Len(task[r].cands)
    BY <1>1 DEF IInv, TaskInv, Task
<1>3. CASE Fallback(r)
  <2> DEFINE t == [task[r] EXCEPT !.pc = "next"]
             u == [task[r] EXCEPT !.pc = "harvest", !.harvested = TRUE]
  <2>1. /\ t.pc = "next" /\ t.cands = task[r].cands /\ t.boundary = task[r].boundary
        /\ t.serper = task[r].serper /\ t.i = task[r].i
        /\ u.pc = "harvest" /\ u.cands = task[r].cands
        /\ u.boundary = task[r].boundary /\ u.serper = task[r].serper
      BY <1>1 DEF Task
  <2>2. /\ task[r].pc = "fallback"
        /\ \/ Go(r, t) /\ task[r].i # task[r].boundary
           \/ Go(r, u)
           \/ TrySerper(r, task[r])
      BY <1>3 DEF Fallback
  <2> HIDE DEF t, u
  <2>3. CASE Go(r, t) /\ task[r].i # task[r].boundary
    <3>1. SearchAhead(task[r]) => SearchAhead(t)
        BY <1>2, <2>1, <2>2, <2>3 DEF SearchAhead
    <3>2. QED
        BY <1>1, <2>3, <3>1, PlaceAfter DEF Go, AheadOrEnriched
  <2>4. CASE Go(r, u)
      BY <2>1, <2>2, <2>4, MovesAhead
  <2>5. CASE TrySerper(r, task[r])
      BY <2>2, <2>5, TrySerperAhead
  <2>6. QED
      BY <2>2, <2>3, <2>4, <2>5
<1>4. CASE inject_harvest_fallback(r)
  <2>1. PICK new \in Unseen(HarvestFinds, task[r].cands) :
            IF new # <<>>
            THEN Go(r, [task[r] EXCEPT !.pc = "next", !.cands = @ \o new,
                                       !.boundary = @ + Len(new)])
            ELSE TrySerper(r, task[r])
      BY <1>4 DEF inject_harvest_fallback
  <2>2. task[r].pc = "harvest"
      BY <1>4 DEF inject_harvest_fallback
  <2>3. CASE new = <<>>
      BY <2>1, <2>2, <2>3, TrySerperAhead
  <2>4. CASE new # <<>>
    <3>1. new \in Seq(Candidate) /\ WellFormed(new)
        BY <2>4, DispatcherAssumption DEF Unseen, FallbackIsReached
    <3> DEFINE cs == task[r].cands \o new
               t == [task[r] EXCEPT !.pc = "next", !.cands = cs, !.boundary = @ + Len(new)]
    <3>2. Len(cs) = Len(task[r].cands) + Len(new) /\ Len(new) > 0
        BY <1>2, <2>4, <3>1
    <3>3. SearchAhead(task[r]) => WellFormed(cs)
        BY <1>2, <3>1 DEF SearchAhead, WellFormed
    <3> HIDE DEF cs
    <3>4. /\ t.pc = "next" /\ t.cands = cs /\ t.boundary = task[r].boundary + Len(new)
          /\ t.serper = task[r].serper /\ t.i = task[r].i
        BY <1>1 DEF Task
    <3>5. Go(r, t)
        BY <2>1, <2>4 DEF cs
    <3> HIDE DEF t
    <3>6. SearchAhead(task[r]) => SearchAhead(t)
      <4>1. task[r].i < Len(cs)
          BY <1>2, <3>1, <3>2
      <4>2. QED
          BY <2>2, <3>2, <3>3, <3>4, <4>1 DEF SearchAhead
    <3>7. QED
        BY <1>1, <3>5, <3>6, PlaceAfter DEF Go, AheadOrEnriched
  <2>5. QED
      BY <2>3, <2>4
<1>5. CASE inject_serper_fallback(r)
  <2>1. row' = [row EXCEPT ![r] = mark_serper_enriched(@)]
      BY <1>5 DEF inject_serper_fallback, FallbackIsReached
  <2>2. row'[r].enriched
      BY <2>1 DEF mark_serper_enriched, IInv, TypeOK, Row
  <2>3. QED
      BY <2>2 DEF AheadOrEnriched
<1>6. QED
    BY <1>3, <1>4, <1>5

\* Around the tasks no mark is taken back and no task moves.
LEMMA OthersAhead ==
    ASSUME IInv, AheadInv, LoopStep \/ Environment
    PROVE  AheadInv'
<1>1. QuietMove \/ \E q \in Records : TaskDies(q)
    BY LoopQuiet, EnvironmentQuiet
<1>2. \A r \in Records : task'[r].pc \in {"idle", "queued"} \/ task'[r] = task[r]
    BY <1>1, DyingTask DEF QuietMove
<1>3. \A r \in Records : task[r].pc \notin {"idle", "queued"} /\ row[r].enriched
                            => row'[r].enriched \/ task'[r].pc \in {"idle", "queued"}
  <2> SUFFICES ASSUME NEW r \in Records, task[r].pc \notin {"idle", "queued"}, row[r].enriched,
                      task'[r].pc \notin {"idle", "queued"}
               PROVE  row'[r].enriched
      OBVIOUS
  <2>1. /\ row \in [Records -> Row] /\ row[r].state = "VALIDATING" /\ mode = "gather"
      BY DEF IInv, TypeOK, TasksOwnClaims
  <2>2. CASE LoopStep
      BY <2>1, <2>2 DEF LoopStep, Claim, PollEmpty, ReadProducerDone, CheckPending, Gathered, StopSeen
  <2>3. CASE Start \/ Reset
      BY <2>1, <2>3 DEF Start, Reset, running
  <2>4. CASE Stop \/ Crash \/ ProducerEnds
      BY <2>4 DEF Stop, Crash, ProducerEnds
  <2>5. ASSUME NEW q \in Records, Produce(q) \/ HoldExpires(q) \/ GrowsStale(q) \/ TaskDies(q)
        PROVE  row'[r].enriched
      BY <2>1, <2>5 DEF Produce, HoldExpires, GrowsStale, TaskDies, Go, Row
  <2>6. QED
      BY <2>2, <2>3, <2>4, <2>5 DEF Environment
<1>4. QED
    BY <1>2, <1>3 DEF AheadInv, AheadOrEnriched

\* AheadInv holds to begin with and is kept by every step.
LEMMA AheadInductive ==
    ASSUME FallbackIsReached
    PROVE  /\ Init => AheadInv
           /\ IInv /\ AheadInv /\ [Next]_vars => AheadInv'
<1>1. Init => AheadInv
    BY DEF Init, AheadInv, AheadOrEnriched, Idle
<1>2. ASSUME IInv, AheadInv, [Next]_vars
      PROVE  AheadInv'
  <2>1. ASSUME NEW r \in Records, TaskStep(r)
        PROVE  AheadInv'
    <3>1. \A q \in Records : q # r => row'[q] = row[q] /\ task'[q] = task[q]
        BY <1>2, <2>1, TaskOutcome DEF Outcome, ClaimKept, RowWritten
    <3>2. AheadOrEnriched(task'[r], row'[r])
        BY <1>2, <2>1, CandidateAhead, BackendsAhead, PaidAhead, FallbackAhead DEF TaskStep
    <3>3. QED
        BY <1>2, <3>1, <3>2, AheadStep
  <2>2. CASE UNCHANGED vars
      BY <1>2, <2>2 DEF vars, AheadInv
  <2>3. QED
      BY <1>2, <2>1, <2>2, OthersAhead DEF Next
<1>3. QED
    BY <1>1, <1>2

\* Serper is tried before a record whose addresses all failed is given up, even
\* when a harvest has moved the end of the list (dispatcher.py:470-487).
THEOREM SerperTheorem ==
    ASSUME FallbackIsReached
    PROVE  Spec => GiveUpOnlyAfterSerper
<1>1. IInv /\ AheadInv => \A r \in Records : Exhausted(r) => row[r].enriched
  <2> SUFFICES ASSUME IInv, AheadInv, NEW r \in Records, Exhausted(r)
               PROVE  row[r].enriched
      OBVIOUS
  <2>1. task[r].pc = "next" /\ task[r].i = Len(task[r].cands)
      BY DEF Exhausted
  <2>2. task[r] \in Task
      BY DEF IInv, TypeOK
  <2>3. ~SearchAhead(task[r])
      BY <2>1, <2>2 DEF SearchAhead, Task
  <2>4. QED
      BY <2>1, <2>3 DEF AheadInv, AheadOrEnriched
<1>2. IInv /\ AheadInv =>
          [\A r \in Records : Exhausted(r) => row[r].enriched]_vars
    BY <1>1
<1>3. QED
    BY <1>2, InvariantHolds, AheadInductive, PTL DEF Spec, GiveUpOnlyAfterSerper

=============================================================================
