--------------------------- MODULE BackendsProofs ---------------------------
(***************************************************************************)
(* Theorems about Backends, for every set of records and addresses, every  *)
(* batch size and every number of races, batches and kills.                *)
(*                                                                         *)
(* BbopsKind reduces a step to what it does to bbops; types, the table of  *)
(* batches, the waiting futures and the settled ones each have a lemma on  *)
(* these kinds.  The race has one on the steps themselves.                 *)
(***************************************************************************)
EXTENDS Backends, SshTunnel, TLAPS

FutureStates == {"none", "waiting", "cancelled", "error"} \cup BbopsStatus
TaskStates   == {"none", "sem", "over", "dead", "lost", "recover"} \cup AtWork
Results      == UNION {[E -> BbopsStatus] : E \in SUBSET Range(Email)}
JobRow       == [batch : Batches, done : BbopsStatus \cup {"no"}]

\* The part of the types that the proofs need.
TypeInv ==
    /\ future \in [Futures -> FutureStates]
    /\ queue \in Seq(Futures) /\ items \in Seq(Futures)
    /\ task \in [Batches -> TaskStates] /\ inBatch \in [Batches -> Seq(Futures)]
    /\ answers \in [Batches -> Results]
    /\ toMark \in [Batches -> SUBSET Range(Email)]
    /\ jobs \in [DOMAIN jobs -> JobRow]

BeforeResults == {"none", "sem", "submit", "persist", "poll"}

\* A batch's results are final when rows of it can be done.
JobsInv ==
    /\ \A b \in Batches : toMark[b] \subseteq DOMAIN answers[b]
    /\ \A k \in DOMAIN jobs : jobs[k].done # "no" => task[jobs[k].batch] \notin BeforeResults
    /\ DoneRowsAnswered

answeredValid(f) ==
    \E b \in Batches :
        /\ task[b] \notin BeforeResults /\ f \in ToSet(inBatch[b])
        /\ emailOf(f) \in DOMAIN answers[b] /\ answers[b][emailOf(f)] = "valid"

AnswersInv == \A f \in Futures : future[f] = "valid" => answeredValid(f)

Said == {"none", "error", "not_run", "cancelled", "valid", "invalid", "blocked"} \cup BbopsStatus

RaceTypes ==
    /\ race \in [Records -> {"idle", "racing", "over"}] /\ nth \in [Records -> Nat]
    /\ bb \in [Records -> Said] /\ rk \in [Records -> Said]
    /\ kpc \in [Records -> {"idle", "sem"} \cup InSem]

raceOf(r) ==
    /\ race[r] # "idle" => nth[r] \in 1..Races[r]
    /\ kpc[r] # "idle" => race[r] = "racing" /\ rk[r] = "none"
    /\ race[r] = "racing" => "cancelled" \notin {rk[r], bb[r]}
    /\ race[r] = "over" /\ "cancelled" \in {rk[r], bb[r]} => "valid" \in {rk[r], bb[r]}
    /\ race[r] # "idle" /\ bb[r] = "valid" => future[fut(r)] = "valid"

RaceInv == RaceTypes /\ \A r \in Records : raceOf(r)

BackendsInv == TypeInv /\ JobsInv /\ NobodyForgotten /\ AnswersInv /\ RaceInv

-----------------------------------------------------------------------------
(* Sequences and futures                                                   *)

(* ToSet of a sequence, element by element.                                *)
LEMMA ToSetFacts ==
    ASSUME NEW S, NEW s \in Seq(S)
    PROVE  /\ ToSet(s) \subseteq S
           /\ \A e : ToSet(Append(s, e)) = ToSet(s) \cup {e}
           /\ s # <<>> => ToSet(s) = {Head(s)} \cup ToSet(Tail(s))
<1>1. ToSet(s) \subseteq S
  BY DEF ToSet
<1>2. \A e : ToSet(Append(s, e)) = ToSet(s) \cup {e}
  <2> TAKE e
  <2>1. DOMAIN Append(s, e) = 1..(Len(s) + 1) /\ DOMAIN s = 1..Len(s) /\ Len(s) \in Nat
    OBVIOUS
  <2>2. \A i \in 1..Len(s) : Append(s, e)[i] = s[i]
    OBVIOUS
  <2>3. Append(s, e)[Len(s) + 1] = e
    OBVIOUS
  <2> QED
    BY <2>1, <2>2, <2>3 DEF ToSet
<1>3. ASSUME s # <<>> PROVE ToSet(s) = {Head(s)} \cup ToSet(Tail(s))
  <2>1. /\ Len(s) \in Nat \ {0} /\ DOMAIN s = 1..Len(s)
        /\ DOMAIN Tail(s) = 1..(Len(s) - 1) /\ Head(s) = s[1]
    BY <1>3
  <2>2. \A i \in 1..(Len(s) - 1) : Tail(s)[i] = s[i + 1]
    BY <1>3
  <2>3. \A i \in 2..Len(s) : s[i] = Tail(s)[i - 1] /\ i - 1 \in 1..(Len(s) - 1)
    BY <2>1, <2>2
  <2>4. ToSet(Tail(s)) \subseteq ToSet(s)
    <3>1. \A i \in 1..(Len(s) - 1) : i + 1 \in 1..Len(s)
      BY <2>1
    <3> QED
      BY <2>1, <2>2, <3>1 DEF ToSet
  <2>5. ToSet(s) \subseteq {Head(s)} \cup ToSet(Tail(s))
    <3>1. \A i \in 1..Len(s) : i = 1 \/ i \in 2..Len(s)
      BY <2>1
    <3> QED
      BY <2>1, <2>3, <3>1 DEF ToSet
  <2>6. Head(s) \in ToSet(s)
    BY <2>1 DEF ToSet
  <2> QED
    BY <2>4, <2>5, <2>6
<1> QED
  BY <1>1, <1>2, <1>3

(* What a future is made of.                                               *)
LEMMA FutureFacts ==
    /\ \A f \in Futures : f[1] \in Records /\ emailOf(f) \in Range(Email)
    /\ \A r \in Records, n \in Nat : n \in 1..Races[r] => <<r, n>> \in Futures
<1>1. DOMAIN Email = Records
  BY BbopsAssumption
<1>2. \A f \in Futures : f[1] \in Records
  BY DEF Futures
<1>3. \A r \in Records, n \in Nat : n \in 1..Races[r] => <<r, n>> \in Futures
  BY DEF Futures
<1> QED
  BY <1>1, <1>2, <1>3 DEF emailOf, Range

(* No status of the service means that a future waits.                     *)
LEMMA StatusFacts == {"none", "waiting", "cancelled", "no"} \cap BbopsStatus = {}
BY BbopsAssumption

-----------------------------------------------------------------------------
(* Steps, as bbops sees them                                               *)

Cancels(r) == cancelFuture(r) /\ UNCHANGED <<bbopsWork, jobs, bbopsHealth, stopped>>

Asks(r) ==
    /\ race[r] # "racing" /\ nth[r] < Races[r] /\ Enqueue(<<r, nth[r] + 1>>)
    /\ UNCHANGED <<items, task, inBatch, answers, toMark, jobs, bbopsHealth, stopped>>

(* Whatever the race does, to bbops it is one of these.                    *)
LEMMA BbopsKind ==
    ASSUME [BackendsStep]_backendVars
    PROVE  \/ UNCHANGED bbops
           \/ \E r \in Records : Cancels(r) \/ Asks(r)
           \/ crashed
           \/ BbopsNext
<1> USE DEF bbops, bbopsWork, bbopsHealth
<1>1. CASE Crash
  BY <1>1 DEF Crash
<1>2. ASSUME NEW r \in Records, RunBackends(r)
      PROVE  UNCHANGED bbops \/ Asks(r)
  BY <1>2 DEF RunBackends, Asks
<1>3. ASSUME NEW r \in Records, BbopsAnswers(r) \/ RacknerdTimesOut(r)
      PROVE  UNCHANGED bbops
  BY <1>3 DEF BbopsAnswers, RacknerdTimesOut
<1>4. ASSUME NEW r \in Records, BbopsTimesOut(r) \/ Settle(r)
      PROVE  UNCHANGED bbops \/ Cancels(r)
  BY <1>4 DEF BbopsTimesOut, Settle, Cancels
<1>5. CASE UNCHANGED backendVars
  BY <1>5 DEF backendVars
<1> QED
  BY <1>1, <1>2, <1>3, <1>4, <1>5 DEF BackendsStep, Race

-----------------------------------------------------------------------------
(* Types                                                                   *)

(* The types are kept by what bbops does by itself.                        *)
LEMMA TypesBbops == TypeInv /\ JobsInv /\ BbopsNext => TypeInv'
<1> SUFFICES ASSUME TypeInv, JobsInv, BbopsNext PROVE TypeInv'
  OBVIOUS
<1> USE DEF TypeInv, FutureStates, TaskStates, AtWork, JobRow
<1>1. CASE Drain
  <2>1. Head(queue) \in Futures /\ Tail(queue) \in Seq(Futures)
    BY <1>1 DEF Drain
  <2> QED
    BY <1>1, <2>1 DEF Drain
<1>2. CASE Flush
  BY <1>2 DEF Flush, becomes
<1>3. CASE HealthCheck
  BY <1>3 DEF HealthCheck, bbopsWork
<1>4. CASE Stop
  BY <1>4 DEF Stop
<1>5. ASSUME NEW b \in Batches, EnterSem(b) PROVE TypeInv'
  BY <1>5 DEF EnterSem, becomes
<1>6. ASSUME NEW b \in Batches, Submit(b) PROVE TypeInv'
  BY <1>6 DEF Submit, becomes, settleAll
<1>7. ASSUME NEW b \in Batches, Persist(b) PROVE TypeInv'
  <2>1. ASSUME NEW keys, insert(b, keys) PROVE jobs' \in [DOMAIN jobs' -> JobRow]
    BY <2>1 DEF insert
  <2>2. jobs' \in [DOMAIN jobs' -> JobRow]
    BY <1>7, <2>1 DEF Persist
  <2> QED
    BY <1>7, <2>2 DEF Persist, becomes, settleAll
<1>8. ASSUME NEW b \in Batches, Poll(b) PROVE TypeInv'
  <2>0. PICK E \in SUBSET {emailOf(f) : f \in ToSet(inBatch[b])} :
          \E results \in [E -> BbopsStatus] :
            /\ answers' = [answers EXCEPT ![b] = results] /\ toMark' = [toMark EXCEPT ![b] = E]
            /\ _resolve_futures(b, results)
    BY <1>8 DEF Poll
  <2>1. PICK results \in [E -> BbopsStatus] :
          /\ answers' = [answers EXCEPT ![b] = results] /\ toMark' = [toMark EXCEPT ![b] = E]
          /\ _resolve_futures(b, results)
    BY <2>0
  <2>2. E \subseteq Range(Email)
    BY ToSetFacts, FutureFacts
  <2>3. results \in Results
    BY <2>2 DEF Results
  <2>4. future' \in [Futures -> FutureStates]
    BY <2>1 DEF _resolve_futures
  <2> QED
    BY <1>8, <2>1, <2>2, <2>3, <2>4 DEF Poll, becomes
<1>9. ASSUME NEW b \in Batches, Mark(b) PROVE TypeInv'
  <2>1. ASSUME NEW e \in toMark[b], mark_bbops_job_done(b, e)
        PROVE  jobs' \in [DOMAIN jobs' -> JobRow]
    <3>1. answers[b][e] \in BbopsStatus
      BY <2>1 DEF JobsInv, Results
    <3> QED
      BY <2>1, <3>1 DEF mark_bbops_job_done
  <2>2. jobs' \in [DOMAIN jobs' -> JobRow]
    BY <1>9, <2>1 DEF Mark
  <2>3. toMark' \in [Batches -> SUBSET Range(Email)]
    <3>1. \A e : toMark[b] \ {e} \in SUBSET Range(Email)
      OBVIOUS
    <3>2. ASSUME NEW e, toMark' = [toMark EXCEPT ![b] = toMark[b] \ {e}]
          PROVE  toMark' \in [Batches -> SUBSET Range(Email)]
      BY <3>1, <3>2, Zenon
    <3> QED
      BY <1>9, <3>2 DEF Mark
  <2> QED
    BY <1>9, <2>2, <2>3 DEF Mark, becomes
<1>10. ASSUME NEW b \in Batches, _poll_and_resolve_recovery(b) PROVE TypeInv'
  BY <1>10 DEF _poll_and_resolve_recovery, becomes
<1>11. ASSUME NEW b \in Batches, Malformed(b) PROVE TypeInv'
  <2>1. toMark' \in [Batches -> SUBSET Range(Email)]
    BY <1>11 DEF Malformed
  <2>2. CASE UNCHANGED <<future, answers>>
    BY <1>11, <2>1, <2>2 DEF Malformed, becomes
  <2>3. ASSUME NEW E \in SUBSET {emailOf(f) : f \in ToSet(inBatch[b])},
               NEW results \in [E -> BbopsStatus],
               answers' = [answers EXCEPT ![b] = results], resolveMatched(b, results)
        PROVE  TypeInv'
    <3>1. E \subseteq Range(Email)
      BY ToSetFacts, FutureFacts
    <3>2. results \in Results
      BY <3>1 DEF Results
    <3>3. future' \in [Futures -> FutureStates]
      BY <2>3 DEF resolveMatched
    <3> QED
      BY <1>11, <2>1, <2>3, <3>2, <3>3 DEF Malformed, becomes
  <2> QED
    BY <1>11, <2>2, <2>3 DEF Malformed
<1> QED
  BY <1>1, <1>2, <1>3, <1>4, <1>5, <1>6, <1>7, <1>8, <1>9, <1>10, <1>11 DEF BbopsNext, BatchStep

(* The types are kept by every step.                                       *)
LEMMA TypesStep ==
    TypeInv /\ JobsInv /\ RaceInv /\ [BackendsStep]_backendVars => TypeInv'
<1> SUFFICES ASSUME TypeInv, JobsInv, RaceInv, [BackendsStep]_backendVars PROVE TypeInv'
  OBVIOUS
<1> USE DEF TypeInv, FutureStates
<1>1. CASE UNCHANGED bbops
  BY <1>1 DEF bbops, bbopsWork
<1>2. ASSUME NEW r \in Records, Cancels(r) PROVE TypeInv'
  BY <1>2 DEF Cancels, cancelFuture, bbopsWork
<1>3. ASSUME NEW r \in Records, Asks(r) PROVE TypeInv'
  <2>1. <<r, nth[r] + 1>> \in Futures
    <3>1. nth[r] + 1 \in 1..Races[r] /\ nth[r] + 1 \in Nat
      BY <1>3, BbopsAssumption DEF Asks, RaceInv, RaceTypes
    <3> QED
      BY <3>1, FutureFacts
  <2> QED
    BY <1>3, <2>1 DEF Asks, Enqueue
<1>4. CASE crashed
  BY <1>4 DEF crashed, TaskStates
<1> QED
  BY <1>1, <1>2, <1>3, <1>4, BbopsKind, TypesBbops

-----------------------------------------------------------------------------
(* The table of batches                                                    *)

(* Rows are marked with the results of their own batch only, also by what  *)
(* a restarted process polls again.                                        *)
LEMMA JobsBbops == TypeInv /\ JobsInv /\ BbopsNext => JobsInv'
<1> SUFFICES ASSUME TypeInv, JobsInv, BbopsNext PROVE JobsInv'
  OBVIOUS
<1> USE DEF JobsInv, DoneRowsAnswered, BeforeResults
<1>0. /\ task \in [Batches -> TaskStates] /\ answers \in [Batches -> Results]
      /\ toMark \in [Batches -> SUBSET Range(Email)] /\ jobs \in [DOMAIN jobs -> JobRow]
  BY DEF TypeInv
<1>1. ASSUME UNCHANGED <<answers, toMark, jobs>>, NEW b \in Batches, NEW pc, becomes(b, pc),
             pc \in BeforeResults => task[b] \in BeforeResults
      PROVE  JobsInv'
  BY <1>0, <1>1 DEF becomes, JobRow
<1>2. ASSUME UNCHANGED <<task, answers, toMark, jobs>> PROVE JobsInv'
  BY <1>2
<1>3. CASE Drain \/ HealthCheck \/ Stop
  BY <1>2, <1>3 DEF Drain, HealthCheck, Stop, bbopsWork
<1>4. CASE Flush
  BY <1>1, <1>4 DEF Flush
<1>5. ASSUME NEW b \in Batches, EnterSem(b) \/ Submit(b) \/ _poll_and_resolve_recovery(b)
      PROVE  JobsInv'
  BY <1>1, <1>5 DEF EnterSem, Submit, _poll_and_resolve_recovery
<1>6. ASSUME NEW b \in Batches, Persist(b) PROVE JobsInv'
  <2>1. PICK keys : insert(b, keys)
    BY <1>6 DEF Persist
  <2>2. DOMAIN jobs' = DOMAIN jobs \cup keys
    BY <2>1 DEF insert
  <2>3. \A k \in DOMAIN jobs' : jobs'[k].done # "no" => k \in DOMAIN jobs /\ jobs'[k] = jobs[k]
    BY <2>1 DEF insert
  <2>4. \A k \in DOMAIN jobs : jobs[k].batch \in Batches
    BY <1>0 DEF JobRow
  <2>5. /\ UNCHANGED <<answers, toMark>>
        /\ \A c \in Batches : task[c] \notin BeforeResults => task'[c] = task[c]
    BY <1>0, <1>6 DEF Persist, becomes
  <2> QED
    BY <2>2, <2>3, <2>4, <2>5
<1>7. ASSUME NEW b \in Batches, Poll(b) PROVE JobsInv'
  <2>1. PICK E \in SUBSET {emailOf(f) : f \in ToSet(inBatch[b])} :
          \E results \in [E -> BbopsStatus] :
            /\ answers' = [answers EXCEPT ![b] = results] /\ toMark' = [toMark EXCEPT ![b] = E]
    BY <1>7 DEF Poll
  <2>2. PICK results \in [E -> BbopsStatus] :
            /\ answers' = [answers EXCEPT ![b] = results] /\ toMark' = [toMark EXCEPT ![b] = E]
    BY <2>1
  <2>3. \A c \in Batches : toMark'[c] \subseteq DOMAIN answers'[c]
    BY <1>0, <2>2
  <2>4. task[b] = "poll" /\ task' = [task EXCEPT ![b] = "mark"] /\ jobs' = jobs
    BY <1>7 DEF Poll, becomes
  <2>5. \A k \in DOMAIN jobs : jobs[k].done # "no" => jobs[k].batch \in Batches \ {b}
    BY <1>0, <2>4 DEF JobRow
  <2>6. \A c \in Batches \ {b} : task'[c] = task[c] /\ answers'[c] = answers[c]
    BY <1>0, <2>2, <2>4
  <2> QED
    BY <2>3, <2>4, <2>5, <2>6
<1>8. ASSUME NEW b \in Batches, Mark(b) PROVE JobsInv'
  <2>1. /\ task[b] = "mark" /\ answers' = answers
        /\ \A c \in Batches : task'[c] \in BeforeResults => task[c] \in BeforeResults
    BY <1>0, <1>8 DEF Mark, becomes
  <2>2. \A c \in Batches : toMark'[c] \subseteq toMark[c]
    BY <1>0, <1>8 DEF Mark
  <2>3. CASE jobs' = jobs
    BY <1>0, <2>1, <2>2, <2>3 DEF JobRow
  <2>4. ASSUME NEW e \in toMark[b], mark_bbops_job_done(b, e) PROVE JobsInv'
    <3>1. e \in DOMAIN answers[b]
      OBVIOUS
    <3>2. /\ DOMAIN jobs' = DOMAIN jobs
          /\ \A k \in DOMAIN jobs : jobs'[k].batch = jobs[k].batch
      BY <1>0, <2>4 DEF mark_bbops_job_done, JobRow
    <3>3. \A k \in DOMAIN jobs :
            IF k[2] = e /\ jobs[k].batch = b THEN jobs'[k].done = answers[b][e]
                                             ELSE jobs'[k] = jobs[k]
      BY <1>0, <2>4 DEF mark_bbops_job_done, JobRow
    <3>4. \A k \in DOMAIN jobs : jobs[k].batch \in Batches
      BY <1>0 DEF JobRow
    <3> QED
      BY <2>1, <2>2, <3>1, <3>2, <3>3, <3>4
  <2> QED
    BY <1>8, <2>3, <2>4 DEF Mark
<1>9. ASSUME NEW b \in Batches, Malformed(b) PROVE JobsInv'
  <2>1. /\ task[b] \in BeforeResults /\ task' = [task EXCEPT ![b] = "dead"] /\ jobs' = jobs
        /\ toMark' = [toMark EXCEPT ![b] = {}]
    BY <1>9 DEF Malformed, becomes
  <2>2. \A c \in Batches \ {b} : task'[c] = task[c] /\ answers'[c] = answers[c] /\ toMark'[c] = toMark[c]
    BY <1>0, <1>9, <2>1 DEF Malformed
  <2>3. toMark'[b] = {}
    BY <1>0, <2>1
  <2>4. \A k \in DOMAIN jobs : jobs[k].done # "no" => jobs[k].batch \in Batches \ {b}
    BY <1>0, <2>1 DEF JobRow
  <2> QED
    BY <2>1, <2>2, <2>3, <2>4
<1> QED
  BY <1>3, <1>4, <1>5, <1>6, <1>7, <1>8, <1>9 DEF BbopsNext, BatchStep

(* Nothing outside the batches' tasks writes to the table or the results.  *)
LEMMA JobsStep == TypeInv /\ JobsInv /\ [BackendsStep]_backendVars => JobsInv'
<1> SUFFICES ASSUME TypeInv, JobsInv, [BackendsStep]_backendVars PROVE JobsInv'
  OBVIOUS
<1>1. ASSUME UNCHANGED <<task, answers, toMark, jobs>> PROVE JobsInv'
  BY <1>1 DEF JobsInv, DoneRowsAnswered
<1>2. CASE UNCHANGED bbops
  BY <1>1, <1>2 DEF bbops, bbopsWork
<1>3. ASSUME NEW r \in Records, Cancels(r) \/ Asks(r) PROVE JobsInv'
  BY <1>1, <1>3 DEF Cancels, Asks, bbopsWork
<1>4. CASE crashed
  <2>1. \A b \in Batches : task'[b] \in BeforeResults => task[b] = "none"
    BY <1>4 DEF crashed, BeforeResults
  <2>2. \A k \in DOMAIN jobs : jobs[k].batch \in Batches
    BY DEF TypeInv, JobRow
  <2>3. UNCHANGED <<answers, jobs>> /\ \A b \in Batches : toMark'[b] = {}
    BY <1>4 DEF crashed
  <2> QED
    BY <2>1, <2>2, <2>3 DEF JobsInv, DoneRowsAnswered, BeforeResults
<1> QED
  BY <1>2, <1>3, <1>4, BbopsKind, JobsBbops

-----------------------------------------------------------------------------
(* The waiting futures                                                     *)

(* A task that fails or ends has settled what its batch waited for.        *)
LEMMA WaitBatch ==
    ASSUME TypeInv, NobodyForgotten, NEW b \in Batches, BatchStep(b)
    PROVE  NobodyForgotten'
<1> USE DEF NobodyForgotten
<1>0. /\ task \in [Batches -> TaskStates] /\ future \in [Futures -> FutureStates]
      /\ UNCHANGED <<queue, items, inBatch, stopped>>
  BY DEF TypeInv, BatchStep, EnterSem, Submit, Persist, Poll, Malformed, Mark, _poll_and_resolve_recovery
<1>1. ASSUME NEW pc, becomes(b, pc), \A f \in Futures : future'[f] = "waiting" => future[f] = "waiting",
             pc \in {"submit", "persist", "poll", "dead"} \/ task[b] \notin {"sem", "submit", "persist", "poll", "dead"}
      PROVE  NobodyForgotten'
  BY <1>0, <1>1 DEF becomes
<1>2. ASSUME NEW pc, becomes(b, pc),
             \A f \in Futures :
               future'[f] = "waiting" => future[f] = "waiting" /\ f \notin ToSet(inBatch[b])
      PROVE  NobodyForgotten'
  <2>1. \A c \in Batches \ {b} : task'[c] = task[c]
    BY <1>0, <1>2 DEF becomes
  <2> QED
    BY <1>0, <1>2, <2>1
<1>3. ASSUME NEW pc, becomes(b, pc), settleAll(b, "error") PROVE NobodyForgotten'
  <2>1. \A f \in Futures :
          future'[f] = "waiting" => future[f] = "waiting" /\ f \notin ToSet(inBatch[b])
    BY <1>3 DEF settleAll, waitingIn
  <2> QED
    BY <1>2, <1>3, <2>1
<1>4. CASE EnterSem(b)
  BY <1>1, <1>4 DEF EnterSem
<1>5. CASE Submit(b)
  BY <1>1, <1>3, <1>5 DEF Submit
<1>6. CASE Persist(b)
  BY <1>1, <1>3, <1>6 DEF Persist
<1>7. CASE Poll(b)
  <2>1. PICK E \in SUBSET {emailOf(f) : f \in ToSet(inBatch[b])} :
          \E results \in [E -> BbopsStatus] : _resolve_futures(b, results)
    BY <1>7 DEF Poll
  <2>2. PICK results \in [E -> BbopsStatus] : _resolve_futures(b, results)
    BY <2>1
  <2>3. \A f \in Futures :
          future'[f] = "waiting" => future[f] = "waiting" /\ f \notin ToSet(inBatch[b])
    BY <2>2, StatusFacts DEF _resolve_futures, waitingIn
  <2> QED
    BY <1>2, <1>7, <2>3 DEF Poll
<1>8. CASE Mark(b)
  <2>1. CASE task' = task
    BY <1>0, <1>8, <2>1 DEF Mark
  <2>2. CASE becomes(b, "over")
    BY <1>1, <1>8, <2>2 DEF Mark
  <2> QED
    BY <1>8, <2>1, <2>2 DEF Mark
<1>9. CASE _poll_and_resolve_recovery(b)
  BY <1>1, <1>9 DEF _poll_and_resolve_recovery
<1>10. CASE Malformed(b)
  <2>1. \A f \in Futures : future'[f] = "waiting" => future[f] = "waiting"
    BY <1>0, <1>10, StatusFacts DEF Malformed, resolveMatched, waitingIn
  <2> QED
    BY <1>1, <1>10, <2>1 DEF Malformed
<1> QED
  BY <1>4, <1>5, <1>6, <1>7, <1>8, <1>9, <1>10 DEF BatchStep

(* The items move from the queue to the flusher to a batch.                *)
LEMMA WaitBbops == TypeInv /\ NobodyForgotten /\ BbopsNext => NobodyForgotten'
<1> SUFFICES ASSUME TypeInv, NobodyForgotten, BbopsNext PROVE NobodyForgotten'
  OBVIOUS
<1>0. /\ queue \in Seq(Futures) /\ items \in Seq(Futures)
      /\ task \in [Batches -> TaskStates] /\ inBatch \in [Batches -> Seq(Futures)]
  BY DEF TypeInv
<1>1. CASE Drain
  <2>1. ToSet(queue) \cup ToSet(items) = ToSet(queue') \cup ToSet(items')
    <3>1. queue # <<>> /\ queue' = Tail(queue) /\ items' = Append(items, Head(queue))
      BY <1>1 DEF Drain
    <3>2. ToSet(queue) = {Head(queue)} \cup ToSet(Tail(queue))
      BY <1>0, <3>1, ToSetFacts
    <3>3. ToSet(Append(items, Head(queue))) = ToSet(items) \cup {Head(queue)}
      BY <1>0, ToSetFacts
    <3> QED
      BY <3>1, <3>2, <3>3
  <2>2. UNCHANGED <<future, task, inBatch, stopped>>
    BY <1>1 DEF Drain
  <2> QED
    BY <2>1, <2>2 DEF NobodyForgotten
<1>2. CASE Flush
  <2>1. PICK b \in Batches : task[b] = "none" /\ becomes(b, "sem") /\ inBatch' = [inBatch EXCEPT ![b] = items]
    BY <1>2 DEF Flush
  <2>2. /\ task'[b] = "sem" /\ inBatch'[b] = items
        /\ \A c \in Batches \ {b} : task'[c] = task[c] /\ inBatch'[c] = inBatch[c]
    BY <1>0, <2>1 DEF becomes
  <2>3. UNCHANGED <<future, queue, stopped>>
    BY <1>2 DEF Flush
  <2> QED
    BY <2>1, <2>2, <2>3 DEF NobodyForgotten
<1>3. CASE HealthCheck
  BY <1>3 DEF HealthCheck, bbopsWork, NobodyForgotten
<1>4. CASE Stop
  BY <1>4 DEF Stop, NobodyForgotten
<1> QED
  BY <1>1, <1>2, <1>3, <1>4, WaitBatch DEF BbopsNext

(* A call that is new is in the queue; a cancelled one does not wait.      *)
LEMMA WaitStep == TypeInv /\ NobodyForgotten /\ [BackendsStep]_backendVars => NobodyForgotten'
<1> SUFFICES ASSUME TypeInv, NobodyForgotten, [BackendsStep]_backendVars PROVE NobodyForgotten'
  OBVIOUS
<1>0. future \in [Futures -> FutureStates] /\ queue \in Seq(Futures)
  BY DEF TypeInv
<1>1. CASE UNCHANGED bbops
  BY <1>1 DEF bbops, bbopsWork, NobodyForgotten
<1>2. ASSUME NEW r \in Records, Cancels(r) PROVE NobodyForgotten'
  <2>1. \A f \in Futures : future'[f] = "waiting" => future[f] = "waiting"
    BY <1>0, <1>2 DEF Cancels, cancelFuture
  <2> QED
    BY <1>2, <2>1 DEF Cancels, bbopsWork, NobodyForgotten
<1>3. ASSUME NEW r \in Records, Asks(r) PROVE NobodyForgotten'
  <2> DEFINE g == <<r, nth[r] + 1>>
  <2>1. /\ future' = [future EXCEPT ![g] = "waiting"] /\ queue' = Append(queue, g)
        /\ UNCHANGED <<items, task, inBatch, stopped>>
    BY <1>3 DEF Asks, Enqueue
  <2> HIDE DEF g
  <2>2. ToSet(queue') = ToSet(queue) \cup {g}
    BY <1>0, <2>1, ToSetFacts
  <2>3. \A f \in Futures \ {g} : future'[f] = future[f]
    BY <1>0, <2>1
  <2> QED
    BY <2>1, <2>2, <2>3 DEF NobodyForgotten
<1>4. CASE crashed
  BY <1>4 DEF crashed, NobodyForgotten
<1> QED
  BY <1>1, <1>2, <1>3, <1>4, BbopsKind, WaitBbops

-----------------------------------------------------------------------------
(* The settled futures                                                     *)

(* Results are set together with the futures and stay after that.          *)
LEMMA AnswersBatch ==
    ASSUME TypeInv, AnswersInv, NEW b \in Batches, BatchStep(b)
    PROVE  AnswersInv'
<1> USE DEF AnswersInv, answeredValid, BeforeResults
<1>0. /\ task \in [Batches -> TaskStates] /\ future \in [Futures -> FutureStates]
      /\ answers \in [Batches -> Results] /\ inBatch' = inBatch
  BY DEF TypeInv, BatchStep, EnterSem, Submit, Persist, Poll, Malformed, Mark, _poll_and_resolve_recovery
<1>1. ASSUME NEW pc, becomes(b, pc), answers' = answers,
             pc \in BeforeResults => task[b] \in BeforeResults,
             \A f \in Futures : future'[f] = "valid" => future[f] = "valid"
      PROVE  AnswersInv'
  <2>1. \A c \in Batches : task[c] \notin BeforeResults => task'[c] \notin BeforeResults
    BY <1>0, <1>1 DEF becomes
  <2> QED
    BY <1>0, <1>1, <2>1
<1>2. ASSUME settleAll(b, "error")
      PROVE  \A f \in Futures : future'[f] = "valid" => future[f] = "valid"
  BY <1>2 DEF settleAll
<1>3. CASE EnterSem(b)
  BY <1>1, <1>3 DEF EnterSem
<1>4. CASE Submit(b)
  BY <1>1, <1>2, <1>4 DEF Submit
<1>5. CASE Persist(b)
  BY <1>1, <1>2, <1>5 DEF Persist
<1>6. ASSUME NEW E, NEW results \in [E -> BbopsStatus], answers' = [answers EXCEPT ![b] = results],
             _resolve_futures(b, results) \/ resolveMatched(b, results),
             task[b] = "poll", NEW pc \in {"mark", "dead"}, task' = [task EXCEPT ![b] = pc]
      PROVE  AnswersInv'
  <2>4. /\ task'[b] = pc /\ answers'[b] = results
        /\ \A c \in Batches \ {b} : task'[c] = task[c] /\ answers'[c] = answers[c]
    BY <1>0, <1>6
  <2>5. ASSUME NEW f \in Futures, future'[f] = "valid", future[f] # "valid"
        PROVE  f \in ToSet(inBatch[b]) /\ emailOf(f) \in DOMAIN results /\ results[emailOf(f)] = "valid"
    BY <1>6, <2>5 DEF _resolve_futures, resolveMatched, waitingIn
  <2>6. ASSUME NEW f \in Futures, future'[f] = "valid" PROVE answeredValid(f)'
    <3>1. CASE future[f] = "valid"
      <4>1. PICK c \in Batches :
              /\ task[c] \notin BeforeResults /\ f \in ToSet(inBatch[c])
              /\ emailOf(f) \in DOMAIN answers[c] /\ answers[c][emailOf(f)] = "valid"
        BY <3>1
      <4>2. c # b
        BY <1>6, <4>1
      <4> QED
        BY <1>0, <2>4, <4>1, <4>2 DEF emailOf
    <3>2. CASE future[f] # "valid"
      BY <1>0, <2>4, <2>5, <2>6, <3>2 DEF emailOf
    <3> QED
      BY <3>1, <3>2
  <2> QED
    BY <2>6
<1>7. CASE Mark(b)
  <2>1. CASE task' = task
    BY <1>0, <1>7, <2>1 DEF Mark
  <2>2. CASE becomes(b, "over")
    BY <1>1, <1>7, <2>2 DEF Mark
  <2> QED
    BY <1>7, <2>1, <2>2 DEF Mark
<1>8. CASE _poll_and_resolve_recovery(b)
  BY <1>1, <1>8 DEF _poll_and_resolve_recovery
<1>9. CASE Poll(b)
  BY <1>6, <1>9 DEF Poll, becomes
<1>10. CASE Malformed(b)
  <2>1. CASE task[b] = "submit" /\ UNCHANGED <<future, answers>>
    BY <1>1, <1>10, <2>1 DEF Malformed
  <2> QED
    BY <1>6, <1>10, <2>1 DEF Malformed, becomes
<1> QED
  BY <1>3, <1>4, <1>5, <1>7, <1>8, <1>9, <1>10 DEF BatchStep

(* Only a poll settles a future to `valid`.                                *)
LEMMA AnswersStep == TypeInv /\ AnswersInv /\ [BackendsStep]_backendVars => AnswersInv'
<1> SUFFICES ASSUME TypeInv, AnswersInv, [BackendsStep]_backendVars PROVE AnswersInv'
  OBVIOUS
<1>0. /\ task \in [Batches -> TaskStates] /\ future \in [Futures -> FutureStates]
      /\ inBatch \in [Batches -> Seq(Futures)]
  BY DEF TypeInv
<1>1. ASSUME \A f \in Futures : future'[f] = "valid" => future[f] = "valid",
             answers' = answers,
             \A b \in Batches : task[b] \notin BeforeResults =>
               task'[b] \notin BeforeResults /\ inBatch'[b] = inBatch[b]
      PROVE  AnswersInv'
  BY <1>1 DEF AnswersInv, answeredValid, emailOf
<1>2. CASE UNCHANGED bbops
  BY <1>1, <1>2 DEF bbops, bbopsWork
<1>3. ASSUME NEW r \in Records, Cancels(r) PROVE AnswersInv'
  <2>1. \A f \in Futures : future'[f] = "valid" => future[f] = "valid"
    BY <1>0, <1>3 DEF Cancels, cancelFuture
  <2> QED
    BY <1>1, <1>3, <2>1 DEF Cancels, bbopsWork
<1>4. ASSUME NEW r \in Records, Asks(r) PROVE AnswersInv'
  <2>1. \A f \in Futures : future'[f] = "valid" => future[f] = "valid"
    BY <1>0, <1>4 DEF Asks, Enqueue
  <2> QED
    BY <1>1, <1>4, <2>1 DEF Asks
<1>5. CASE crashed
  <2>1. \A b \in Batches : task[b] \notin BeforeResults => task'[b] \notin BeforeResults
    BY <1>5 DEF crashed, BeforeResults
  <2>2. \A f \in Futures : future'[f] = "valid" => future[f] = "valid"
    BY <1>5 DEF crashed
  <2> QED
    BY <1>1, <1>5, <2>1, <2>2 DEF crashed
<1>6. CASE Flush
  <2>1. PICK b \in Batches : task[b] = "none" /\ becomes(b, "sem") /\ inBatch' = [inBatch EXCEPT ![b] = items]
    BY <1>6 DEF Flush
  <2>2. \A c \in Batches : task[c] \notin BeforeResults => task'[c] = task[c] /\ inBatch'[c] = inBatch[c]
    BY <1>0, <2>1 DEF becomes, BeforeResults
  <2> QED
    BY <1>1, <1>6, <2>2 DEF Flush
<1>7. CASE Drain \/ HealthCheck \/ Stop
  BY <1>1, <1>7 DEF Drain, HealthCheck, Stop, bbopsWork
<1> QED
  BY <1>2, <1>3, <1>4, <1>5, <1>6, <1>7, BbopsKind, AnswersBatch DEF BbopsNext

-----------------------------------------------------------------------------
(* The race                                                                *)

(* A future that is `valid` stays so, unless it is asked for anew.         *)
LEMMA ValidStays ==
    ASSUME TypeInv, NEW f \in Futures, future[f] = "valid",
           BbopsNext \/ crashed \/ \E r \in Records : cancelFuture(r)
    PROVE  future'[f] = "valid"
<1>0. future \in [Futures -> FutureStates]
  BY DEF TypeInv
<1>1. ASSUME NEW r \in Records, cancelFuture(r) PROVE future'[f] = "valid"
  BY <1>0, <1>1 DEF cancelFuture
<1>2. CASE crashed
  BY <1>2 DEF crashed
<1>3. ASSUME NEW b \in Batches, BatchStep(b) PROVE future'[f] = "valid"
  <2>1. ASSUME settleAll(b, "error") PROVE future'[f] = "valid"
    BY <2>1 DEF settleAll, waitingIn
  <2>2. ASSUME NEW results, _resolve_futures(b, results) PROVE future'[f] = "valid"
    BY <2>2 DEF _resolve_futures, waitingIn
  <2>3. CASE Poll(b)
    BY <2>2, <2>3 DEF Poll
  <2>4. CASE Malformed(b)
    BY <2>4 DEF Malformed, resolveMatched, waitingIn
  <2> QED
    BY <1>3, <2>1, <2>3, <2>4 DEF BatchStep, EnterSem, Submit, Persist, Mark, _poll_and_resolve_recovery
<1>4. CASE Drain \/ Flush \/ HealthCheck \/ Stop
  BY <1>4 DEF Drain, Flush, HealthCheck, Stop
<1> QED
  BY <1>1, <1>2, <1>3, <1>4 DEF BbopsNext

(* A step of the race of one record.                                       *)
LEMMA RaceOfRecord ==
    ASSUME TypeInv, RaceInv, NEW r \in Records, Race(r)
    PROVE  RaceInv'
<1>0. RaceTypes /\ raceOf(r) /\ future \in [Futures -> FutureStates]
  BY DEF TypeInv, RaceInv
<1> USE DEF RaceTypes, raceOf, goes, bbSays, Verdict, racknerd, racknerdShared, Said, InSem
<1>1. \A q \in Records \ {r} : fut(q) # fut(r) /\ (race[q] # "idle" => fut(q) \in Futures)
  <2>1. \A q \in Records \ {r} : fut(q) # fut(r)
    BY DEF fut
  <2>2. \A q \in Records \ {r} : race[q] # "idle" => fut(q) \in Futures
    BY FutureFacts DEF fut, RaceInv
  <2> QED
    BY <2>1, <2>2
<1>2. /\ \A q \in Records \ {r} :
           /\ race'[q] = race[q] /\ nth'[q] = nth[q] /\ bb'[q] = bb[q] /\ rk'[q] = rk[q]
           /\ kpc'[q] = kpc[q] /\ fut(q)' = fut(q)
      /\ RaceTypes'
  <2>1. \A f \in Futures : future[f] \in Said \cup {"waiting"}
    BY <1>0 DEF FutureStates
  <2>2. nth[r] + 1 \in Nat
    BY <1>0
  <2>3. race[r] # "idle" => fut(r) \in Futures
    BY <1>0, FutureFacts DEF fut
  <2>4. CASE RunBackends(r)
    BY <1>0, <2>2, <2>4 DEF RunBackends, fut
  <2>5. CASE BbopsAnswers(r)
    BY <1>0, <2>1, <2>3, <2>5 DEF BbopsAnswers, fut
  <2>6. CASE RacknerdTimesOut(r)
    BY <1>0, <2>6 DEF RacknerdTimesOut, races, fut
  <2>7. CASE BbopsTimesOut(r)
    BY <1>0, <2>7 DEF BbopsTimesOut, fut
  <2>8. CASE Settle(r)
    BY <1>0, <2>8 DEF Settle, fut
  <2> QED
    BY <2>4, <2>5, <2>6, <2>7, <2>8 DEF Race
<1>3. \A q \in Records \ {r} : race[q] # "idle" /\ future[fut(q)] = "valid" => future'[fut(q)] = "valid"
  <2>1. CASE UNCHANGED future
    BY <2>1
  <2>2. CASE cancelFuture(r)
    BY <1>1, <2>2, ValidStays
  <2>3. CASE Enqueue(<<r, nth[r] + 1>>)
    <3>1. \A q \in Records \ {r} : fut(q) # <<r, nth[r] + 1>>
      BY DEF fut
    <3> QED
      BY <1>0, <1>1, <2>3, <3>1 DEF Enqueue
  <2> QED
    BY <2>1, <2>2, <2>3
       DEF Race, RunBackends, BbopsAnswers, RacknerdTimesOut, BbopsTimesOut, Settle, bbops
<1>4. ASSUME NEW q \in Records \ {r} PROVE raceOf(q)'
  <2>1. raceOf(q)
    BY DEF RaceInv
  <2> QED
    BY <1>2, <1>3, <2>1
<1>5. raceOf(r)'
  <2>1. CASE RunBackends(r)
    <3>1. /\ race'[r] = "racing" /\ nth'[r] = nth[r] + 1 /\ nth[r] < Races[r]
          /\ rk'[r] = "none" /\ bb'[r] \in {"none", "not_run"}
      BY <1>0, <2>1 DEF RunBackends
    <3>2. nth'[r] \in 1..Races[r]
      BY <1>0, <3>1, BbopsAssumption
    <3> QED
      BY <3>1, <3>2
  <2>2. CASE BbopsAnswers(r)
    <3>1. /\ race' = race /\ nth' = nth /\ rk' = rk /\ kpc' = kpc /\ future' = future
          /\ bb'[r] = future[fut(r)] /\ race[r] = "racing" /\ future[fut(r)] # "cancelled"
          /\ fut(r)' = fut(r)
      BY <1>0, <2>2 DEF BbopsAnswers, bbops, fut
    <3> QED
      BY <1>0, <3>1
  <2>3. CASE RacknerdTimesOut(r)
    <3>1. /\ race' = race /\ nth' = nth /\ bb' = bb /\ future' = future /\ race[r] = "racing"
          /\ rk'[r] = "error" /\ kpc'[r] = "idle" /\ fut(r)' = fut(r)
      BY <1>0, <2>3 DEF RacknerdTimesOut, races, bbops, fut
    <3> QED
      BY <1>0, <3>1
  <2>4. CASE BbopsTimesOut(r)
    <3>1. /\ race' = race /\ nth' = nth /\ rk' = rk /\ kpc' = kpc /\ race[r] = "racing"
          /\ bb'[r] = "error"
      BY <1>0, <2>4 DEF BbopsTimesOut
    <3> QED
      BY <1>0, <3>1
  <2>5. CASE Settle(r)
    <3>1. /\ race[r] = "racing" /\ race'[r] = "over" /\ nth' = nth /\ fut(r)' = fut(r) /\ decided(r)
          /\ rk'[r] = IF rk[r] = "none" THEN "cancelled" ELSE rk[r]
          /\ bb'[r] = IF bb[r] = "none" THEN "cancelled" ELSE bb[r]
          /\ kpc'[r] = "idle" /\ (bb[r] # "none" => future' = future)
      BY <1>0, <2>5 DEF Settle, fut
    <3> QED
      BY <1>0, <3>1 DEF decided
  <2> QED
    BY <2>1, <2>2, <2>3, <2>4, <2>5 DEF Race
<1> QED
  BY <1>2, <1>4, <1>5 DEF RaceInv

(* A probe is under way only in a race that Racknerd has not answered.     *)
LEMMA RaceProbe ==
    ASSUME RaceInv, NEW r \in Records, ProbeStep(r), UNCHANGED <<bbops, races>>
    PROVE  RaceInv'
<1>0. RaceTypes /\ \A q \in Records : raceOf(q)
  BY DEF RaceInv
<1> USE DEF RaceTypes, raceOf, goes, Verdict, resolved, Said, InSem
<1>1. /\ kpc[r] # "idle"
      /\ \E pc \in {"idle"} \cup InSem, status \in {"valid", "invalid", "blocked", "error"} :
           /\ kpc' = [kpc EXCEPT ![r] = pc]
           /\ \/ rk' = rk
              \/ pc = "idle" /\ rk' = [rk EXCEPT ![r] = status]
  <2>1. CASE EnterProbe(r)
    BY <2>1 DEF EnterProbe
  <2>2. CASE Resolve(r)
    BY <2>2 DEF Resolve
  <2>3. CASE Guarded(r) \/ WakesUp(r)
    BY <2>3 DEF Guarded, WakesUp
  <2>4. ASSUME NEW s \in {"valid", "invalid", "blocked", "error"}, SmtpAnswer(r, s)
        PROVE  <1>1!1 /\ <1>1!2
    BY <2>4 DEF SmtpAnswer
  <2> QED
    BY <2>1, <2>2, <2>3, <2>4 DEF ProbeStep
<1>2. PICK pc \in {"idle"} \cup InSem, status \in {"valid", "invalid", "blocked", "error"} :
        /\ kpc' = [kpc EXCEPT ![r] = pc]
        /\ \/ rk' = rk
           \/ pc = "idle" /\ rk' = [rk EXCEPT ![r] = status]
  BY <1>1
<1>3. race[r] = "racing" /\ rk[r] = "none"
  BY <1>0, <1>1
<1>4. RaceTypes'
  BY <1>0, <1>2 DEF races
<1>5. ASSUME NEW q \in Records PROVE raceOf(q)'
  <2>1. race' = race /\ nth' = nth /\ bb' = bb /\ future' = future /\ fut(q)' = fut(q)
    BY DEF races, bbops, fut
  <2>2. raceOf(q)
    BY <1>0
  <2>3. CASE q = r
    <3>1. kpc'[r] = pc /\ (rk'[r] = "none" \/ (pc = "idle" /\ rk'[r] = status))
      BY <1>0, <1>2, <1>3
    <3> QED
      BY <1>3, <2>1, <2>2, <2>3, <3>1
  <2>4. CASE q # r
    <3>1. kpc'[q] = kpc[q] /\ rk'[q] = rk[q]
      BY <1>0, <1>2, <2>4
    <3> QED
      BY <2>1, <2>2, <3>1
  <2> QED
    BY <2>3, <2>4
<1> QED
  BY <1>4, <1>5 DEF RaceInv

(* A kill leaves no race under way, and what bbops does by itself takes no *)
(* `valid` back.                                                           *)
LEMMA RaceStep == TypeInv /\ RaceInv /\ [BackendsStep]_backendVars => RaceInv'
<1> SUFFICES ASSUME TypeInv, RaceInv, [BackendsStep]_backendVars PROVE RaceInv'
  OBVIOUS
<1>0. RaceTypes /\ \A r \in Records : raceOf(r) /\ (race[r] # "idle" => fut(r) \in Futures)
  BY FutureFacts DEF RaceInv, RaceTypes, raceOf, fut
<1>1. ASSUME UNCHANGED <<kpc, rk, race, nth, bb>>,
             \A f \in Futures : future[f] = "valid" => future'[f] = "valid"
      PROVE  RaceInv'
  <2>1. \A r \in Records : fut(r)' = fut(r)
    BY <1>1 DEF fut
  <2>2. \A r \in Records : raceOf(r)'
    BY <1>0, <1>1, <2>1 DEF raceOf
  <2> QED
    BY <1>0, <1>1, <2>2 DEF RaceInv, RaceTypes
<1>2. CASE Crash
  <2>1. \A f \in Futures : future[f] = "valid" => future'[f] = "valid"
    BY <1>2, ValidStays DEF Crash
  <2>2. \A r \in Records : fut(r)' = fut(r)
    BY <1>2 DEF Crash, fut
  <2>3. RaceTypes'
    BY <1>0, <1>2, BackendsAssumption DEF Crash, RaceTypes, Said
  <2>4. ASSUME NEW r \in Records PROVE raceOf(r)'
    <3>1. /\ race'[r] = IF race[r] = "racing" THEN "idle" ELSE race[r]
          /\ rk'[r] = IF race[r] = "racing" THEN "none" ELSE rk[r]
          /\ kpc'[r] = "idle" /\ nth' = nth /\ bb' = bb
      BY <1>2, BackendsAssumption DEF Crash
    <3>2. raceOf(r) /\ (race[r] # "idle" => fut(r) \in Futures)
      BY <1>0
    <3> QED
      BY <2>1, <2>2, <3>1, <3>2 DEF raceOf
  <2> QED
    BY <2>3, <2>4 DEF RaceInv
<1>3. ASSUME NEW r \in Records, Race(r) PROVE RaceInv'
  BY <1>3, RaceOfRecord
<1>4. ASSUME NEW r \in Records, ProbeStep(r), UNCHANGED <<bbops, races>> PROVE RaceInv'
  BY <1>4, RaceProbe
<1>5. CASE (TimePasses \/ TunnelChanges) /\ UNCHANGED <<bbops, races>>
  BY <1>1, <1>5 DEF TimePasses, TunnelChanges, bbops, races
<1>6. CASE BbopsNext /\ UNCHANGED <<racknerd, races>>
  <2>1. \A f \in Futures : future[f] = "valid" => future'[f] = "valid"
    BY <1>6, ValidStays
  <2> QED
    BY <1>1, <1>6, <2>1 DEF racknerd, races
<1>7. CASE UNCHANGED backendVars
  BY <1>1, <1>7 DEF backendVars, racknerd, bbops, races
<1> QED
  BY <1>2, <1>3, <1>4, <1>5, <1>6, <1>7 DEF BackendsStep

-----------------------------------------------------------------------------
(* The invariant                                                           *)

LEMMA InvInit == BackendsInit => BackendsInv
<1> SUFFICES ASSUME BackendsInit PROVE BackendsInv
  OBVIOUS
<1> USE DEF BackendsInit, BbopsInit, RacknerdInit
<1>1. TypeInv
  <2>1. NoResults \in Results
    BY DEF NoResults, Results
  <2> QED
    BY <2>1 DEF TypeInv, FutureStates, TaskStates, NoJobs
<1>2. JobsInv
  BY DEF JobsInv, DoneRowsAnswered, NoJobs
<1>3. NobodyForgotten
  BY DEF NobodyForgotten
<1>4. AnswersInv
  BY DEF AnswersInv
<1>5. RaceInv
  BY BackendsAssumption DEF RaceInv, RaceTypes, raceOf, Said, fut
<1> QED
  BY <1>1, <1>2, <1>3, <1>4, <1>5 DEF BackendsInv

LEMMA InvStep == BackendsInv /\ [BackendsStep]_backendVars => BackendsInv'
BY TypesStep, JobsStep, WaitStep, AnswersStep, RaceStep DEF BackendsInv

LEMMA InvHolds == BackendsSpec => []BackendsInv
BY InvInit, InvStep, PTL DEF BackendsSpec

(* Whoever waits for a verdict of a running consumer is in the queue, with *)
(* the flusher or in a batch that has yet to be polled or whose task died  *)
(* of a malformed reply, whatever requests, writes and result lists fail   *)
(* (_submit_and_poll, bbops_async.py).                                     *)
THEOREM WaitersTheorem == BackendsSpec => []NobodyForgotten
<1>1. BackendsInv => NobodyForgotten
  BY DEF BackendsInv
<1> QED
  BY <1>1, InvHolds, PTL

(* A row of bbops_jobs that is done carries a result of the batch named in *)
(* it, for every number of batches, kills and repeated addresses           *)
(* (mark_bbops_job_done, bbops_jobs.py).                                   *)
THEOREM RowsTheorem == BackendsSpec => []DoneRowsAnswered
<1>1. BackendsInv => DoneRowsAnswered
  BY DEF BackendsInv, JobsInv
<1> QED
  BY <1>1, InvHolds, PTL

(* A race that cut a backend short had a `valid`, and a `valid` of bbops   *)
(* is the result that the batch of this very call got for this record's    *)
(* address (run_backends, dispatch_probes.py).                             *)
THEOREM RaceTheorem == BackendsSpec => []ValidCounts
<1>1. ASSUME BackendsInv PROVE ValidCounts
  <2>1. AnswersInv /\ RaceInv
    BY <1>1 DEF BackendsInv
  <2>2. ASSUME NEW r \in Records, race[r] = "over", bb[r] = "valid"
        PROVE  answeredValid(fut(r)) /\ emailOf(fut(r)) = Email[r]
    <3>1. nth[r] \in 1..Races[r] /\ nth[r] \in Nat /\ future[fut(r)] = "valid"
      BY <2>1, <2>2 DEF RaceInv, RaceTypes, raceOf
    <3>2. fut(r) \in Futures
      BY <3>1, FutureFacts DEF fut
    <3> QED
      BY <2>1, <3>1, <3>2 DEF AnswersInv, emailOf, fut
  <2>3. \A r \in Records :
          race[r] = "over" /\ "cancelled" \in {rk[r], bb[r]} => "valid" \in {rk[r], bb[r]}
    BY <2>1 DEF RaceInv, raceOf
  <2>4. ASSUME NEW r \in Records, race[r] = "over", bb[r] = "valid"
        PROVE  \E b \in Batches :
                 /\ fut(r) \in ToSet(inBatch[b])
                 /\ Email[r] \in DOMAIN answers[b] /\ answers[b][Email[r]] = "valid"
    BY <2>2, <2>4 DEF answeredValid
  <2> QED
    BY <2>3, <2>4 DEF ValidCounts
<1> QED
  BY <1>1, InvHolds, PTL

-----------------------------------------------------------------------------
(* The tunnel of an egress: stop() is final, whatever the retries and the  *)
(* backoff.                                                                *)

\* Who runs _spawn: start() before there is a supervisor, then the supervisor;
\* stop() comes to a tunnel whose start() has returned.
TunnelInv ==
    /\ spawn # "no" => starter = "spawning" \/ supervisor = "spawning"
    /\ starter \in {"idle", "spawning"} => supervisor = "none" /\ stopper = "no"
    /\ StopIsFinal

(* The strengthening of StopIsFinal is inductive.                          *)
LEMMA TunnelInvStep == TunnelInv /\ [TunnelStep]_tunnel => TunnelInv'
<1> SUFFICES ASSUME TunnelInv, [TunnelStep]_tunnel PROVE TunnelInv'
  OBVIOUS
<1> USE DEF TunnelInv, StopIsFinal, Running
<1>1. CASE Start
  BY <1>1 DEF Start
<1>2. CASE Exec
  BY <1>2 DEF Exec
<1>3. CASE ExecFails
  BY <1>3 DEF ExecFails
<1>4. CASE Poll_
  BY <1>4 DEF Poll_, spawned
<1>5. CASE StartReturns
  BY <1>5 DEF StartReturns
<1>6. CASE ProcessEnded
  BY <1>6 DEF ProcessEnded
<1>7. CASE BackoffOver
  BY <1>7 DEF BackoffOver
<1>8. CASE Stop_
  BY <1>8 DEF Stop_, cancelled
<1>9. CASE Terminated
  BY <1>9 DEF Terminated, cancelled
<1>10. CASE SshConnects
  BY <1>10 DEF SshConnects
<1>11. CASE SshEnds
  BY <1>11 DEF SshEnds
<1>12. CASE UNCHANGED tunnel
  BY <1>12 DEF tunnel
<1> QED
  BY <1>1, <1>2, <1>3, <1>4, <1>5, <1>6, <1>7, <1>8, <1>9, <1>10, <1>11, <1>12 DEF TunnelStep

(* StopIsFinal (SshSocksTunnel.stop): nothing runs, and nothing is started *)
(* any more, after stop() has returned.                                    *)
THEOREM StopTheorem == TunnelSpec => []StopIsFinal
<1>1. TunnelInit => TunnelInv
  BY DEF TunnelInit, TunnelInv, StopIsFinal, Running
<1>2. TunnelInv => StopIsFinal
  BY DEF TunnelInv
<1> QED
  BY <1>1, <1>2, TunnelInvStep, PTL DEF TunnelSpec

=============================================================================
