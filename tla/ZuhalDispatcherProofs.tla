----------------------- MODULE ZuhalDispatcherProofs -----------------------
(***************************************************************************)
(* The paid stage keeps its claims apart, loses none of them and keeps the *)
(* promise of RecordLifecycle, for any records, addresses, jobs, batch     *)
(* sizes, widths and answers, and any number of runs; it spends no more    *)
(* than a round past the ceiling, loses a credit only with a row that is   *)
(* written off, and pays once for an address.                              *)
(*                                                                         *)
(* TaskOutcome, JobMoves and SmtpMoves reduce a step to what it does to    *)
(* rows and workers; Uploading, Completing, Claiming and Passing reduce a  *)
(* step of a job to what it does with money.  ZuhalInv, the claims, comes  *)
(* first and every other invariant is inductive next to it.                *)
(***************************************************************************)
EXTENDS ZuhalDispatcher, RowsProofs, FiniteSetTheorems

ZV == "ZUHAL_VALIDATING"

LifeStates == {"ABSENT", "DISCOVERED", "VALIDATING", "NEEDS_ZUHAL", ZV,
               "VALIDATED", "VALIDATION_FAILED", "COST_SKIPPED"}

TypeInv ==
    /\ row \in [Records -> Row] /\ task \in [Records -> Task] /\ job \in [Jobs -> Job]
    /\ \A r \in Records : row[r].state \in LifeStates

TasksInv ==
    \A r \in Records : task[r].pc # "idle" => row[r].state = ZV /\ mode = "gather"

\* The rows a job may still write, those that a failed batch writes again included.
Mine(j) == IF job[j].pc \in {"cached", "upload", "poll"} THEN job[j].rows ELSE job[j].todo

JobInv(j) ==
    /\ job[j].pc # "none" => mode = "bulk"
    /\ job[j].pc \in {"none", "claim", "done"} => job[j].todo = {}
    /\ job[j].owners \subseteq job[j].rows
    /\ job[j].pc = "cached" => job[j].todo \subseteq job[j].owners
    /\ job[j].pc \in {"cached", "upload", "poll", "results"} =>
         \A r \in Held(j) : row[r].state = ZV
    /\ \A r \in Mine(j) : row[r].state \in {ZV, "VALIDATED", "VALIDATION_FAILED"}

JobsInv ==
    /\ \A j \in Jobs : JobInv(j)
    /\ \A j, k \in Jobs : j # k => Mine(j) \cap Mine(k) = {}

ZuhalInv == TypeInv /\ TasksInv /\ JobsInv

-----------------------------------------------------------------------------
(* The UPDATEs of this stage                                               *)

(* A verdict settles a row.                                                *)
LEMMA AppliedRow ==
    ASSUME NEW x \in Row, NEW r \in Records, NEW status
    PROVE  LET y == applied(x, r, status) IN
           y \in Row /\ y.state \in {"VALIDATED", "VALIDATION_FAILED"} /\ y.requeues = x.requeues
<1> DEFINE v == IF status = "accept-all" THEN "catch_all" ELSE status
           s == IF v \in {"valid", "catch_all"} THEN "VALIDATED" ELSE "VALIDATION_FAILED"
<1>1. applied(x, r, status) = update_record_dual(x, s, v, MailOf[r], 0, "none")
  BY DEF applied
<1>2. s \in States /\ s \in {"VALIDATED", "VALIDATION_FAILED"} /\ MailOf[r] \in Emails
      /\ "none" \in Reasons
  BY ZuhalAssumption DEF States, Reasons
<1> HIDE DEF s, v
<1>3. LET y == update_record_dual(x, s, v, MailOf[r], 0, "none") IN
      y \in Row /\ y.state = s /\ y.requeues = x.requeues
  BY <1>2, DualRow
<1> QED
  BY <1>1, <1>2, <1>3

(* Claims, returns and heartbeats.                                         *)
LEMMA QueueRows ==
    ASSUME NEW x \in Row
    PROVE  /\ LET y == fetch_pending_zuhal(x) IN
              y \in Row /\ y.state = ZV /\ y.requeues = x.requeues
           /\ LET y == requeue_zuhal(x) IN
              y \in Row /\ y.state = "NEEDS_ZUHAL" /\ y.requeues = x.requeues
           /\ LET y == touch_zuhal_validating(x) IN
              y \in Row /\ y.state = x.state /\ y.requeues = x.requeues
<1>1. LET y == fetch_pending_zuhal(x) IN
      y \in Row /\ y.state = ZV /\ y.requeues = x.requeues
  BY DEF fetch_pending_zuhal, Row, States, ZV
<1>2. LET y == requeue_zuhal(x) IN
      y \in Row /\ y.state = "NEEDS_ZUHAL" /\ y.requeues = x.requeues
  BY DEF requeue_zuhal, Row, States
<1>3. LET y == touch_zuhal_validating(x) IN
      y \in Row /\ y.state = x.state /\ y.requeues = x.requeues
  <2>1. LET y == [x EXCEPT !.stale = FALSE] IN
        y \in Row /\ y.state = x.state /\ y.requeues = x.requeues
    BY DEF Row
  <2> QED
    BY <2>1 DEF touch_zuhal_validating
<1> QED
  BY <1>1, <1>2, <1>3

(* What an abandoned claim becomes at the next start.                      *)
LEMMA RecoveredRow ==
    ASSUME NEW x \in Row
    PROVE  LET y == recover_stale_zuhal_validating(x) IN
           /\ y \in Row /\ y.requeues = x.requeues
           /\ IF x.state = ZV /\ x.stale THEN y.state = "NEEDS_ZUHAL" ELSE y = x
BY QueueRows DEF recover_stale_zuhal_validating, ZV

(* What a claim of a batch writes.                                         *)
LEMMA ClaimedRows ==
    ASSUME TypeInv, NEW b \in SUBSET Records, row' = claimed(b)
    PROVE  /\ row' \in [Records -> Row]
           /\ \A r \in b : row'[r].state = ZV
           /\ \A r \in Records \ b : row'[r] = row[r]
           /\ \A r \in Records : row'[r].requeues = row[r].requeues
<1>1. \A r \in Records : row[r] \in Row
  BY DEF TypeInv
<1>2. \A r \in Records : row'[r] = IF r \in b THEN fetch_pending_zuhal(row[r]) ELSE row[r]
  BY DEF claimed
<1>3. row' = [r \in Records |-> IF r \in b THEN fetch_pending_zuhal(row[r]) ELSE row[r]]
  BY DEF claimed
<1>4. \A r \in Records : /\ fetch_pending_zuhal(row[r]) \in Row
                         /\ fetch_pending_zuhal(row[r]).state = ZV
                         /\ fetch_pending_zuhal(row[r]).requeues = row[r].requeues
  BY <1>1, QueueRows
<1> QED
  BY <1>1, <1>2, <1>3, <1>4

-----------------------------------------------------------------------------
(* Tasks                                                                   *)

Ends == {"VALIDATED", "VALIDATION_FAILED", "COST_SKIPPED", "NEEDS_ZUHAL"}

\* A task goes on with its claim, drops it for a reason the loop sees, or
\* writes the row a last time.
TaskOutcome(r) ==
    /\ task[r].pc # "idle" /\ UNCHANGED <<job, loop, stop, env>>
    /\ row' \in [Records -> Row] /\ task' \in [Records -> Task]
    /\ \A q \in Records \ {r} : row'[q] = row[q] /\ task'[q] = task[q]
    /\ \/ row' = row /\ (task'[r].pc # "idle" \/ stop \/ halted')
       \/ task'[r].pc = "idle" /\ row'[r].state \in Ends /\ row'[r].requeues = row[r].requeues
    /\ halted => halted'
    /\ creditsOut' = creditsOut \/ "credits" \in Answers

(* A last write.                                                           *)
LEMMA FinishFacts ==
    ASSUME TypeInv, NEW r \in Records, NEW x \in Row, Finish(r, x)
    PROVE  /\ row' \in [Records -> Row] /\ task' \in [Records -> Task]
           /\ \A q \in Records \ {r} : row'[q] = row[q] /\ task'[q] = task[q]
           /\ row'[r] = x /\ task'[r].pc = "idle"
<1>1. Idle \in Task /\ Idle.pc = "idle"
  BY DEF Idle, Task, TaskPC
<1> QED
  BY <1>1 DEF TypeInv, Finish

(* A step on the way.                                                      *)
LEMMA GoFacts ==
    ASSUME TypeInv, NEW r \in Records, NEW pc \in TaskPC, Go(r, pc)
    PROVE  /\ row' = row /\ task' \in [Records -> Task] /\ task'[r].pc = pc
           /\ \A q \in Records \ {r} : task'[q] = task[q]
BY DEF TypeInv, Go, Task

(* Every step of a task has one of these outcomes.                         *)
LEMMA TaskStepOutcome ==
    ASSUME TypeInv, NEW r \in Records, TaskStep(r)
    PROVE  TaskOutcome(r)
<1> USE DEF TaskOutcome, TaskFrame
<1>1. row[r] \in Row /\ row \in [Records -> Row]
  BY DEF TypeInv
<1>2. ASSUME NEW s \in {"COST_SKIPPED", "VALIDATION_FAILED"}
      PROVE  LET y == update_record_status(row[r], s) IN
             y \in Row /\ y.state \in Ends /\ y.requeues = row[r].requeues
  <2>1. s \in States /\ s \in Ends
    BY DEF States, Ends
  <2> QED
    BY <1>1, <2>1, StatusRow DEF SameCounters
<1>3. ASSUME NEW v
      PROVE  LET y == applied(row[r], r, v) IN
             y \in Row /\ y.state \in Ends /\ y.requeues = row[r].requeues
  BY <1>1, AppliedRow DEF Ends
<1>4. LET y == requeue_zuhal(row[r]) IN
      y \in Row /\ y.state \in Ends /\ y.requeues = row[r].requeues
  BY <1>1, QueueRows DEF Ends
<1>5. {"idle", "lookup", "ask", "apply"} \subseteq TaskPC
  BY DEF TaskPC
<1>6. CASE Begin(r)
  <2>1. CASE stop /\ Go(r, "idle")
    BY <1>1, <1>5, <1>6, <2>1, GoFacts DEF Begin
  <2>2. CASE Finish(r, update_record_status(row[r], "COST_SKIPPED"))
    BY <1>2, <1>6, <2>2, FinishFacts DEF Begin
  <2>3. CASE Go(r, "lookup")
    BY <1>1, <1>5, <1>6, <2>3, GoFacts DEF Begin
  <2> QED
    BY <1>6, <2>1, <2>2, <2>3 DEF Begin
<1>7. CASE Lookup(r)
  <2>1. CASE Finish(r, applied(row[r], r, cache[MailOf[r]]))
    BY <1>3, <1>7, <2>1, FinishFacts DEF Lookup
  <2>2. CASE Go(r, "ask")
    BY <1>1, <1>5, <1>7, <2>2, GoFacts DEF Lookup
  <2> QED
    BY <1>7, <2>1, <2>2 DEF Lookup
<1>8. CASE Answered(r)
  <2>1. PICK v \in Answers \cap (ApiVerdict \cup {"error"}) :
          task' = [task EXCEPT ![r] =
                     [pc |-> IF v \in Cached THEN "store" ELSE "apply", verdict |-> v]]
    BY <1>8 DEF Answered
  <2> DEFINE t == [pc |-> IF v \in Cached THEN "store" ELSE "apply", verdict |-> v]
  <2>2. t \in Task /\ t.pc # "idle"
    BY DEF Task, TaskPC
  <2> HIDE DEF t
  <2>3. /\ task' \in [Records -> Task] /\ task'[r].pc # "idle"
        /\ \A q \in Records \ {r} : task'[q] = task[q]
    BY <2>1, <2>2 DEF TypeInv, t
  <2> QED
    BY <1>1, <1>8, <2>3 DEF Answered
<1>9. CASE CreditsOut(r)
  <2>1. Finish(r, requeue_zuhal(row[r])) /\ creditsOut' = TRUE
        /\ (creditsOut \/ "credits" \in Answers)
    BY <1>9 DEF CreditsOut
  <2>2. creditsOut' = creditsOut \/ "credits" \in Answers
    BY <2>1
  <2> QED
    BY <1>4, <1>9, <2>1, <2>2, FinishFacts DEF CreditsOut
<1>10. CASE requeue_or_give_up(r)
  <2>1. CASE Finish(r, update_record_status(row[r], "VALIDATION_FAILED"))
    BY <1>2, <1>10, <2>1, FinishFacts DEF requeue_or_give_up
  <2>2. CASE Finish(r, requeue_zuhal(row[r]))
    BY <1>4, <1>10, <2>2, FinishFacts DEF requeue_or_give_up
  <2> QED
    BY <1>10, <2>1, <2>2 DEF requeue_or_give_up
<1>11. CASE Halt(r)
  BY <1>1, <1>5, <1>11, GoFacts DEF Halt
<1>12. CASE Store(r)
  BY <1>1, <1>5, <1>12, GoFacts DEF Store
<1>13. CASE Apply(r)
  BY <1>3, <1>13, FinishFacts DEF Apply
<1> QED
  BY <1>6, <1>7, <1>8, <1>9, <1>10, <1>11, <1>12, <1>13 DEF TaskStep

(* A step of a task keeps the claims apart.                                *)
LEMMA TaskKeeps ==
    ASSUME ZuhalInv, NEW r \in Records, TaskStep(r)
    PROVE  ZuhalInv'
<1>1. TaskOutcome(r)
  BY TaskStepOutcome DEF ZuhalInv
<1>2. mode = "gather" /\ mode' = mode /\ UNCHANGED job /\ row[r].state = ZV
  BY <1>1 DEF ZuhalInv, TasksInv, TaskOutcome, loop
<1>3. TypeInv'
  BY <1>1, <1>2 DEF ZuhalInv, TypeInv, TaskOutcome, Ends, LifeStates
<1>4. TasksInv'
  BY <1>1, <1>2 DEF ZuhalInv, TasksInv, TaskOutcome
<1>5. \A j \in Jobs : job[j].pc = "none" /\ Mine(j) = {}
  BY <1>2 DEF ZuhalInv, JobsInv, JobInv, Mine
<1>6. \A j \in Jobs : Mine(j)' = {}
  BY <1>2, <1>5 DEF Mine
<1>7. JobsInv'
  BY <1>2, <1>5, <1>6 DEF ZuhalInv, JobsInv, JobInv
<1> QED
  BY <1>3, <1>4, <1>7 DEF ZuhalInv

-----------------------------------------------------------------------------
(* Bulk jobs                                                               *)

\* A job claims a batch.
JobClaims(j) ==
    /\ job[j].pc = "claim" /\ job'[j].pc = "cached"
    /\ job'[j].rows \subseteq Queue /\ job'[j].rows # {}
    /\ job'[j].owners \in OnePerAddress(job'[j].rows) /\ job'[j].todo \subseteq job'[j].owners
    /\ row' = claimed(job'[j].rows)
    /\ BatchSize = 1 => \E r \in Records : job'[j].rows = {r}

\* It writes the row r of its batch.
JobWritesRow(j, r) ==
    /\ r \in job[j].todo /\ job[j].pc \in {"cached", "results", "fail", "defer"}
    /\ row'[r].state \in IF job[j].pc = "defer" THEN {"NEEDS_ZUHAL"}
                          ELSE IF job[j].pc = "fail" THEN {"VALIDATION_FAILED"}
                          ELSE {"VALIDATED", "VALIDATION_FAILED"}
    /\ row'[r].requeues = row[r].requeues
    /\ \A q \in Records \ {r} : row'[q] = row[q]
    /\ job'[j].pc = job[j].pc /\ job'[j].rows = job[j].rows
    /\ job'[j].todo = job[j].todo \ {r}
    /\ job'[j].owners = IF job[j].pc = "cached" THEN job[j].owners \ {r} ELSE job[j].owners

\* It goes on to its next part.
JobPasses(j) ==
    /\ \A q \in Records : row'[q].state = row[q].state /\ row'[q].requeues = row[q].requeues
    /\ job'[j].rows = job[j].rows /\ job'[j].owners = job[j].owners
    /\ \/ /\ job'[j].pc = "done" /\ job'[j].todo = {}
          /\ \/ job[j].pc \in {"claim", "results", "fail", "defer"} /\ job[j].todo = {}
             \/ job[j].pc = "cached" /\ job[j].owners = {}
             \/ job[j].pc = "upload" /\ halted'
       \/ /\ job[j].pc = "cached" /\ job[j].owners # {} /\ job'[j].pc = "upload"
       \/ /\ job[j].pc = "upload" /\ job'[j].pc = "poll"
       \/ /\ job[j].pc = "poll" /\ job'[j].pc = "results" /\ job'[j].todo = job[j].owners
       \/ /\ job[j].pc \in {"upload", "poll"} /\ job'[j].pc \in {"fail", "defer"}
          /\ job'[j].todo = job[j].rows
          /\ job[j].pc = "upload" => creditsOut \/ Uploads \cap {"refused", "credits"} # {}
          /\ job[j].pc = "poll" => "failed" \in JobEnds

JobMoves(j) ==
    /\ row' \in [Records -> Row] /\ job' \in [Jobs -> Job]
    /\ UNCHANGED <<task, loop, stop, env>>
    /\ \A k \in Jobs \ {j} : job'[k] = job[k]
    /\ halted => halted'
    /\ creditsOut' => creditsOut \/ "credits" \in Uploads
    /\ JobClaims(j) \/ JobPasses(j) \/ \E r \in Records : JobWritesRow(j, r)

(* What a job becomes.                                                     *)
LEMMA JobUpdate ==
    ASSUME TypeInv, NEW j \in Jobs, NEW x \in Job, job' = [job EXCEPT ![j] = x]
    PROVE  job' \in [Jobs -> Job] /\ job'[j] = x /\ \A k \in Jobs \ {j} : job'[k] = job[k]
BY DEF TypeInv

(* A batch of at most one row.                                             *)
LEMMA OneRecord ==
    ASSUME BatchSize = 1, NEW b \in Batches(BatchSize)
    PROVE  \E r \in Records : b = {r}
<1>1. b \subseteq Records /\ b # {} /\ (Cardinality(b) = 1 \/ Cardinality(b) < 1)
  BY DEF Batches, Queue
<1>2. IsFiniteSet(b) /\ Cardinality(b) \in Nat
  BY <1>1, ZuhalAssumption, FS_Subset, FS_CardinalityType
<1>3. Cardinality(b) # 0
  BY <1>1, <1>2, FS_EmptySet
<1>4. PICK r : b = {r}
  BY <1>1, <1>2, <1>3, FS_Singleton
<1> QED
  BY <1>1, <1>4

(* Each step of a job is one of these.                                     *)
LEMMA JobClaimMoves ==
    ASSUME TypeInv, NEW j \in Jobs, JobClaim(j), JobInv(j)
    PROVE  JobMoves(j)
<1> USE DEF JobFrame
<1>0. job[j] \in Job /\ row \in [Records -> Row]
  BY DEF TypeInv
<1>1. CASE job' = [job EXCEPT ![j].pc = "done"] /\ UNCHANGED row
  <2> DEFINE x == [job[j] EXCEPT !.pc = "done"]
  <2>1. x \in Job /\ x.pc = "done" /\ x.rows = job[j].rows /\ x.owners = job[j].owners
        /\ x.todo = job[j].todo
    BY <1>0 DEF Job, JobPC
  <2>2. job' = [job EXCEPT ![j] = x]
    BY <1>1 DEF TypeInv
  <2> HIDE DEF x
  <2>3. job' \in [Jobs -> Job] /\ job'[j] = x /\ \A k \in Jobs \ {j} : job'[k] = job[k]
    BY <2>1, <2>2, JobUpdate
  <2>4. JobPasses(j)
    BY <1>1, <2>1, <2>3 DEF JobPasses, JobClaim, JobInv
  <2> QED
    BY <1>0, <1>1, <2>3, <2>4 DEF JobMoves, JobClaim
<1>2. ASSUME NEW b \in Batches(BatchSize), NEW owners \in OnePerAddress(b),
             row' = claimed(b),
             job' = [job EXCEPT ![j] = [NoJob EXCEPT !.pc = "cached", !.rows = b,
                                          !.owners = owners, !.todo = hits(owners)]]
      PROVE  JobMoves(j)
  <2> DEFINE x == [NoJob EXCEPT !.pc = "cached", !.rows = b,
                                !.owners = owners, !.todo = hits(owners)]
  <2>1. b \subseteq Queue /\ b # {} /\ owners \subseteq b /\ Queue \subseteq Records
    BY DEF Batches, OnePerAddress, Queue
  <2>2. hits(owners) \subseteq owners
    BY DEF hits
  <2>3. /\ x \in Job /\ x.pc = "cached" /\ x.rows = b /\ x.owners = owners
        /\ x.todo = hits(owners)
    BY <2>1, <2>2 DEF Job, JobPC, NoJob
  <2> HIDE DEF x
  <2>4. job' \in [Jobs -> Job] /\ job'[j] = x /\ \A k \in Jobs \ {j} : job'[k] = job[k]
    BY <1>2, <2>3, JobUpdate DEF x
  <2>5. row' \in [Records -> Row]
    BY <1>2, <2>1, ClaimedRows
  <2>6. BatchSize = 1 => \E r \in Records : b = {r}
    BY <2>1, OneRecord
  <2>7. job[j].pc = "claim"
    BY DEF JobClaim
  <2>8. job'[j].rows = b /\ job'[j].owners = owners /\ job'[j].todo = hits(owners)
        /\ job'[j].pc = "cached"
    BY <2>3, <2>4
  <2>9. JobClaims(j)
    BY <1>2, <2>1, <2>2, <2>6, <2>7, <2>8 DEF JobClaims
  <2> QED
    BY <2>4, <2>5, <2>9 DEF JobMoves, JobClaim
<1> QED
  BY <1>1, <1>2 DEF JobClaim

LEMMA JobCachedMoves ==
    ASSUME TypeInv, NEW j \in Jobs, JobCached(j), JobInv(j)
    PROVE  JobMoves(j)
<1> USE DEF JobFrame
<1>0. job[j] \in Job /\ row \in [Records -> Row]
  BY DEF TypeInv
<1>1. ASSUME NEW r \in job[j].todo,
             row' = [row EXCEPT ![r] = applied(row[r], r, cache[MailOf[r]])],
             job' = [job EXCEPT ![j].todo = @ \ {r}, ![j].owners = @ \ {r}, ![j].drained = TRUE]
      PROVE  JobMoves(j)
  <2> DEFINE x == [job[j] EXCEPT !.todo = @ \ {r}, !.owners = @ \ {r}, !.drained = TRUE]
             y == applied(row[r], r, cache[MailOf[r]])
  <2>1. /\ x \in Job /\ x.pc = job[j].pc /\ x.rows = job[j].rows
        /\ x.owners = job[j].owners \ {r} /\ x.todo = job[j].todo \ {r}
    BY <1>0 DEF Job
  <2>2. job' = [job EXCEPT ![j] = x]
    BY <1>1 DEF TypeInv, Job
  <2>3. r \in Records
    BY <1>0 DEF Job
  <2>4. y \in Row /\ y.state \in {"VALIDATED", "VALIDATION_FAILED"} /\ y.requeues = row[r].requeues
    BY <1>0, <2>3, AppliedRow
  <2> HIDE DEF x, y
  <2>5. job' \in [Jobs -> Job] /\ job'[j] = x /\ \A k \in Jobs \ {j} : job'[k] = job[k]
    BY <2>1, <2>2, JobUpdate
  <2>6. row' \in [Records -> Row] /\ row'[r] = y /\ \A q \in Records \ {r} : row'[q] = row[q]
    BY <1>0, <1>1, <2>3, <2>4 DEF y
  <2>7. JobWritesRow(j, r)
    BY <1>1, <2>1, <2>4, <2>5, <2>6 DEF JobWritesRow, JobCached
  <2> QED
    BY <2>3, <2>5, <2>6, <2>7 DEF JobMoves, JobCached
<1>2. CASE /\ job[j].todo = {} /\ UNCHANGED row
           /\ job' = [job EXCEPT ![j].pc = IF job[j].owners = {} THEN "done" ELSE "upload"]
  <2> DEFINE x == [job[j] EXCEPT !.pc = IF job[j].owners = {} THEN "done" ELSE "upload"]
  <2>1. /\ x \in Job /\ x.pc = (IF job[j].owners = {} THEN "done" ELSE "upload")
        /\ x.rows = job[j].rows /\ x.owners = job[j].owners /\ x.todo = job[j].todo
    BY <1>0 DEF Job, JobPC
  <2>2. job' = [job EXCEPT ![j] = x]
    BY <1>2 DEF TypeInv
  <2> HIDE DEF x
  <2>3. job' \in [Jobs -> Job] /\ job'[j] = x /\ \A k \in Jobs \ {j} : job'[k] = job[k]
    BY <2>1, <2>2, JobUpdate
  <2>4. JobPasses(j)
    BY <1>2, <2>1, <2>3 DEF JobPasses, JobCached
  <2> QED
    BY <1>0, <1>2, <2>3, <2>4 DEF JobMoves, JobCached
<1> QED
  BY <1>1, <1>2 DEF JobCached

LEMMA JobUploadMoves ==
    ASSUME TypeInv, NEW j \in Jobs, JobUpload(j), JobInv(j)
    PROVE  JobMoves(j)
<1> USE DEF JobFrame
<1>0. job[j] \in Job /\ row \in [Records -> Row]
  BY DEF TypeInv
<1> DEFINE pcOf(a) == CASE a = "ok"      -> "poll"
                        [] a = "refused" -> "fail"
                        [] a = "credits" -> "defer"
                        [] a = "halt"    -> "done"
           todoOf(a) == IF a \in {"refused", "credits"} THEN job[j].rows ELSE {}
           x(a) == [job[j] EXCEPT !.pc = pcOf(a), !.todo = todoOf(a), !.drained = FALSE]
<1>1. PICK a \in IF creditsOut THEN {"credits"} ELSE Uploads :
        /\ job' = [job EXCEPT ![j] = x(a)]
        /\ creditsOut' = (creditsOut \/ a = "credits")
        /\ halted' = (halted \/ a = "halt")
  BY DEF JobUpload
<1>2. a \in {"ok", "refused", "credits", "halt"} /\ (creditsOut \/ a \in Uploads)
  BY ZuhalAssumption
<1>3. pcOf(a) \in JobPC /\ todoOf(a) \in SUBSET Records
  BY <1>0, <1>2 DEF Job, JobPC
<1>4. /\ x(a) \in Job /\ x(a).pc = pcOf(a) /\ x(a).todo = todoOf(a)
      /\ x(a).rows = job[j].rows /\ x(a).owners = job[j].owners
  <2> HIDE DEF pcOf, todoOf
  <2> QED
    BY <1>0, <1>3 DEF Job
<1> HIDE DEF x
<1>5. job' \in [Jobs -> Job] /\ job'[j] = x(a) /\ \A k \in Jobs \ {j} : job'[k] = job[k]
  BY <1>1, <1>4, JobUpdate
<1>6. job[j].pc = "upload" /\ UNCHANGED row
  BY DEF JobUpload
<1>7. JobPasses(j)
  BY <1>1, <1>2, <1>4, <1>5, <1>6 DEF JobPasses
<1>8. (halted => halted') /\ (creditsOut' => creditsOut \/ "credits" \in Uploads)
  BY <1>1, <1>2
<1> QED
  BY <1>0, <1>5, <1>6, <1>7, <1>8 DEF JobMoves, JobUpload

LEMMA JobEndMoves ==
    ASSUME TypeInv, NEW j \in Jobs, JobEnd(j), JobInv(j)
    PROVE  JobMoves(j)
<1> USE DEF JobFrame
<1>0. job[j] \in Job /\ row \in [Records -> Row]
  BY DEF TypeInv
<1>1. /\ row' \in [Records -> Row]
      /\ \A q \in Records : row'[q].state = row[q].state /\ row'[q].requeues = row[q].requeues
  <2>1. \A q \in Records : /\ touch_zuhal_validating(row[q]) \in Row
                           /\ touch_zuhal_validating(row[q]).state = row[q].state
                           /\ touch_zuhal_validating(row[q]).requeues = row[q].requeues
    BY <1>0, QueueRows
  <2>2. row' = [q \in Records |-> IF q \in job[j].owners THEN touch_zuhal_validating(row[q])
                                                        ELSE row[q]]
    BY DEF JobEnd
  <2> QED
    BY <1>0, <2>1, <2>2
<1>2. job[j].pc = "poll"
  BY DEF JobEnd
<1>3. ASSUME NEW got \in [job[j].owners -> BulkVerdicts],
             job' = [job EXCEPT ![j].pc = "results", ![j].todo = job[j].owners,
                         ![j].got = [r \in Records |-> IF r \in job[j].owners THEN got[r] ELSE "none"]]
      PROVE  JobMoves(j)
  <2> DEFINE g == [r \in Records |-> IF r \in job[j].owners THEN got[r] ELSE "none"]
             x == [job[j] EXCEPT !.pc = "results", !.todo = job[j].owners, !.got = g]
  <2>1. g \in [Records -> ApiVerdict \cup {"none"}]
    BY ZuhalAssumption
  <2>2. job' = [job EXCEPT ![j] = x]
    BY <1>3 DEF TypeInv, Job
  <2> HIDE DEF g
  <2>3. /\ x \in Job /\ x.pc = "results" /\ x.todo = job[j].owners
        /\ x.rows = job[j].rows /\ x.owners = job[j].owners
    BY <1>0, <2>1 DEF Job, JobPC
  <2> HIDE DEF x
  <2>4. job' \in [Jobs -> Job] /\ job'[j] = x /\ \A k \in Jobs \ {j} : job'[k] = job[k]
    BY <2>2, <2>3, JobUpdate
  <2>5. JobPasses(j)
    BY <1>1, <1>2, <2>3, <2>4 DEF JobPasses
  <2> QED
    BY <1>1, <2>4, <2>5 DEF JobMoves, JobEnd
<1>4. ASSUME "failed" \in JobEnds,
             job' = [job EXCEPT ![j].pc = "fail", ![j].todo = job[j].rows, ![j].drained = FALSE]
      PROVE  JobMoves(j)
  <2> DEFINE x == [job[j] EXCEPT !.pc = "fail", !.todo = job[j].rows, !.drained = FALSE]
  <2>1. /\ x \in Job /\ x.pc = "fail" /\ x.todo = job[j].rows
        /\ x.rows = job[j].rows /\ x.owners = job[j].owners
    BY <1>0 DEF Job, JobPC
  <2>2. job' = [job EXCEPT ![j] = x]
    BY <1>4 DEF TypeInv, Job
  <2> HIDE DEF x
  <2>3. job' \in [Jobs -> Job] /\ job'[j] = x /\ \A k \in Jobs \ {j} : job'[k] = job[k]
    BY <2>1, <2>2, JobUpdate
  <2>4. JobPasses(j)
    BY <1>1, <1>2, <1>4, <2>1, <2>3 DEF JobPasses
  <2> QED
    BY <1>1, <2>3, <2>4 DEF JobMoves, JobEnd
<1> QED
  BY <1>3, <1>4 DEF JobEnd

(* The loops that write a batch.                                           *)
LEMMA JobWritesMoves ==
    ASSUME TypeInv, NEW j \in Jobs, NEW pc \in {"results", "fail", "defer"}, NEW new,
           JobWrites(j, pc, new), JobInv(j),
           \A r \in Records :
              /\ new[r] \in Row /\ new[r].requeues = row[r].requeues
              /\ new[r].state \in IF pc = "defer" THEN {"NEEDS_ZUHAL"}
                                   ELSE IF pc = "fail" THEN {"VALIDATION_FAILED"}
                                   ELSE {"VALIDATED", "VALIDATION_FAILED"}
    PROVE  JobMoves(j)
<1> USE DEF JobFrame
<1>0. job[j] \in Job /\ row \in [Records -> Row]
  BY DEF TypeInv
<1>1. ASSUME NEW r \in job[j].todo,
             row' = [row EXCEPT ![r] = new[r]], job' = [job EXCEPT ![j].todo = @ \ {r}]
      PROVE  JobMoves(j)
  <2> DEFINE x == [job[j] EXCEPT !.todo = @ \ {r}]
  <2>1. /\ x \in Job /\ x.pc = job[j].pc /\ x.rows = job[j].rows
        /\ x.owners = job[j].owners /\ x.todo = job[j].todo \ {r}
    BY <1>0 DEF Job
  <2>2. job' = [job EXCEPT ![j] = x]
    BY <1>1 DEF TypeInv
  <2>3. r \in Records
    BY <1>0 DEF Job
  <2> HIDE DEF x
  <2>4. job' \in [Jobs -> Job] /\ job'[j] = x /\ \A k \in Jobs \ {j} : job'[k] = job[k]
    BY <2>1, <2>2, JobUpdate
  <2>5. row' \in [Records -> Row] /\ row'[r] = new[r] /\ \A q \in Records \ {r} : row'[q] = row[q]
    BY <1>0, <1>1, <2>3
  <2>6. JobWritesRow(j, r)
    BY <1>1, <2>1, <2>3, <2>4, <2>5 DEF JobWritesRow, JobWrites
  <2> QED
    BY <2>3, <2>4, <2>5, <2>6 DEF JobMoves, JobWrites
<1>2. CASE /\ job[j].todo = {} /\ UNCHANGED row
           /\ job' = [job EXCEPT ![j].pc = "done", ![j].drained = (pc = "results")]
  <2> DEFINE x == [job[j] EXCEPT !.pc = "done", !.drained = (pc = "results")]
  <2>1. /\ x \in Job /\ x.pc = "done" /\ x.rows = job[j].rows /\ x.owners = job[j].owners
        /\ x.todo = job[j].todo
    BY <1>0 DEF Job, JobPC
  <2>2. job' = [job EXCEPT ![j] = x]
    BY <1>2 DEF TypeInv, Job
  <2> HIDE DEF x
  <2>3. job' \in [Jobs -> Job] /\ job'[j] = x /\ \A k \in Jobs \ {j} : job'[k] = job[k]
    BY <2>1, <2>2, JobUpdate
  <2>4. JobPasses(j)
    BY <1>2, <2>1, <2>3 DEF JobPasses, JobWrites
  <2> QED
    BY <1>0, <1>2, <2>3, <2>4 DEF JobMoves, JobWrites
<1> QED
  BY <1>1, <1>2 DEF JobWrites

LEMMA JobStepMoves ==
    ASSUME TypeInv, NEW j \in Jobs, JobStep(j), JobInv(j)
    PROVE  JobMoves(j)
<1>0. \A r \in Records : row[r] \in Row
  BY DEF TypeInv
<1>1. CASE JobResults(j)
  <2> DEFINE new == [r \in Records |-> applied(row[r], r, job[j].got[r])]
  <2>1. \A r \in Records : /\ new[r] \in Row /\ new[r].requeues = row[r].requeues
                           /\ new[r].state \in {"VALIDATED", "VALIDATION_FAILED"}
    BY <1>0, AppliedRow
  <2>2. JobWrites(j, "results", new)
    BY <1>1 DEF JobResults
  <2> HIDE DEF new
  <2> QED
    BY <2>1, <2>2, JobWritesMoves
<1>2. CASE fail_batch(j)
  <2> DEFINE new == [r \in Records |-> update_record_status(row[r], "VALIDATION_FAILED")]
  <2>1. \A r \in Records : /\ new[r] \in Row /\ new[r].requeues = row[r].requeues
                           /\ new[r].state = "VALIDATION_FAILED"
    BY <1>0, StatusRow DEF States, SameCounters
  <2>2. JobWrites(j, "fail", new)
    BY <1>2 DEF fail_batch
  <2> HIDE DEF new
  <2> QED
    BY <2>1, <2>2, JobWritesMoves
<1>3. CASE JobDefer(j)
  <2> DEFINE new == [r \in Records |-> requeue_zuhal(row[r])]
  <2>1. \A r \in Records : /\ new[r] \in Row /\ new[r].requeues = row[r].requeues
                           /\ new[r].state \in {"NEEDS_ZUHAL"}
    BY <1>0, QueueRows
  <2>2. JobWrites(j, "defer", new)
    BY <1>3 DEF JobDefer
  <2> HIDE DEF new
  <2> QED
    BY <2>1, <2>2, JobWritesMoves
<1> QED
  BY <1>1, <1>2, <1>3, JobClaimMoves, JobCachedMoves, JobUploadMoves, JobEndMoves DEF JobStep

(* What a job that moves leaves alone, and what it has then.               *)
LEMMA JobKeepsOwn ==
    ASSUME ZuhalInv, NEW j \in Jobs, JobMoves(j)
    PROVE  /\ mode = "bulk" /\ JobInv(j)' /\ Mine(j)' \subseteq Mine(j) \cup Queue
           /\ \A q \in Records : row'[q].state \in LifeStates
           /\ \A q \in Records \ (Mine(j) \cup Queue) : row'[q].state = row[q].state
           /\ \A q \in Records : row'[q].requeues = row[q].requeues
<1>0. JobInv(j) /\ UNCHANGED mode /\ job[j] \in Job
  BY DEF ZuhalInv, JobsInv, JobMoves, loop, TypeInv
<1>1. \A q \in Records : row[q].state \in LifeStates
  BY DEF ZuhalInv, TypeInv
<1>2. Queue \subseteq Records
  BY DEF Queue
<1>3. CASE JobClaims(j)
  <2> DEFINE b == job'[j].rows
  <2>1. b \in SUBSET Records /\ row' = claimed(b) /\ b \subseteq Queue
    BY <1>2, <1>3 DEF JobClaims
  <2>2. /\ \A r \in b : row'[r].state = ZV
        /\ \A r \in Records \ b : row'[r] = row[r]
        /\ \A r \in Records : row'[r].requeues = row[r].requeues
    <3> HIDE DEF b
    <3> QED
      BY <2>1, ClaimedRows DEF ZuhalInv
  <2>3. job'[j].owners \subseteq b /\ job'[j].todo \subseteq job'[j].owners /\ job'[j].pc = "cached"
    BY <1>3 DEF JobClaims, OnePerAddress
  <2>4. mode = "bulk" /\ mode' = "bulk"
    BY <1>0, <1>3 DEF JobInv, JobClaims
  <2> QED
    BY <1>1, <2>1, <2>2, <2>3, <2>4 DEF JobInv, Mine, Held, LifeStates
<1>4. ASSUME NEW r \in Records, JobWritesRow(j, r)
      PROVE  /\ mode = "bulk" /\ JobInv(j)' /\ Mine(j)' \subseteq Mine(j)
             /\ r \in Mine(j) /\ row'[r].state \in LifeStates
  <2>1. mode = "bulk" /\ r \in Mine(j)
    BY <1>0, <1>4 DEF JobInv, JobWritesRow, Mine
  <2>2. Mine(j) \subseteq Records /\ Held(j) \subseteq Records
    BY <1>0 DEF Mine, Held, Job
  <2>3. CASE job[j].pc = "cached"
    BY <1>0, <1>4, <2>1, <2>2, <2>3 DEF JobInv, JobWritesRow, Mine, Held, LifeStates
  <2>4. CASE job[j].pc = "results"
    BY <1>0, <1>4, <2>1, <2>2, <2>4 DEF JobInv, JobWritesRow, Mine, Held, LifeStates
  <2>5. CASE job[j].pc \in {"fail", "defer"}
    BY <1>0, <1>4, <2>1, <2>2, <2>5 DEF JobInv, JobWritesRow, Mine, Held, LifeStates
  <2> QED
    BY <1>4, <2>1, <2>3, <2>4, <2>5 DEF JobWritesRow
<1>5. CASE JobPasses(j)
  <2>1. mode = "bulk"
    BY <1>0, <1>5 DEF JobInv, JobPasses
  <2>2. job[j].rows \subseteq Records /\ job[j].owners \subseteq Records /\ job[j].todo \subseteq Records
    BY <1>0 DEF Job
  <2>3. JobInv(j)' /\ Mine(j)' \subseteq Mine(j)
    BY <1>0, <1>5, <2>1, <2>2 DEF JobInv, JobPasses, Mine, Held
  <2> QED
    BY <1>1, <1>5, <2>1, <2>3 DEF JobPasses
<1>6. CASE \E r \in Records : JobWritesRow(j, r)
  BY <1>1, <1>4, <1>6 DEF JobWritesRow
<1> QED
  BY <1>3, <1>5, <1>6 DEF JobMoves

(* A step of a job keeps the claims apart.                                 *)
LEMMA JobKeeps ==
    ASSUME ZuhalInv, NEW j \in Jobs, JobStep(j)
    PROVE  ZuhalInv'
<1>1. JobMoves(j)
  BY JobStepMoves DEF ZuhalInv, JobsInv
<1>2. /\ mode = "bulk" /\ JobInv(j)' /\ Mine(j)' \subseteq Mine(j) \cup Queue
      /\ \A q \in Records : row'[q].state \in LifeStates
      /\ \A q \in Records \ (Mine(j) \cup Queue) : row'[q].state = row[q].state
  BY <1>1, JobKeepsOwn
<1>3. UNCHANGED <<task, mode>> /\ \A k \in Jobs \ {j} : job'[k] = job[k]
  BY <1>1 DEF JobMoves, loop
<1>4. TypeInv'
  BY <1>1, <1>2, <1>3 DEF ZuhalInv, TypeInv, JobMoves
<1>5. TasksInv'
  BY <1>2, <1>3 DEF ZuhalInv, TasksInv
<1>6. ASSUME NEW k \in Jobs, k # j
      PROVE  JobInv(k)' /\ Mine(k)' \cap Mine(j)' = {}
  <2>1. JobInv(k) /\ Mine(k) \cap Mine(j) = {} /\ job'[k] = job[k] /\ job[k] \in Job
    BY <1>3, <1>6 DEF ZuhalInv, JobsInv, TypeInv
  <2>2. Mine(k)' = Mine(k) /\ Held(k)' = Held(k)
    BY <2>1 DEF Mine, Held
  <2>3. Mine(k) \cap Queue = {}
    BY <2>1 DEF JobInv, Queue, ZV
  <2>4. Mine(k) \subseteq Records
    BY <2>1 DEF Mine, Job
  <2>5. \A q \in Mine(k) : row'[q].state = row[q].state
    BY <1>2, <2>1, <2>3, <2>4
  <2>6. job[k].pc \in {"cached", "upload", "poll", "results"} => Held(k) \subseteq Mine(k)
    BY <2>1 DEF Held, Mine, JobInv
  <2>7. JobInv(k)'
    BY <1>3, <2>1, <2>2, <2>5, <2>6 DEF JobInv
  <2> QED
    BY <1>2, <2>1, <2>2, <2>3, <2>7
<1>7. JobsInv'
  <2>1. \A k \in Jobs : JobInv(k)'
    BY <1>2, <1>6
  <2>2. ASSUME NEW k \in Jobs, NEW l \in Jobs, k # l PROVE Mine(k)' \cap Mine(l)' = {}
    <3>1. CASE k = j \/ l = j
      BY <1>6, <2>2, <3>1
    <3>2. CASE k # j /\ l # j
      <4>1. Mine(k)' = Mine(k) /\ Mine(l)' = Mine(l)
        BY <1>3, <3>2 DEF Mine
      <4> QED
        BY <2>2, <4>1 DEF ZuhalInv, JobsInv
    <3> QED
      BY <3>1, <3>2
  <2> QED
    BY <2>1, <2>2 DEF JobsInv
<1> QED
  BY <1>4, <1>5, <1>7 DEF ZuhalInv

-----------------------------------------------------------------------------
(* The loop and its surroundings                                           *)

(* Where nobody works.                                                     *)
LEMMA QuietModes ==
    ASSUME ZuhalInv
    PROVE  /\ mode # "gather" => \A r \in Records : task[r].pc = "idle"
           /\ mode # "bulk" => \A j \in Jobs : job[j].pc = "none" /\ Mine(j) = {}
BY DEF ZuhalInv, TasksInv, JobsInv, JobInv, Mine

(* Where the loop goes on without claiming.                                *)
LEMMA LoopOnlyKeeps ==
    ASSUME ZuhalInv, UNCHANGED <<row, task, job>>,
           mode \in {"top", "claim", "checkPending", "gather"}, mode' # "bulk",
           \A r \in Records : task[r].pc = "idle"
    PROVE  ZuhalInv'
<1>1. \A j \in Jobs : job[j].pc = "none" /\ JobInv(j)
  BY QuietModes DEF ZuhalInv, JobsInv
<1>2. JobsInv'
  BY <1>1 DEF ZuhalInv, JobsInv, JobInv, Mine, Held
<1> QED
  BY <1>2 DEF ZuhalInv, TypeInv, TasksInv

LEMMA LoopKeeps ==
    ASSUME ZuhalInv, LoopStep
    PROVE  ZuhalInv'
<1> USE DEF LoopOnly
<1>1. CASE StopSeen \/ NothingToClaim \/ CheckPending
  <2>1. /\ UNCHANGED <<row, task, job>> /\ mode \in {"top", "claim", "checkPending"}
        /\ mode' \in {"exited", "checkPending", "top"}
    BY <1>1 DEF StopSeen, NothingToClaim, CheckPending
  <2> QED
    BY <2>1, QuietModes, LoopOnlyKeeps
<1>2. CASE Gathered
  <2>1. /\ UNCHANGED <<row, task, job>> /\ mode = "gather" /\ mode' \in {"exited", "top"}
        /\ \A r \in Records : task[r].pc = "idle"
    BY <1>2 DEF Gathered
  <2> QED
    BY <2>1, LoopOnlyKeeps
<1>3. CASE ChooseMode
  <2>1. CASE mode' = "claim" /\ UNCHANGED job
    <3>1. UNCHANGED <<row, task>> /\ mode = "top"
      BY <1>3 DEF ChooseMode
    <3> QED
      BY <2>1, <3>1, QuietModes, LoopOnlyKeeps
  <2>2. CASE mode' = "bulk" /\ job' = [j \in Jobs |-> [NoJob EXCEPT !.pc = "claim"]]
    <3> DEFINE x == [NoJob EXCEPT !.pc = "claim"]
    <3>1. x \in Job /\ x.pc = "claim" /\ x.todo = {} /\ x.owners = {} /\ x.rows = {}
      BY DEF NoJob, Job, JobPC
    <3> HIDE DEF x
    <3>2. job' \in [Jobs -> Job] /\ \A j \in Jobs : job'[j] = x
      BY <2>2, <3>1 DEF x
    <3>3. UNCHANGED <<row, task>> /\ \A r \in Records : task[r].pc = "idle"
      BY <1>3, QuietModes DEF ChooseMode
    <3>4. JobsInv'
      BY <2>2, <3>1, <3>2 DEF JobsInv, JobInv, Mine, Held
    <3> QED
      BY <3>2, <3>3, <3>4 DEF ZuhalInv, TypeInv, TasksInv
  <2> QED
    BY <1>3, <2>1, <2>2 DEF ChooseMode
<1>4. CASE BulkGathered
  <2>1. /\ UNCHANGED <<row, task>> /\ mode = "bulk" /\ job' = [j \in Jobs |-> NoJob]
        /\ mode' \in {"exited", "top", "claim"}
    BY <1>4 DEF BulkGathered
  <2>2. NoJob \in Job /\ NoJob.pc = "none" /\ NoJob.todo = {} /\ NoJob.owners = {} /\ NoJob.rows = {}
    BY DEF NoJob, Job, JobPC
  <2>3. job' \in [Jobs -> Job] /\ \A j \in Jobs : job'[j] = NoJob
    BY <2>1, <2>2
  <2>4. \A r \in Records : task[r].pc = "idle"
    BY <2>1, QuietModes
  <2>5. JobsInv'
    BY <2>2, <2>3 DEF JobsInv, JobInv, Mine, Held
  <2> QED
    BY <2>1, <2>3, <2>4, <2>5 DEF ZuhalInv, TypeInv, TasksInv
<1>5. ASSUME NEW b \in SUBSET Records, Claim(b) PROVE ZuhalInv'
  <2>1. /\ mode = "claim" /\ mode' = "gather" /\ row' = claimed(b) /\ UNCHANGED job
        /\ task' = [r \in Records |-> IF r \in b THEN [Idle EXCEPT !.pc = "queued"] ELSE task[r]]
    BY <1>5 DEF Claim
  <2>2. /\ row' \in [Records -> Row] /\ \A r \in b : row'[r].state = ZV
        /\ \A r \in Records \ b : row'[r] = row[r]
    BY <2>1, ClaimedRows DEF ZuhalInv
  <2>3. [Idle EXCEPT !.pc = "queued"] \in Task
    BY DEF Idle, Task, TaskPC
  <2>4. task' \in [Records -> Task] /\ \A r \in Records \ b : task'[r] = task[r]
    BY <2>1, <2>3 DEF ZuhalInv, TypeInv
  <2>5. \A r \in Records : task[r].pc = "idle"
    BY <2>1, QuietModes
  <2>6. \A j \in Jobs : job[j].pc = "none" /\ Mine(j) = {} /\ JobInv(j)
    BY <2>1, QuietModes DEF ZuhalInv, JobsInv
  <2>7. JobsInv'
    BY <2>1, <2>6 DEF ZuhalInv, JobsInv, JobInv, Mine, Held
  <2>8. TypeInv'
    BY <2>1, <2>2, <2>4 DEF ZuhalInv, TypeInv, LifeStates
  <2>9. TasksInv'
    BY <2>1, <2>2, <2>4, <2>5 DEF TasksInv
  <2> QED
    BY <2>7, <2>8, <2>9 DEF ZuhalInv
<1> QED
  BY <1>1, <1>2, <1>3, <1>4, <1>5 DEF LoopStep


(* So does what happens around the loop.                                   *)
LEMMA StartRows ==
    ASSUME TypeInv, Start
    PROVE  /\ row' \in [Records -> Row]
           /\ \A r \in Records :
                 /\ row'[r].requeues = row[r].requeues
                 /\ IF row[r].state = ZV /\ row[r].stale
                    THEN row'[r].state = "NEEDS_ZUHAL" ELSE row'[r] = row[r]
<1>1. row' = [r \in Records |-> recover_stale_zuhal_validating(row[r])]
  BY DEF Start
<1>2. ASSUME NEW r \in Records
      PROVE  LET y == recover_stale_zuhal_validating(row[r]) IN
             /\ y \in Row /\ y.requeues = row[r].requeues
             /\ IF row[r].state = ZV /\ row[r].stale THEN y.state = "NEEDS_ZUHAL" ELSE y = row[r]
  <2>1. row[r] \in Row
    BY DEF TypeInv
  <2> QED
    BY <2>1, RecoveredRow
<1> QED
  BY <1>1, <1>2

\* The SMTP stage moves one row, which no worker of this stage has.
SmtpMoves(r) ==
    /\ row' \in [Records -> Row]
    /\ \A q \in Records \ {r} : row'[q] = row[q]
    /\ row'[r].requeues = IF row[r].state = "ABSENT" THEN 0 ELSE row[r].requeues
    /\ \/ row[r].state = "ABSENT" /\ row'[r].state = "DISCOVERED"
       \/ row[r].state = "DISCOVERED" /\ row'[r].state = "VALIDATING"
       \/ row[r].state = "VALIDATING" /\ row'[r].state = "NEEDS_ZUHAL"
    /\ UNCHANGED <<task, job, loop, flags>>

LEMMA SmtpStageMoves ==
    ASSUME TypeInv, NEW r \in Records, SmtpStage(r)
    PROVE  SmtpMoves(r)
<1>0. UNCHANGED <<task, job, loop, flags>>
  BY DEF SmtpStage, EnvFrame
<1>1. row[r] \in Row /\ row \in [Records -> Row] /\ MailOf[r] \in Emails
  BY ZuhalAssumption DEF TypeInv
<1>2. CASE row[r].state = "ABSENT" /\ row' = [row EXCEPT ![r] = FreshRow("DISCOVERED")]
  <2>1. FreshRow("DISCOVERED") \in Row
    BY FreshRowType DEF States
  <2>2. FreshRow("DISCOVERED").state = "DISCOVERED" /\ FreshRow("DISCOVERED").requeues = 0
    BY DEF FreshRow
  <2> QED
    BY <1>0, <1>1, <1>2, <2>1, <2>2 DEF SmtpMoves
<1>3. CASE row[r].state = "DISCOVERED" /\ row' = [row EXCEPT ![r] = fetch_pending_validation(@)]
  <2>1. LET y == fetch_pending_validation(row[r]) IN
        y \in Row /\ y.state = "VALIDATING" /\ y.requeues = row[r].requeues
    BY <1>1, ClaimRow DEF SameCounters
  <2>2. /\ row' \in [Records -> Row] /\ row'[r] = fetch_pending_validation(row[r])
        /\ \A q \in Records \ {r} : row'[q] = row[q]
    BY <1>1, <1>3, <2>1
  <2>3. row[r].state = "DISCOVERED" /\ row'[r].state = "VALIDATING" /\ row'[r].requeues = row[r].requeues
    BY <1>3, <2>1, <2>2
  <2> QED
    BY <1>0, <2>2, <2>3 DEF SmtpMoves
<1>4. CASE row[r].state = "VALIDATING" /\ row' = [row EXCEPT ![r] = handoff_to_zuhal(@, MailOf[r])]
  <2>1. LET y == handoff_to_zuhal(row[r], MailOf[r]) IN
        y \in Row /\ y.state = "NEEDS_ZUHAL" /\ y.requeues = row[r].requeues
    BY <1>1, HandoffRow DEF SameCounters
  <2>2. /\ row' \in [Records -> Row] /\ row'[r] = handoff_to_zuhal(row[r], MailOf[r])
        /\ \A q \in Records \ {r} : row'[q] = row[q]
    BY <1>1, <1>4, <2>1
  <2>3. row[r].state = "VALIDATING" /\ row'[r].state = "NEEDS_ZUHAL" /\ row'[r].requeues = row[r].requeues
    BY <1>4, <2>1, <2>2
  <2> QED
    BY <1>0, <2>2, <2>3 DEF SmtpMoves
<1> QED
  BY <1>2, <1>3, <1>4 DEF SmtpStage

(* A step that leaves the workers alone and every row they have.           *)
LEMMA RowsMove ==
    ASSUME ZuhalInv, row' \in [Records -> Row], UNCHANGED <<task, job, mode>>,
           \A r \in Records : \/ row'[r].state = row[r].state
                             \/ row[r].state \in {"ABSENT", "DISCOVERED", "VALIDATING"},
           \A r \in Records : row'[r].state \in LifeStates
    PROVE  ZuhalInv'
<1>1. TypeInv' /\ TasksInv'
  BY DEF ZuhalInv, TypeInv, TasksInv, ZV
<1>2. ASSUME NEW j \in Jobs PROVE JobInv(j)' /\ Mine(j)' = Mine(j)
  <2>1. JobInv(j) /\ job[j] \in Job
    BY DEF ZuhalInv, JobsInv, TypeInv
  <2>2. Mine(j)' = Mine(j) /\ Held(j)' = Held(j)
    BY DEF Mine, Held
  <2>3. Mine(j) \subseteq Records /\ Held(j) \subseteq Records
    BY <2>1 DEF Mine, Held, Job
  <2>4. \A r \in Mine(j) : row'[r].state \in {ZV, "VALIDATED", "VALIDATION_FAILED"}
    BY <2>1, <2>3 DEF JobInv, ZV
  <2>5. job[j].pc \in {"cached", "upload", "poll", "results"} =>
          \A r \in Held(j) : row'[r].state = ZV
    BY <2>1, <2>3 DEF JobInv, ZV
  <2> QED
    BY <2>1, <2>2, <2>4, <2>5 DEF JobInv
<1>3. JobsInv'
  BY <1>2 DEF ZuhalInv, JobsInv
<1> QED
  BY <1>1, <1>3 DEF ZuhalInv

(* A claim that grows old stays a claim.                                   *)
LEMMA StaleRows ==
    ASSUME TypeInv, NEW r \in Records, GrowsStale(r)
    PROVE  /\ row' \in [Records -> Row] /\ UNCHANGED <<task, job, loop, flags>>
           /\ \A q \in Records : row'[q].state = row[q].state /\ row'[q].requeues = row[q].requeues
<1>1. row[r] \in Row /\ row \in [Records -> Row]
  BY DEF TypeInv
<1>2. [row[r] EXCEPT !.stale = TRUE] \in Row
  BY <1>1 DEF Row
<1> QED
  BY <1>1, <1>2 DEF GrowsStale, EnvFrame, Row

LEMMA EnvironmentKeeps ==
    ASSUME ZuhalInv, Environment
    PROVE  ZuhalInv'
<1>1. CASE Start
  <2>1. ~running /\ mode' = "top" /\ UNCHANGED <<task, job>>
    BY <1>1 DEF Start
  <2>2. \A r \in Records : task[r].pc = "idle"
    BY <2>1, QuietModes DEF running
  <2>3. \A j \in Jobs : job[j].pc = "none" /\ Mine(j) = {} /\ JobInv(j)
    BY <2>1, QuietModes DEF running, ZuhalInv, JobsInv
  <2>4. \A j \in Jobs : Mine(j)' = {}
    BY <2>1, <2>3 DEF Mine
  <2>5. JobsInv'
    BY <2>1, <2>3, <2>4 DEF JobsInv, JobInv
  <2>6. TypeInv'
    BY <1>1, <2>1, StartRows DEF ZuhalInv, TypeInv, LifeStates
  <2> QED
    BY <2>1, <2>2, <2>5, <2>6 DEF ZuhalInv, TasksInv
<1>2. CASE SmtpEnds \/ Stop
  <2>1. UNCHANGED <<row, task, job, mode>>
    BY <1>2 DEF SmtpEnds, Stop, EnvFrame, loop
  <2> QED
    BY <2>1, RowsMove DEF ZuhalInv, TypeInv
<1>3. CASE Crash
  <2>1. /\ row' = row /\ task' = [r \in Records |-> Idle] /\ job' = [j \in Jobs |-> NoJob]
    BY <1>3 DEF Crash
  <2>2. Idle \in Task /\ Idle.pc = "idle"
    BY DEF Idle, Task, TaskPC
  <2>3. NoJob \in Job /\ NoJob.pc = "none" /\ NoJob.todo = {} /\ NoJob.owners = {} /\ NoJob.rows = {}
    BY DEF NoJob, Job, JobPC
  <2>4. /\ task' \in [Records -> Task] /\ \A r \in Records : task'[r] = Idle
        /\ job' \in [Jobs -> Job] /\ \A j \in Jobs : job'[j] = NoJob
    BY <2>1, <2>2, <2>3
  <2>5. JobsInv'
    BY <2>3, <2>4 DEF JobsInv, JobInv, Mine, Held
  <2> QED
    BY <2>1, <2>2, <2>4, <2>5 DEF ZuhalInv, TypeInv, TasksInv
<1>4. ASSUME NEW r \in Records, SmtpStage(r) PROVE ZuhalInv'
  <2>1. SmtpMoves(r)
    BY <1>4, SmtpStageMoves DEF ZuhalInv
  <2>2. \A q \in Records : row[q].state \in LifeStates
    BY DEF ZuhalInv, TypeInv
  <2> QED
    BY <2>1, <2>2, RowsMove DEF SmtpMoves, LifeStates, loop
<1>5. ASSUME NEW r \in Records, GrowsStale(r) PROVE ZuhalInv'
  <2>1. \A q \in Records : row[q].state \in LifeStates
    BY DEF ZuhalInv, TypeInv
  <2>2. /\ row' \in [Records -> Row] /\ UNCHANGED <<task, job, loop, flags>>
        /\ \A q \in Records : row'[q].state = row[q].state
    BY <1>5, StaleRows DEF ZuhalInv
  <2> QED
    BY <2>1, <2>2, RowsMove DEF loop
<1> QED
  BY <1>1, <1>2, <1>3, <1>4, <1>5 DEF Environment

(* The invariant is inductive.                                             *)
LEMMA Inductive ==
    ASSUME ZuhalInv, [Next]_vars
    PROVE  ZuhalInv'
<1>1. CASE UNCHANGED vars
  <2>1. UNCHANGED <<row, task, job, mode>>
    BY <1>1 DEF vars, loop
  <2> QED
    BY <2>1, RowsMove DEF ZuhalInv, TypeInv
<1> QED
  BY <1>1, TaskKeeps, JobKeeps, LoopKeeps, EnvironmentKeeps DEF Next

LEMMA Initially ==
    ASSUME Init
    PROVE  ZuhalInv
<1>1. FreshRow("ABSENT") \in Row /\ FreshRow("ABSENT").state = "ABSENT"
  BY FreshRowType DEF States, FreshRow
<1>2. Idle \in Task /\ Idle.pc = "idle"
  BY DEF Idle, Task, TaskPC
<1>3. NoJob \in Job /\ NoJob.pc = "none" /\ NoJob.todo = {} /\ NoJob.owners = {} /\ NoJob.rows = {}
  BY DEF NoJob, Job, JobPC
<1>4. JobsInv
  BY <1>3 DEF Init, JobsInv, JobInv, Mine, Held
<1> QED
  BY <1>1, <1>2, <1>3, <1>4 DEF Init, ZuhalInv, TypeInv, TasksInv, LifeStates

LEMMA InvariantHolds == Spec => []ZuhalInv
BY Initially, Inductive, PTL DEF Spec

(* A row stays claimed as long as a coroutine works for it, and only one   *)
(* does, whatever the jobs, tasks, crashes and runs (the claims of         *)
(* db/zuhal_queue.py:55-71 against the writes of _drain_bulk).             *)
THEOREM ClaimsTheorem == Spec => []WorkersOwnClaims
<1>1. ZuhalInv => WorkersOwnClaims
  <2> SUFFICES ASSUME ZuhalInv PROVE WorkersOwnClaims
    OBVIOUS
  <2>1. \A j \in Jobs : Held(j) \subseteq Mine(j)
    BY DEF ZuhalInv, JobsInv, JobInv, Held, Mine
  <2>2. \A j, k \in Jobs : j # k => Held(j) \cap Held(k) = {}
    BY <2>1 DEF ZuhalInv, JobsInv
  <2> QED
    BY <2>2 DEF ZuhalInv, TasksInv, JobsInv, JobInv, WorkersOwnClaims, ZV
<1> QED
  BY <1>1, InvariantHolds, PTL

-----------------------------------------------------------------------------
(* The paid stage keeps RecordLifecycle                                    *)

\* No upload is refused, no job fails and no credits run out.
NoFailures == /\ Uploads \cap {"refused", "credits"} = {}
              /\ "credits" \notin Answers /\ "failed" \notin JobEnds

\* A batch of one row, uploaded unless the cache has settled it.
AtMostOne(j) ==
    \E r \in Records :
       job[j].rows = {r} /\ (job[j].owners = {r} \/ (job[j].owners = {} /\ job[j].pc = "cached"))

\* A batch that is written as failed or put back holds claimed rows only: there
\* is none, or it has one row, which the cache has not settled.
SingleJob(j) ==
    /\ job[j].pc \in {"fail", "defer"} => \A r \in job[j].todo : row[r].state = ZV
    /\ IF NoFailures
       THEN job[j].pc \notin {"fail", "defer"}
       ELSE job[j].pc \in {"cached", "upload", "poll"} => AtMostOne(j)

SingleInv ==
    /\ NoFailures => ~creditsOut
    /\ \A j \in Jobs : SingleJob(j)
    /\ \A r \in Records : row[r].requeues = 0

(* Where jobs stand still or begin.                                        *)
LEMMA SingleKept ==
    ASSUME ZuhalInv, SingleInv, NoFailures => ~creditsOut',
           \A j \in Jobs : \/ job'[j].pc \in {"none", "claim"}
                          \/ /\ job'[j] = job[j]
                             /\ \A r \in Mine(j) : row'[r].state = row[r].state,
           \A r \in Records : row'[r].requeues = 0
    PROVE  SingleInv'
<1>1. ASSUME NEW j \in Jobs PROVE SingleJob(j)'
  <2>1. CASE job'[j].pc \in {"none", "claim"}
    BY <2>1 DEF SingleJob, NoFailures
  <2>2. CASE job'[j] = job[j] /\ \A r \in Mine(j) : row'[r].state = row[r].state
    <3>1. SingleJob(j)
      BY DEF SingleInv
    <3>2. job[j].pc \in {"fail", "defer"} => Mine(j) = job[j].todo
      BY DEF Mine
    <3>3. job[j].pc \in {"fail", "defer"} => \A r \in job'[j].todo : row'[r].state = ZV
      BY <2>2, <3>1, <3>2 DEF SingleJob
    <3> QED
      BY <2>2, <3>1, <3>3 DEF SingleJob, AtMostOne, NoFailures
  <2> QED
    BY <2>1, <2>2
<1> QED
  BY <1>1 DEF SingleInv, NoFailures

(* A job that fails had its rows to itself.                                *)
LEMMA JobStaysSingle ==
    ASSUME ZuhalInv, SingleInv, NEW j \in Jobs, JobMoves(j), BatchSize = 1 \/ NoFailures
    PROVE  SingleJob(j)'
<1>0. JobInv(j) /\ SingleJob(j) /\ job[j] \in Job
  BY DEF ZuhalInv, TypeInv, JobsInv, SingleInv
<1>1. CASE JobClaims(j)
  <2>1. ASSUME ~NoFailures
        PROVE  \E r \in Records : job'[j].rows = {r} /\ job'[j].owners = {r}
    <3>1. PICK r \in Records : job'[j].rows = {r}
      BY <1>1, <2>1 DEF JobClaims
    <3>2. job'[j].owners \subseteq {r} /\ \E q \in job'[j].owners : MailOf[q] = MailOf[r]
      BY <1>1, <3>1 DEF JobClaims, OnePerAddress
    <3> QED
      BY <3>1, <3>2
  <2> QED
    BY <1>1, <2>1 DEF SingleJob, AtMostOne, JobClaims, NoFailures
<1>2. CASE JobPasses(j)
  <2>1. NoFailures => job'[j].pc \notin {"fail", "defer"}
    BY <1>0, <1>2 DEF JobPasses, SingleJob, SingleInv, NoFailures
  <2>2. ASSUME ~NoFailures, job'[j].pc \in {"cached", "upload", "poll"}
        PROVE  AtMostOne(j)'
    BY <1>0, <1>2, <2>2 DEF JobPasses, SingleJob, AtMostOne
  <2>3. ASSUME job'[j].pc \in {"fail", "defer"}
        PROVE  \A r \in job'[j].todo : row'[r].state = ZV
    <3>1. job[j].pc \in {"upload", "poll"} /\ job'[j].todo = job[j].rows
      BY <1>2, <2>3 DEF JobPasses
    <3>2. ~NoFailures
      BY <2>1, <2>3
    <3>3. job[j].owners = job[j].rows
      BY <1>0, <3>1, <3>2 DEF SingleJob, AtMostOne
    <3>4. \A q \in job[j].rows : row[q].state = ZV /\ q \in Records
      BY <1>0, <3>1, <3>3 DEF JobInv, Held, Job
    <3> QED
      BY <1>2, <3>1, <3>4 DEF JobPasses
  <2> QED
    BY <2>1, <2>2, <2>3 DEF SingleJob, NoFailures
<1>3. ASSUME NEW r \in Records, JobWritesRow(j, r) PROVE SingleJob(j)'
  <2>1. ASSUME job'[j].pc \in {"fail", "defer"}, NEW q \in job'[j].todo
        PROVE  row'[q].state = ZV
    <3>1. q \in job[j].todo /\ q # r /\ job[j].pc \in {"fail", "defer"}
      BY <1>3, <2>1 DEF JobWritesRow
    <3>2. q \in Records
      BY <1>0, <3>1 DEF Job
    <3> QED
      BY <1>0, <1>3, <3>1, <3>2 DEF JobWritesRow, SingleJob
  <2>2. ASSUME ~NoFailures, job'[j].pc \in {"cached", "upload", "poll"}
        PROVE  AtMostOne(j)'
    BY <1>0, <1>3, <2>2 DEF JobWritesRow, SingleJob, AtMostOne
  <2>3. NoFailures => job'[j].pc \notin {"fail", "defer"}
    BY <1>0, <1>3 DEF JobWritesRow, SingleJob
  <2> QED
    BY <2>1, <2>2, <2>3 DEF SingleJob, NoFailures
<1> QED
  BY <1>1, <1>2, <1>3 DEF JobMoves

(* The phases of the states of this stage.                                 *)
LEMMA Phases ==
    /\ PhaseOf("ABSENT") = "absent" /\ PhaseOf("DISCOVERED") = "waiting"
    /\ PhaseOf("VALIDATING") = "claimed" /\ PhaseOf("NEEDS_ZUHAL") = "paid"
    /\ PhaseOf(ZV) = "paidClaimed" /\ PhaseOf("VALIDATED") = "accepted"
    /\ PhaseOf("VALIDATION_FAILED") = "failed" /\ PhaseOf("COST_SKIPPED") = "skipped"
BY DEF PhaseOf, ZV

Moved == [Lifecycle!Next]_(Lifecycle!lifeVars)

(* Rows that go from one phase to another while the rest stays.            *)
LEMMA MoveStep ==
    ASSUME NEW S \in SUBSET Records, NEW from, NEW to,
           \A r \in S : PhaseOf(row[r].state) \in from /\ PhaseOf(row'[r].state) = to,
           \A r \in Records \ S : row'[r].state = row[r].state,
           \A r \in Records : row'[r].requeues = row[r].requeues
    PROVE  Lifecycle!Move(S, from, to)
BY DEF Lifecycle!Move

(* Rows that stay where they are.                                          *)
LEMMA NoMove ==
    ASSUME \A r \in Records : row'[r].state = row[r].state /\ row'[r].requeues = row[r].requeues
    PROVE  Moved
BY DEF Moved, Lifecycle!lifeVars

(* A claimed row that is settled or put back.                              *)
LEMMA LeavesClaim ==
    ASSUME NEW r \in Records, row[r].state = ZV, row'[r].state \in Ends,
           \A q \in Records \ {r} : row'[q] = row[q], row'[r].requeues = row[r].requeues
    PROVE  Moved
<1>1. /\ \A q \in Records \ {r} : row'[q].state = row[q].state
      /\ \A q \in Records : row'[q].requeues = row[q].requeues
  OBVIOUS
<1> DEFINE to == PhaseOf(row'[r].state)
<1>2. PhaseOf(row[r].state) = "paidClaimed"
  BY Phases
<1>3. CASE row'[r].state = "NEEDS_ZUHAL"
  <2>1. PhaseOf(row'[r].state) = "paid"
    BY <1>3, Phases
  <2>2. Lifecycle!Move({r}, {"paidClaimed"}, "paid")
    BY <1>1, <1>2, <2>1, MoveStep
  <2>3. Lifecycle!ReturnPaid({r})
    BY <2>2 DEF Lifecycle!ReturnPaid
  <2> QED
    BY <2>3 DEF Moved, Lifecycle!Next
<1>4. CASE row'[r].state \in {"VALIDATED", "VALIDATION_FAILED", "COST_SKIPPED"}
  <2>1. to \in Lifecycle!Settled
    BY <1>4, Phases DEF Lifecycle!Settled
  <2>2. Lifecycle!Move({r}, {"claimed", "paidClaimed"}, to)
    BY <1>1, <1>2, MoveStep
  <2> HIDE DEF to
  <2>3. Lifecycle!Settle(r)
    BY <2>1, <2>2 DEF Lifecycle!Settle
  <2> QED
    BY <2>3 DEF Moved, Lifecycle!Next
<1> QED
  BY <1>3, <1>4 DEF Ends

(* A batch that is claimed.                                                *)
LEMMA BatchMoves ==
    ASSUME TypeInv, NEW b \in SUBSET Queue, row' = claimed(b)
    PROVE  Moved
<1>1. b \in SUBSET Records /\ \A r \in b : row[r].state = "NEEDS_ZUHAL"
  BY DEF Queue
<1>2. /\ \A r \in b : PhaseOf(row[r].state) = "paid" /\ PhaseOf(row'[r].state) = "paidClaimed"
      /\ \A r \in Records \ b : row'[r].state = row[r].state
      /\ \A r \in Records : row'[r].requeues = row[r].requeues
  BY <1>1, ClaimedRows, Phases
<1>3. Lifecycle!Move(b, {"paid"}, "paidClaimed")
  BY <1>1, <1>2, MoveStep
<1>4. Lifecycle!ClaimPaid(b)
  BY <1>3 DEF Lifecycle!ClaimPaid
<1> QED
  BY <1>1, <1>4 DEF Moved, Lifecycle!Next

(* The SMTP stage takes its own steps.                                     *)
LEMMA SmtpMovesOn ==
    ASSUME SingleInv, NEW r \in Records, SmtpMoves(r)
    PROVE  Moved /\ \A q \in Records : row'[q].requeues = 0
<1>1. /\ \A q \in Records \ {r} : row'[q].state = row[q].state
      /\ \A q \in Records : row'[q].requeues = row[q].requeues /\ row'[q].requeues = 0
  BY DEF SingleInv, SmtpMoves
<1>2. CASE row[r].state = "ABSENT" /\ row'[r].state = "DISCOVERED"
  <2>1. Lifecycle!Appear(r)
    BY <1>1, <1>2, Phases, MoveStep DEF Lifecycle!Appear
  <2> QED
    BY <1>1, <2>1 DEF Moved, Lifecycle!Next
<1>3. CASE row[r].state = "DISCOVERED" /\ row'[r].state = "VALIDATING"
  <2>1. Lifecycle!Claim({r})
    BY <1>1, <1>3, Phases, MoveStep DEF Lifecycle!Claim
  <2> QED
    BY <1>1, <2>1 DEF Moved, Lifecycle!Next
<1>4. CASE row[r].state = "VALIDATING" /\ row'[r].state = "NEEDS_ZUHAL"
  <2>1. Lifecycle!HandOver(r)
    BY <1>1, <1>4, Phases, MoveStep DEF Lifecycle!HandOver
  <2> QED
    BY <1>1, <2>1 DEF Moved, Lifecycle!Next
<1> QED
  BY <1>2, <1>3, <1>4 DEF SmtpMoves

(* A step of a job.                                                        *)
LEMMA JobMovesOn ==
    ASSUME ZuhalInv, SingleInv, NEW j \in Jobs, JobMoves(j)
    PROVE  Moved
<1>0. JobInv(j) /\ SingleJob(j) /\ job[j] \in Job
  BY DEF ZuhalInv, TypeInv, JobsInv, SingleInv
<1>1. CASE JobClaims(j)
  BY <1>1, BatchMoves DEF JobClaims, ZuhalInv
<1>2. CASE JobPasses(j)
  BY <1>2, NoMove DEF JobPasses
<1>3. ASSUME NEW r \in Records, JobWritesRow(j, r) PROVE Moved
  <2>1. row[r].state = ZV
    <3>1. CASE job[j].pc \in {"cached", "results"}
      BY <1>0, <1>3, <3>1 DEF JobInv, Held, JobWritesRow
    <3>2. CASE job[j].pc \in {"fail", "defer"}
      BY <1>0, <1>3, <3>2 DEF SingleJob, JobWritesRow
    <3> QED
      BY <1>3, <3>1, <3>2 DEF JobWritesRow
  <2>2. row'[r].state \in Ends
    BY <1>3 DEF JobWritesRow, Ends
  <2> QED
    BY <1>3, <2>1, <2>2, LeavesClaim DEF JobWritesRow
<1> QED
  BY <1>1, <1>2, <1>3 DEF JobMoves

(* The loop claims batches and moves no other row.                         *)
LEMMA LoopRows ==
    ASSUME LoopStep
    PROVE  \/ row' = row
           \/ \E b \in SUBSET Queue : Claim(b) /\ row' = claimed(b)
<1>1. ASSUME NEW b \in SUBSET Records, Claim(b)
      PROVE  \E c \in SUBSET Queue : Claim(c) /\ row' = claimed(c)
  BY <1>1 DEF Claim, Batches
<1> QED
  BY <1>1 DEF LoopStep, LoopOnly, StopSeen, ChooseMode, BulkGathered, NothingToClaim,
              CheckPending, Gathered

(* Every step is one of RecordLifecycle, or none.                          *)
LEMMA StepRefines ==
    ASSUME ZuhalInv, SingleInv, [Next]_vars
    PROVE  Moved /\ \A r \in Records : row'[r].requeues = 0
<1>0. TypeInv /\ \A r \in Records : row[r].requeues = 0
  BY DEF ZuhalInv, SingleInv
<1>1. ASSUME row' = row
      PROVE  Moved /\ \A r \in Records : row'[r].requeues = 0
  BY <1>0, <1>1, NoMove
<1>2. CASE UNCHANGED vars
  BY <1>1, <1>2 DEF vars
<1>3. ASSUME NEW r \in Records, TaskStep(r)
      PROVE  Moved /\ \A q \in Records : row'[q].requeues = 0
  <2>1. TaskOutcome(r) /\ row[r].state = ZV
    BY <1>0, <1>3, TaskStepOutcome DEF ZuhalInv, TasksInv, TaskOutcome
  <2>2. CASE row'[r].state \in Ends /\ row'[r].requeues = row[r].requeues
    BY <1>0, <2>1, <2>2, LeavesClaim DEF TaskOutcome
  <2> QED
    BY <1>1, <2>1, <2>2 DEF TaskOutcome
<1>4. ASSUME NEW j \in Jobs, JobStep(j)
      PROVE  Moved /\ \A q \in Records : row'[q].requeues = 0
  <2>1. JobMoves(j)
    BY <1>4, JobStepMoves DEF ZuhalInv, JobsInv
  <2> QED
    BY <1>0, <2>1, JobMovesOn, JobKeepsOwn
<1>5. CASE LoopStep
  <2>1. ASSUME NEW b \in SUBSET Queue, row' = claimed(b)
        PROVE  Moved /\ \A q \in Records : row'[q].requeues = 0
    <3>1. b \in SUBSET Records
      BY DEF Queue
    <3> QED
      BY <1>0, <2>1, <3>1, BatchMoves, ClaimedRows
  <2> QED
    BY <1>1, <1>5, <2>1, LoopRows
<1>6. CASE Start
  <2> DEFINE S == {r \in Records : row[r].state = ZV /\ row[r].stale}
  <2>1. \A r \in Records :
           /\ row'[r].requeues = row[r].requeues
           /\ IF row[r].state = ZV /\ row[r].stale
              THEN row'[r].state = "NEEDS_ZUHAL" ELSE row'[r] = row[r]
    BY <1>0, <1>6, StartRows
  <2>2. /\ S \in SUBSET Records
        /\ \A r \in S : PhaseOf(row[r].state) = "paidClaimed" /\ PhaseOf(row'[r].state) = "paid"
        /\ \A r \in Records \ S : row'[r].state = row[r].state
    BY <2>1, Phases
  <2> HIDE DEF S
  <2>3. Lifecycle!ReturnPaid(S)
    BY <2>1, <2>2, MoveStep DEF Lifecycle!ReturnPaid
  <2> QED
    BY <1>0, <2>1, <2>2, <2>3 DEF Moved, Lifecycle!Next
<1>7. ASSUME NEW r \in Records, SmtpStage(r)
      PROVE  Moved /\ \A q \in Records : row'[q].requeues = 0
  BY <1>0, <1>7, SmtpStageMoves, SmtpMovesOn
<1>8. ASSUME NEW r \in Records, GrowsStale(r)
      PROVE  Moved /\ \A q \in Records : row'[q].requeues = 0
  BY <1>0, <1>8, StaleRows, NoMove
<1>9. CASE SmtpEnds \/ Stop \/ Crash
  BY <1>1, <1>9 DEF SmtpEnds, Stop, Crash
<1>10. CASE Environment
  BY <1>6, <1>7, <1>8, <1>9, <1>10 DEF Environment
<1> QED
  BY <1>2, <1>3, <1>4, <1>5, <1>10 DEF Next

(* ... and keeps batches single.                                           *)
LEMMA StaysSingle ==
    ASSUME ZuhalInv, SingleInv, [Next]_vars, BatchSize = 1 \/ NoFailures
    PROVE  SingleInv'
<1>0. /\ TypeInv /\ \A r \in Records : row'[r].requeues = 0
      /\ \A r \in Records : row[r].state \in LifeStates
  BY StepRefines DEF ZuhalInv, TypeInv
<1>1. CASE UNCHANGED vars
  BY <1>0, <1>1, SingleKept DEF vars, flags, SingleInv
<1>2. ASSUME NEW r \in Records, TaskStep(r) PROVE SingleInv'
  <2>1. TaskOutcome(r) /\ mode # "bulk"
    BY <1>0, <1>2, TaskStepOutcome DEF ZuhalInv, TasksInv, TaskOutcome
  <2>2. \A j \in Jobs : job'[j].pc = "none"
    BY <2>1, QuietModes DEF TaskOutcome
  <2>3. NoFailures => ~creditsOut'
    BY <2>1 DEF TaskOutcome, NoFailures, SingleInv
  <2> QED
    BY <1>0, <2>2, <2>3, SingleKept
<1>3. ASSUME NEW j \in Jobs, JobStep(j) PROVE SingleInv'
  <2>1. JobMoves(j)
    BY <1>3, JobStepMoves DEF ZuhalInv, JobsInv
  <2>2. SingleJob(j)'
    BY <2>1, JobStaysSingle
  <2>3. ASSUME NEW k \in Jobs, k # j PROVE SingleJob(k)'
    <3>1. job'[k] = job[k] /\ job[k] \in Job /\ SingleJob(k) /\ JobInv(k)
          /\ Mine(k) \cap Mine(j) = {}
      BY <2>1, <2>3 DEF JobMoves, SingleInv, ZuhalInv, TypeInv, JobsInv
    <3>2. ASSUME job[k].pc \in {"fail", "defer"}, NEW r \in job[k].todo
          PROVE  row'[r].state = ZV
      <4>1. r \in Mine(k) /\ r \in Records /\ row[r].state = ZV
        BY <3>1, <3>2 DEF Mine, SingleJob, Job
      <4>2. r \notin Mine(j) \cup Queue
        BY <3>1, <4>1 DEF Queue, ZV
      <4> QED
        BY <2>1, <4>1, <4>2, JobKeepsOwn
    <3> QED
      BY <3>1, <3>2 DEF SingleJob, AtMostOne, NoFailures
  <2>4. NoFailures => ~creditsOut'
    BY <2>1 DEF JobMoves, NoFailures, SingleInv
  <2> QED
    BY <1>0, <2>2, <2>3, <2>4 DEF SingleInv, NoFailures
<1>4. CASE LoopStep
  <2>1. UNCHANGED creditsOut /\ mode \in Modes \ {"down", "exited"}
    BY <1>4 DEF LoopStep, LoopOnly, StopSeen, ChooseMode, BulkGathered, NothingToClaim,
                CheckPending, Gathered, Claim, flags, Modes
  <2>2. \A j \in Jobs : job'[j].pc \in {"none", "claim"}
    <3>1. CASE UNCHANGED job /\ mode # "bulk"
      BY <3>1, QuietModes
    <3>2. CASE job' = [j \in Jobs |-> [NoJob EXCEPT !.pc = "claim"]]
      BY <3>2 DEF NoJob
    <3>3. CASE job' = [j \in Jobs |-> NoJob]
      BY <3>3 DEF NoJob
    <3> QED
      BY <1>4, <3>1, <3>2, <3>3 DEF LoopStep, LoopOnly, StopSeen, ChooseMode, BulkGathered,
           NothingToClaim, CheckPending, Gathered, Claim
  <2> QED
    BY <1>0, <2>1, <2>2, SingleKept DEF SingleInv
<1>5. CASE Start
  <2>1. \A j \in Jobs : job'[j].pc = "none"
    BY <1>5, QuietModes DEF Start, running
  <2> QED
    BY <1>0, <1>5, <2>1, SingleKept DEF Start
<1>6. CASE SmtpEnds \/ Stop
  BY <1>0, <1>6, SingleKept DEF SmtpEnds, Stop, EnvFrame, flags, SingleInv
<1>7. CASE Crash
  BY <1>0, <1>7, SingleKept DEF Crash, flags, NoJob, SingleInv
<1>8. ASSUME NEW r \in Records, SmtpStage(r) \/ GrowsStale(r) PROVE SingleInv'
  <2>1. /\ UNCHANGED <<job, creditsOut>>
        /\ \A q \in Records : \/ row'[q].state = row[q].state
                              \/ row[q].state \in {"ABSENT", "DISCOVERED", "VALIDATING"}
    BY <1>0, <1>8, SmtpStageMoves, StaleRows DEF SmtpMoves, flags
  <2>2. ASSUME NEW j \in Jobs PROVE \A q \in Mine(j) : row'[q].state = row[q].state
    <3>1. JobInv(j) /\ Mine(j) \subseteq Records
      BY DEF ZuhalInv, JobsInv, TypeInv, Mine, Job
    <3> QED
      BY <2>1, <3>1 DEF JobInv, ZV
  <2> QED
    BY <1>0, <2>1, <2>2, SingleKept DEF SingleInv
<1>9. CASE Environment
  BY <1>5, <1>6, <1>7, <1>8, <1>9 DEF Environment
<1> QED
  BY <1>1, <1>2, <1>3, <1>4, <1>9 DEF Next

(* The paid stage implements RecordLifecycle, for any records, addresses,  *)
(* tasks, jobs and crashes, provided a batch holds one row or no upload is *)
(* refused or deferred: a job that fails writes the rows of its batch that *)
(* were settled before the upload once more (zuhal_dispatcher.py:258-275). *)
THEOREM LifecycleTheorem ==
    ASSUME BatchSize = 1 \/ NoFailures
    PROVE  Spec => KeepsLifecycle
<1>1. Init => Lifecycle!Init /\ SingleInv
  <2> SUFFICES ASSUME Init PROVE Lifecycle!Init /\ SingleInv
    OBVIOUS
  <2>1. /\ \A r \in Records : row[r].state = "ABSENT" /\ row[r].requeues = 0
        /\ \A j \in Jobs : job[j].pc = "none"
    BY DEF Init, FreshRow, NoJob
  <2>2. SingleInv
    BY <2>1 DEF Init, SingleInv, SingleJob
  <2> QED
    BY <2>1, <2>2, Phases DEF Lifecycle!Init
<1>2. ZuhalInv /\ SingleInv /\ [Next]_vars => [Lifecycle!Next]_(Lifecycle!lifeVars)
  BY StepRefines DEF Moved
<1>3. ZuhalInv /\ SingleInv /\ [Next]_vars => SingleInv'
  BY StaysSingle
<1> QED
  BY <1>1, <1>2, <1>3, InvariantHolds, PTL DEF Spec, KeepsLifecycle, Lifecycle!Spec

-----------------------------------------------------------------------------
(* A run that ends by itself leaves no claim behind                        *)

OwnAddresses == \A q, r \in Records : MailOf[q] = MailOf[r] => q = r

\* Somebody works for r, or the loop is about to leave in a hurry.
LookedAfter(r) ==
    stop \/ halted \/ task[r].pc # "idle" \/ \E j \in Jobs : r \in Held(j)

ExitInv ==
    /\ \A r \in Records : row[r].state = ZV => LookedAfter(r)
    /\ mode = "exited" => \/ stop \/ halted \/ creditsOut
                          \/ \A r \in Records : row[r].state # "NEEDS_ZUHAL"

(* Between two batches a row that is claimed has been left in a hurry.     *)
LEMMA NobodyHolds ==
    ASSUME ZuhalInv, mode # "bulk" \/ \A j \in Jobs : job[j].pc \in {"none", "claim", "done"}
    PROVE  \A j \in Jobs : Held(j) = {}
<1>1. \A j \in Jobs : job[j].pc \in {"none", "claim", "done"} /\ JobInv(j)
  BY QuietModes DEF ZuhalInv, JobsInv
<1> QED
  BY <1>1 DEF Held, JobInv

LEMMA TaskLooksAfter ==
    ASSUME ZuhalInv, ExitInv, NEW r \in Records, TaskStep(r)
    PROVE  ExitInv'
<1>1. TaskOutcome(r) /\ mode = "gather"
  BY TaskStepOutcome DEF ZuhalInv, TasksInv, TaskOutcome
<1>2. mode' = "gather" /\ UNCHANGED <<job, stop>>
  BY <1>1 DEF TaskOutcome, loop
<1>3. ASSUME NEW q \in Records, row'[q].state = ZV PROVE LookedAfter(q)'
  <2>1. CASE q = r
    BY <1>1, <1>2, <1>3, <2>1 DEF TaskOutcome, Ends, LookedAfter, ZV
  <2>2. CASE q # r
    <3>1. LookedAfter(q) /\ task'[q] = task[q]
      BY <1>1, <1>3, <2>2 DEF TaskOutcome, ExitInv
    <3>2. \A j \in Jobs : Held(j)' = Held(j)
      BY <1>2 DEF Held
    <3> QED
      BY <1>1, <1>2, <3>1, <3>2 DEF LookedAfter, TaskOutcome
  <2> QED
    BY <2>1, <2>2
<1> QED
  BY <1>2, <1>3 DEF ExitInv

LEMMA JobLooksAfter ==
    ASSUME ZuhalInv, ExitInv, NEW j \in Jobs, JobStep(j), OwnAddresses
    PROVE  ExitInv'
<1>1. JobMoves(j) /\ JobInv(j) /\ job[j] \in Job
  BY JobStepMoves DEF ZuhalInv, JobsInv, TypeInv
<1>2. mode' = "bulk" /\ UNCHANGED <<task, stop>> /\ (halted => halted')
      /\ \A k \in Jobs \ {j} : Held(k)' = Held(k)
  BY <1>1, JobKeepsOwn DEF JobMoves, loop, Held
<1>3. ASSUME NEW q \in Records, row'[q].state = ZV, row[q].state = ZV, q \in Held(j)
      PROVE  halted' \/ q \in Held(j)'
  <2>1. CASE JobClaims(j)
    BY <1>1, <1>3, <2>1 DEF JobClaims, JobInv, Held
  <2>2. CASE JobPasses(j)
    BY <1>1, <1>3, <2>2 DEF JobPasses, JobInv, Held
  <2>3. ASSUME NEW r \in Records, JobWritesRow(j, r) PROVE q \in Held(j)'
    BY <1>1, <1>3, <2>3 DEF JobWritesRow, JobInv, Held, ZV
  <2> QED
    BY <1>1, <2>1, <2>2, <2>3 DEF JobMoves
<1>4. ASSUME NEW q \in Records, row'[q].state = ZV, row[q].state # ZV
      PROVE  q \in Held(j)'
  <2>1. CASE JobClaims(j)
    <3>1. job'[j].rows \in SUBSET Records /\ row' = claimed(job'[j].rows)
      BY <2>1 DEF JobClaims, Queue
    <3>2. q \in job'[j].rows
      BY <1>4, <3>1, ClaimedRows DEF ZuhalInv
    <3>3. PICK p \in job'[j].owners : MailOf[p] = MailOf[q]
      BY <2>1, <3>2 DEF JobClaims, OnePerAddress
    <3>4. p \in Records
      BY <2>1, <3>1, <3>3 DEF JobClaims, OnePerAddress
    <3> QED
      BY <2>1, <3>3, <3>4 DEF OwnAddresses, JobClaims, Held
  <2>2. ~JobPasses(j)
    BY <1>4 DEF JobPasses
  <2>3. ASSUME NEW r \in Records, JobWritesRow(j, r) PROVE FALSE
    BY <1>4, <2>3 DEF JobWritesRow, ZV
  <2> QED
    BY <1>1, <2>1, <2>2, <2>3 DEF JobMoves
<1>5. ASSUME NEW q \in Records, row'[q].state = ZV PROVE LookedAfter(q)'
  <2>1. CASE row[q].state # ZV
    BY <1>4, <1>5, <2>1 DEF LookedAfter
  <2>2. CASE row[q].state = ZV
    <3>1. LookedAfter(q)
      BY <2>2 DEF ExitInv
    <3>2. CASE \E k \in Jobs : q \in Held(k)
      BY <1>2, <1>3, <1>5, <2>2, <3>2 DEF LookedAfter
    <3> QED
      BY <1>2, <3>1, <3>2 DEF LookedAfter
  <2> QED
    BY <2>1, <2>2
<1> QED
  BY <1>2, <1>5 DEF ExitInv

LEMMA LoopLooksAfter ==
    ASSUME ZuhalInv, ExitInv, LoopStep
    PROVE  ExitInv'
<1>0. UNCHANGED <<stop, halted, creditsOut>>
  BY DEF LoopStep, LoopOnly, StopSeen, ChooseMode, BulkGathered, NothingToClaim, CheckPending,
         Gathered, Claim, flags
<1>1. \A j \in Jobs : Held(j) = {}
  <2>1. mode # "bulk" \/ \A j \in Jobs : job[j].pc \in {"none", "claim", "done"}
    BY DEF LoopStep, StopSeen, ChooseMode, BulkGathered, NothingToClaim, CheckPending,
           Gathered, Claim
  <2> QED
    BY <2>1, NobodyHolds
<1>2. \A r \in Records : row[r].state = ZV => stop \/ halted \/ task[r].pc # "idle"
  BY <1>1 DEF ExitInv, LookedAfter
<1>3. ASSUME UNCHANGED <<row, task>>
      PROVE  \A r \in Records : row'[r].state = ZV => LookedAfter(r)'
  BY <1>0, <1>2, <1>3 DEF LookedAfter
<1>4. ASSUME NEW b \in SUBSET Records, Claim(b) PROVE ExitInv'
  <2>1. mode' = "gather" /\ row' = claimed(b)
        /\ task' = [r \in Records |-> IF r \in b THEN [Idle EXCEPT !.pc = "queued"] ELSE task[r]]
    BY <1>4 DEF Claim
  <2>2. \A r \in Records \ b : row'[r] = row[r] /\ task'[r] = task[r]
    BY <2>1, ClaimedRows DEF ZuhalInv
  <2>3. \A r \in b : task'[r].pc = "queued"
    BY <2>1 DEF Idle
  <2>4. \A r \in Records : row'[r].state = ZV => stop' \/ halted' \/ task'[r].pc # "idle"
    BY <1>0, <1>2, <2>2, <2>3
  <2> QED
    BY <2>1, <2>4 DEF ExitInv, LookedAfter
<1>5. CASE StopSeen
  BY <1>0, <1>3, <1>5 DEF StopSeen, LoopOnly, ExitInv
<1>6. CASE ChooseMode
  BY <1>3, <1>6 DEF ChooseMode, LoopOnly, ExitInv
<1>7. CASE BulkGathered
  BY <1>0, <1>3, <1>7 DEF BulkGathered, LoopOnly, ExitInv
<1>8. CASE NothingToClaim
  BY <1>3, <1>8 DEF NothingToClaim, LoopOnly, ExitInv
<1>9. CASE CheckPending
  <2>1. \/ mode' = "top"
        \/ mode' = "exited" /\ \A r \in Records : row[r].state # "NEEDS_ZUHAL"
    BY <1>9 DEF CheckPending, has_pending_zuhal
  <2> QED
    BY <1>3, <1>9, <2>1 DEF CheckPending, LoopOnly, ExitInv
<1>10. CASE Gathered
  BY <1>0, <1>3, <1>10 DEF Gathered, LoopOnly, ExitInv
<1> QED
  BY <1>4, <1>5, <1>6, <1>7, <1>8, <1>9, <1>10 DEF LoopStep

LEMMA EnvironmentLooksAfter ==
    ASSUME ZuhalInv, ExitInv, Environment, PatientRestart, ~CanCrash
    PROVE  ExitInv'
<1>1. CASE Start
  <2>1. \A r \in Records : row[r].state = ZV => row[r].stale
    BY <1>1 DEF Start, ZV
  <2>2. \A r \in Records : row'[r].state # ZV
    BY <1>1, <2>1, StartRows DEF ZuhalInv, ZV
  <2>3. mode' = "top"
    BY <1>1 DEF Start
  <2> QED
    BY <2>2, <2>3 DEF ExitInv
<1>2. CASE SmtpEnds
  BY <1>2 DEF SmtpEnds, EnvFrame, loop, flags, ExitInv, LookedAfter, Held
<1>3. CASE Stop
  <2>1. stop' /\ UNCHANGED <<row, mode>>
    BY <1>3 DEF Stop, loop
  <2> QED
    BY <2>1 DEF ExitInv, LookedAfter
<1>4. ASSUME NEW r \in Records, SmtpStage(r) PROVE ExitInv'
  <2>1. SmtpMoves(r) /\ running
    BY <1>4, SmtpStageMoves DEF SmtpStage, ZuhalInv
  <2>2. UNCHANGED <<task, job, mode, stop, halted>>
    BY <2>1 DEF SmtpMoves, loop, flags
  <2>3. \A q \in Records : row'[q].state = ZV => row[q].state = ZV
    BY <2>1 DEF SmtpMoves, ZV
  <2>4. \A q \in Records : LookedAfter(q) => LookedAfter(q)'
    BY <2>2 DEF LookedAfter, Held
  <2> QED
    BY <2>1, <2>2, <2>3, <2>4 DEF ExitInv, running
<1>5. ASSUME NEW r \in Records, GrowsStale(r) PROVE ExitInv'
  <2>1. UNCHANGED <<task, job, mode, stop, halted, creditsOut>>
        /\ \A q \in Records : row'[q].state = row[q].state
    BY <1>5, StaleRows DEF ZuhalInv, loop, flags
  <2>2. \A q \in Records : LookedAfter(q) => LookedAfter(q)'
    BY <2>1 DEF LookedAfter, Held
  <2> QED
    BY <2>1, <2>2 DEF ExitInv
<1>6. ~Crash
  BY DEF Crash
<1> QED
  BY <1>1, <1>2, <1>3, <1>4, <1>5, <1>6 DEF Environment

(* When the loop leaves by itself nothing is claimed, and nothing waits    *)
(* unless the credits are out, for any number of tasks, jobs and runs, if  *)
(* no run crashes or starts early and no two records share an address: a   *)
(* job keeps one row per address and forgets the others                    *)
(* (zuhal_dispatcher.py:204-209).                                          *)
THEOREM ExitTheorem ==
    ASSUME PatientRestart, ~CanCrash, OwnAddresses
    PROVE  Spec => []GracefulExitLeavesNoClaim
<1>1. Init => ExitInv
  BY DEF Init, FreshRow, ExitInv, ZV
<1>2. ZuhalInv /\ ExitInv /\ [Next]_vars => ExitInv'
  <2>1. ASSUME ExitInv, UNCHANGED vars PROVE ExitInv'
    BY <2>1 DEF vars, loop, flags, ExitInv, LookedAfter, Held
  <2> QED
    BY <2>1, TaskLooksAfter, JobLooksAfter, LoopLooksAfter, EnvironmentLooksAfter DEF Next
<1>3. ZuhalInv /\ ExitInv => GracefulExitLeavesNoClaim
  <2> SUFFICES ASSUME ZuhalInv, ExitInv, mode = "exited", ~stop, ~halted
               PROVE  \A r \in Records : /\ row[r].state # ZV
                                         /\ creditsOut \/ row[r].state # "NEEDS_ZUHAL"
    BY DEF GracefulExitLeavesNoClaim, ZV
  <2>1. (\A r \in Records : task[r].pc = "idle") /\ \A j \in Jobs : Held(j) = {}
    BY QuietModes, NobodyHolds
  <2> QED
    BY <2>1 DEF ExitInv, LookedAfter
<1> QED
  BY <1>1, <1>2, <1>3, InvariantHolds, PTL DEF Spec

-----------------------------------------------------------------------------
(* What is in memory, the cache and the counters                           *)

\* A verdict that is on its way into the cache is one the cache keeps.
CountersInv ==
    /\ cache \in [Emails -> Cached \cup {"none"}]
    /\ \A r \in Records : task[r].pc = "store" => task[r].verdict \in Cached
    /\ circuit \in [Records -> 0 .. CircuitCap - 1]
    /\ mode \in Modes /\ empties \in 0 .. EmptyThreshold
    /\ width \in MinWidth .. MaxWidth /\ okBatches \in 0 .. ScaleUpAfter - 1
    /\ creditsOut \in BOOLEAN /\ stop \in BOOLEAN /\ halted \in BOOLEAN /\ smtpDone \in BOOLEAN
    /\ spent \in Nat /\ taken \in [Emails -> Nat]
    /\ starts \in 0 .. MaxStarts

LEMMA Settings ==
    /\ CircuitCap \in Nat /\ CircuitCap >= 1 /\ ScaleUpAfter \in Nat /\ ScaleUpAfter >= 1
    /\ MinWidth \in Nat /\ MaxWidth \in Nat /\ Width \in MinWidth .. MaxWidth /\ MinWidth >= 1
    /\ BatchSize \in Nat /\ BatchSize >= 1 /\ Ceiling \in Nat /\ MaxStarts \in Nat
    /\ IsFiniteSet(Records) /\ IsFiniteSet(Jobs) /\ \A r \in Records : MailOf[r] \in Emails
BY ZuhalAssumption

LEMMA BatchCount ==
    ASSUME NEW S \in SUBSET Records
    PROVE  IsFiniteSet(S) /\ Cardinality(S) \in Nat
BY Settings, FS_Subset, FS_CardinalityType

LEMMA TaskCounts ==
    ASSUME ZuhalInv, CountersInv, NEW r \in Records, TaskStep(r)
    PROVE  CountersInv'
<1> USE DEF CountersInv
<1>0. UNCHANGED <<mode, empties, width, okBatches, stop, smtpDone, starts>> /\ TaskOutcome(r)
  BY TaskStepOutcome DEF ZuhalInv, TaskOutcome, loop, env
<1>1. /\ CircuitCap \in Nat /\ CircuitCap >= 1 /\ MailOf[r] \in Emails
      /\ task \in [Records -> Task]
  BY Settings DEF ZuhalInv, TypeInv
<1>2. ASSUME NEW x, Finish(r, x)
      PROVE  \A q \in Records : task'[q].pc = "store" => task'[q].verdict \in Cached
  BY <1>1, <1>2 DEF Finish, Idle
<1>3. ASSUME NEW pc \in TaskPC \ {"store"}, Go(r, pc)
      PROVE  \A q \in Records : task'[q].pc = "store" => task'[q].verdict \in Cached
  BY <1>1, <1>3 DEF Go, Task
<1>4. CASE Begin(r)
  <2>1. \A q \in Records : task'[q].pc = "store" => task'[q].verdict \in Cached
    BY <1>2, <1>3, <1>4 DEF Begin, TaskPC
  <2> QED
    BY <1>0, <1>4, <2>1 DEF Begin, costs
<1>5. CASE Lookup(r)
  <2>1. \A q \in Records : task'[q].pc = "store" => task'[q].verdict \in Cached
    BY <1>2, <1>3, <1>5 DEF Lookup, TaskPC
  <2> QED
    BY <1>0, <1>5, <2>1 DEF Lookup, costs
<1>6. CASE Answered(r)
  <2>1. PICK v \in Answers \cap (ApiVerdict \cup {"error"}) :
          /\ task' = [task EXCEPT ![r] =
                         [pc |-> IF v \in Cached THEN "store" ELSE "apply", verdict |-> v]]
          /\ taken' = IF v = "error" THEN taken ELSE [taken EXCEPT ![MailOf[r]] = @ + 1]
    BY <1>6 DEF Answered
  <2>2. \A q \in Records : task'[q].pc = "store" => task'[q].verdict \in Cached
    BY <1>1, <2>1
  <2>3. taken' \in [Emails -> Nat]
    BY <1>1, <2>1
  <2>4. circuit' \in [Records -> 0 .. CircuitCap - 1] /\ spent' \in Nat
    BY <1>1, <1>6 DEF Answered
  <2>5. UNCHANGED <<cache, creditsOut, halted>>
    BY <1>6 DEF Answered
  <2> QED
    BY <1>0, <2>2, <2>3, <2>4, <2>5
<1>7. CASE CreditsOut(r)
  <2>1. \A q \in Records : task'[q].pc = "store" => task'[q].verdict \in Cached
    BY <1>2, <1>7 DEF CreditsOut
  <2> QED
    BY <1>0, <1>7, <2>1 DEF CreditsOut, costs
<1>8. CASE requeue_or_give_up(r)
  <2>1. \A q \in Records : task'[q].pc = "store" => task'[q].verdict \in Cached
    BY <1>2, <1>8 DEF requeue_or_give_up
  <2>2. circuit' \in [Records -> 0 .. CircuitCap - 1]
    BY <1>1, <1>8 DEF requeue_or_give_up
  <2> QED
    BY <1>0, <1>8, <2>1, <2>2 DEF requeue_or_give_up, costs
<1>9. CASE Halt(r)
  <2>1. \A q \in Records : task'[q].pc = "store" => task'[q].verdict \in Cached
    BY <1>3, <1>9 DEF Halt, TaskPC
  <2> QED
    BY <1>0, <1>9, <2>1 DEF Halt, costs
<1>10. CASE Store(r)
  <2>1. \A q \in Records : task'[q].pc = "store" => task'[q].verdict \in Cached
    BY <1>3, <1>10 DEF Store, TaskPC
  <2>2. cache' \in [Emails -> Cached \cup {"none"}]
    BY <1>1, <1>10 DEF Store
  <2> QED
    BY <1>0, <1>10, <2>1, <2>2 DEF Store, costs
<1>11. CASE Apply(r)
  <2>1. \A q \in Records : task'[q].pc = "store" => task'[q].verdict \in Cached
    BY <1>2, <1>11 DEF Apply
  <2> QED
    BY <1>0, <1>11, <2>1 DEF Apply, costs
<1> QED
  BY <1>4, <1>5, <1>6, <1>7, <1>8, <1>9, <1>10, <1>11 DEF TaskStep

LEMMA JobCounts ==
    ASSUME ZuhalInv, CountersInv, NEW j \in Jobs, JobStep(j)
    PROVE  CountersInv'
<1> USE DEF CountersInv
<1>0. /\ UNCHANGED <<task, circuit, mode, empties, width, okBatches, stop, smtpDone, starts>>
      /\ job[j] \in Job
  BY DEF JobStep, JobClaim, JobCached, JobUpload, JobEnd, JobResults, fail_batch, JobDefer,
         JobWrites, JobFrame, loop, env, ZuhalInv, TypeInv
<1>1. Uploaded(j) \subseteq Records
  BY <1>0 DEF Uploaded, Job
<1>2. CASE JobClaim(j) \/ JobCached(j)
  BY <1>0, <1>2 DEF JobClaim, JobCached, costs
<1>3. CASE JobUpload(j)
  <2> DEFINE n(e) == Cardinality({r \in Uploaded(j) : MailOf[r] = e})
  <2>1. PICK a \in IF creditsOut THEN {"credits"} ELSE Uploads :
          /\ creditsOut' = (creditsOut \/ a = "credits") /\ halted' = (halted \/ a = "halt")
          /\ IF a = "ok" THEN taken' = [e \in Emails |-> taken[e] + n(e)] ELSE UNCHANGED taken
    BY <1>3 DEF JobUpload
  <2>2. \A e \in Emails : n(e) \in Nat
    BY <1>1, BatchCount
  <2> HIDE DEF n
  <2>3. taken' \in [Emails -> Nat]
    BY <2>1, <2>2
  <2>4. creditsOut' \in BOOLEAN /\ halted' \in BOOLEAN
    BY <2>1
  <2> QED
    BY <1>0, <1>3, <2>3, <2>4 DEF JobUpload
<1>4. CASE JobEnd(j)
  <2>1. Cardinality(Uploaded(j)) \in Nat
    BY <1>1, BatchCount
  <2>2. spent' \in Nat /\ taken' = taken
    BY <1>4, <2>1 DEF JobEnd, charge
  <2> QED
    BY <1>0, <1>4, <2>2 DEF JobEnd
<1>5. ASSUME NEW pc, NEW new, JobWrites(j, pc, new) PROVE CountersInv'
  <2>1. cache' \in [Emails -> Cached \cup {"none"}]
    <3>1. CASE cache' = cache
      BY <3>1
    <3>2. CASE \E r \in job[j].todo :
                 job[j].got[r] \in Cached /\ cache' = [cache EXCEPT ![MailOf[r]] = job[j].got[r]]
      BY <1>0, <3>2 DEF Job
    <3> QED
      BY <1>5, <3>1, <3>2 DEF JobWrites
  <2> QED
    BY <1>0, <1>5, <2>1 DEF JobWrites, costs
<1> QED
  BY <1>2, <1>3, <1>4, <1>5 DEF JobStep, JobResults, fail_batch, JobDefer

LEMMA LoopCounts ==
    ASSUME ZuhalInv, CountersInv, LoopStep
    PROVE  CountersInv'
<1> USE DEF CountersInv, LoopOnly, flags, costs, env, Modes
<1>1. CASE StopSeen
  BY <1>1 DEF StopSeen
<1>2. CASE ChooseMode
  BY <1>2 DEF ChooseMode
<1>3. CASE BulkGathered
  BY <1>3 DEF BulkGathered, EmptyThreshold
<1>4. CASE NothingToClaim
  BY <1>4 DEF NothingToClaim, EmptyThreshold
<1>5. CASE CheckPending
  BY <1>5 DEF CheckPending, EmptyThreshold
<1>6. CASE Gathered
  <2>1. /\ UNCHANGED <<cache, task, circuit, creditsOut, stop, halted, smtpDone, spent, taken,
                       starts, empties>>
        /\ mode' \in Modes
    BY <1>6 DEF Gathered
  <2>2. width' \in MinWidth .. MaxWidth /\ okBatches' \in 0 .. ScaleUpAfter - 1
    BY <1>6, Settings DEF Gathered, adjust_concurrency
  <2> QED
    BY <2>1, <2>2
<1>7. ASSUME NEW b \in SUBSET Records, Claim(b) PROVE CountersInv'
  <2>1. /\ UNCHANGED <<cache, circuit, creditsOut, stop, halted, smtpDone, spent, taken,
                       starts, width, okBatches>>
        /\ mode' \in Modes /\ empties' \in 0 .. EmptyThreshold
        /\ task' = [r \in Records |-> IF r \in b THEN [Idle EXCEPT !.pc = "queued"] ELSE task[r]]
    BY <1>7 DEF Claim, EmptyThreshold
  <2>2. \A r \in Records : task'[r].pc = "store" => task'[r].verdict \in Cached
    BY <2>1 DEF Idle
  <2> QED
    BY <2>1, <2>2
<1> QED
  BY <1>1, <1>2, <1>3, <1>4, <1>5, <1>6, <1>7 DEF LoopStep

LEMMA EnvironmentCounts ==
    ASSUME ZuhalInv, CountersInv, Environment
    PROVE  CountersInv'
<1> USE DEF CountersInv
<1>1. CASE Start
  <2>1. 0 \in 0 .. CircuitCap - 1 /\ 0 \in 0 .. ScaleUpAfter - 1 /\ Width \in MinWidth .. MaxWidth
        /\ 0 \in 0 .. EmptyThreshold
    BY Settings DEF EmptyThreshold
  <2>2. starts' \in 0 .. MaxStarts
    BY <1>1, Settings DEF Start
  <2> QED
    BY <1>1, <2>1, <2>2 DEF Start, Modes
<1>2. CASE SmtpEnds \/ Stop
  BY <1>2 DEF SmtpEnds, Stop, EnvFrame, loop, flags, costs, env
<1>3. CASE Crash
  BY <1>3 DEF Crash, loop, flags, costs, env, Modes, Idle
<1>4. ASSUME NEW r \in Records, SmtpStage(r) \/ GrowsStale(r) PROVE CountersInv'
  BY <1>4 DEF SmtpStage, GrowsStale, EnvFrame, loop, flags, costs
<1> QED
  BY <1>1, <1>2, <1>3, <1>4 DEF Environment

LEMMA CountersInductive == ZuhalInv /\ CountersInv /\ [Next]_vars => CountersInv'
<1>1. CountersInv /\ UNCHANGED vars => CountersInv'
  BY DEF CountersInv, vars, loop, flags, costs
<1> QED
  BY <1>1, TaskCounts, JobCounts, LoopCounts, EnvironmentCounts DEF Next

LEMMA CountersInitially == Init => CountersInv
<1> SUFFICES ASSUME Init PROVE CountersInv
  OBVIOUS
<1>1. 0 \in 0 .. CircuitCap - 1 /\ 0 \in 0 .. ScaleUpAfter - 1 /\ 0 \in 0 .. MaxStarts
      /\ 0 \in 0 .. EmptyThreshold
  BY Settings DEF EmptyThreshold
<1>2. CachedBefore \in [Emails -> Cached \cup {"none"}]
  BY ZuhalAssumption
<1> QED
  BY <1>1, <1>2, Settings DEF Init, CountersInv, Modes, Idle

-----------------------------------------------------------------------------
(* Credits                                                                 *)

\* One entry for each credit that Zuhal has taken for a job still polled.
OnAccount == {p \in Jobs \X Records : job[p[1]].pc = "poll" /\ p[2] \in Uploaded(p[1])}

Working == {"cached", "upload", "poll"}

\* Single calls, and jobs, that have found the ceiling not reached and are not charged yet.
Paying    == {r \in Records : task[r].pc \in {"lookup", "ask"}}
Committed == {j \in Jobs : job[j].pc \in Working}

\* Rows that are written off, or that a failed batch has still to write off.
Doomed(r) == \E j \in Jobs : job[j].pc = "fail" /\ r \in job[j].todo
Lost ==
    {r \in Records : \/ row[r].state = "VALIDATION_FAILED" /\ \A j \in Jobs : r \notin Mine(j)
                     \/ Doomed(r)}

\* What a failed job has cost never gets on the tracker: it stands behind the
\* rows of its batch.  What a crash finds polled is not this run's any more.
AccountInv ==
    /\ uncharged \in Nat /\ Cardinality(OnAccount) <= uncharged
    /\ mode # "down" => uncharged <= Cardinality(OnAccount) + Cardinality(Lost)

SpendInv ==
    /\ \A j \in Jobs : Cardinality(job[j].rows) <= BatchSize
    /\ spent + Cardinality(Committed) * BatchSize + Cardinality(Paying) < Ceiling + Round

\* What a step of a job does with money.
Uploading(j) ==
    /\ job[j].pc = "upload" /\ job'[j].pc = "poll"
    /\ job'[j].rows = job[j].rows /\ job'[j].owners = job[j].owners
    /\ spent' = spent /\ uncharged' = uncharged + Cardinality(Uploaded(j))
    /\ taken' = [e \in Emails |-> taken[e] + Cardinality({r \in Uploaded(j) : MailOf[r] = e})]

Completing(j) ==
    /\ job[j].pc = "poll" /\ job'[j].pc = "results" /\ job'[j].rows = job[j].rows
    /\ spent' = spent + Cardinality(Uploaded(j))
    /\ uncharged' = uncharged - Cardinality(Uploaded(j))
    /\ taken' = taken

Claiming(j) ==
    /\ job[j].pc = "claim" /\ job'[j].pc = "cached" /\ ~ceiling_reached
    /\ Cardinality(job'[j].rows) <= BatchSize /\ UNCHANGED costs

Passing(j) ==
    /\ job'[j].rows = job[j].rows /\ UNCHANGED costs
    /\ job[j].pc = "poll" => "failed" \in JobEnds /\ job'[j].pc = "fail"
    /\ job'[j].pc # "poll"
    /\ job'[j].pc \in Working => job[j].pc \in Working

LEMMA JobMoney ==
    ASSUME ZuhalInv, NEW j \in Jobs, JobStep(j)
    PROVE  /\ JobMoves(j) /\ mode = "bulk" /\ \A k \in Jobs \ {j} : job'[k] = job[k]
           /\ Uploading(j) \/ Completing(j) \/ Claiming(j) \/ Passing(j)
<1>1. JobMoves(j) /\ JobInv(j) /\ TypeInv
  BY JobStepMoves DEF ZuhalInv, JobsInv
<1>2. /\ mode = "bulk" /\ job[j] \in Job /\ job' \in [Jobs -> Job]
      /\ \A k \in Jobs \ {j} : job'[k] = job[k]
  BY <1>1, JobKeepsOwn DEF JobMoves, TypeInv
<1> SUFFICES Uploading(j) \/ Completing(j) \/ Claiming(j) \/ Passing(j)
  BY <1>1, <1>2
<1>3. CASE JobClaim(j)
  <2>1. CASE job' = [job EXCEPT ![j].pc = "done"]
    <3>1. job'[j].pc = "done" /\ job'[j].rows = job[j].rows
      BY <1>1, <2>1 DEF TypeInv, Job
    <3> QED
      BY <1>3, <3>1 DEF JobClaim, Passing, Working
  <2>2. ASSUME ~ceiling_reached, NEW b \in Batches(BatchSize), NEW o,
               job' = [job EXCEPT ![j] = [NoJob EXCEPT !.pc = "cached", !.rows = b,
                                            !.owners = o, !.todo = hits(o)]]
        PROVE  Claiming(j)
    <3>1. job'[j].pc = "cached" /\ job'[j].rows = b
      BY <1>1, <2>2 DEF TypeInv, NoJob
    <3>2. Cardinality(b) <= BatchSize
      <4>1. Cardinality(b) = BatchSize \/ Cardinality(b) < BatchSize
        BY DEF Batches
      <4>2. b \subseteq Records
        BY DEF Batches, Queue
      <4> QED
        BY <4>1, <4>2, BatchCount, Settings
    <3> QED
      BY <1>3, <2>2, <3>1, <3>2 DEF JobClaim, Claiming
  <2> QED
    BY <1>3, <2>1, <2>2 DEF JobClaim
<1>4. CASE JobCached(j)
  <2>1. job'[j].pc \in {"cached", "done", "upload"} /\ job'[j].rows = job[j].rows
    <3>1. ASSUME NEW r,
                 job' = [job EXCEPT ![j].todo = @ \ {r}, ![j].owners = @ \ {r}, ![j].drained = TRUE]
          PROVE  job'[j].pc = job[j].pc /\ job'[j].rows = job[j].rows
      <4> DEFINE x == [job[j] EXCEPT !.todo = @ \ {r}, !.owners = @ \ {r}, !.drained = TRUE]
      <4>1. job' = [job EXCEPT ![j] = x]
        BY <1>1, <3>1 DEF TypeInv, Job
      <4>2. x.pc = job[j].pc /\ x.rows = job[j].rows
        BY <1>2 DEF Job
      <4> HIDE DEF x
      <4> QED
        BY <1>1, <4>1, <4>2 DEF TypeInv
    <3>2. CASE job' = [job EXCEPT ![j].pc = IF job[j].owners = {} THEN "done" ELSE "upload"]
      BY <1>1, <1>2, <3>2 DEF TypeInv, Job
    <3> QED
      BY <1>4, <3>1, <3>2 DEF JobCached
  <2> QED
    BY <1>4, <2>1 DEF JobCached, Passing, Working
<1>5. CASE JobUpload(j)
  <2> DEFINE pcOf(a) == CASE a = "ok"      -> "poll"
                          [] a = "refused" -> "fail"
                          [] a = "credits" -> "defer"
                          [] a = "halt"    -> "done"
             todoOf(a) == IF a \in {"refused", "credits"} THEN job[j].rows ELSE {}
  <2>1. PICK a \in IF creditsOut THEN {"credits"} ELSE Uploads :
          /\ job' = [job EXCEPT ![j] = [@ EXCEPT !.pc = pcOf(a), !.todo = todoOf(a), !.drained = FALSE]]
          /\ IF a = "ok"
             THEN /\ uncharged' = uncharged + Cardinality(Uploaded(j))
                  /\ taken' = [e \in Emails |->
                        taken[e] + Cardinality({r \in Uploaded(j) : MailOf[r] = e})]
             ELSE UNCHANGED <<uncharged, taken>>
    BY <1>5 DEF JobUpload
  <2>2. a \in {"ok", "refused", "credits", "halt"}
    BY ZuhalAssumption
  <2>3. job'[j].rows = job[j].rows /\ job'[j].owners = job[j].owners /\ job'[j].pc = pcOf(a)
    <3> HIDE DEF pcOf, todoOf
    <3> QED
      BY <1>1, <1>2, <2>1 DEF TypeInv, Job
  <2>4. spent' = spent /\ job[j].pc = "upload"
    BY <1>5 DEF JobUpload
  <2>5. CASE a = "ok"
    BY <2>1, <2>3, <2>4, <2>5 DEF Uploading
  <2>6. CASE a # "ok"
    <3>1. UNCHANGED costs
      BY <2>1, <2>4, <2>6 DEF costs
    <3>2. job'[j].pc \notin Working
      BY <2>2, <2>3, <2>6 DEF Working
    <3> QED
      BY <2>3, <2>4, <3>1, <3>2 DEF Passing, Working
  <2> QED
    BY <2>5, <2>6
<1>6. CASE JobEnd(j)
  <2>1. job[j].pc = "poll" /\ taken' = taken
    BY <1>6 DEF JobEnd
  <2>2. ASSUME NEW got, charge(Cardinality(Uploaded(j))),
               job' = [job EXCEPT ![j].pc = "results", ![j].todo = job[j].owners,
                           ![j].got = [r \in Records |-> IF r \in job[j].owners THEN got[r] ELSE "none"]]
        PROVE  Completing(j)
    <3>1. job'[j].pc = "results" /\ job'[j].rows = job[j].rows
      BY <1>1, <1>2, <2>2 DEF TypeInv, Job
    <3> QED
      BY <2>1, <2>2, <3>1 DEF Completing, charge
  <2>3. ASSUME "failed" \in JobEnds, UNCHANGED <<spent, uncharged>>,
               job' = [job EXCEPT ![j].pc = "fail", ![j].todo = job[j].rows, ![j].drained = FALSE]
        PROVE  Passing(j)
    <3>1. job'[j].pc = "fail" /\ job'[j].rows = job[j].rows
      BY <1>1, <1>2, <2>3 DEF TypeInv, Job
    <3> QED
      BY <2>1, <2>3, <3>1 DEF Passing, Working, costs
  <2> QED
    BY <1>6, <2>2, <2>3 DEF JobEnd
<1>7. ASSUME NEW pc \in {"results", "fail", "defer"}, NEW new, JobWrites(j, pc, new) PROVE Passing(j)
  <2>1. job'[j].pc \in {pc, "done"} /\ job'[j].rows = job[j].rows
    <3>1. CASE \E r \in job[j].todo : job' = [job EXCEPT ![j].todo = @ \ {r}]
      BY <1>1, <1>2, <1>7, <3>1 DEF TypeInv, Job, JobWrites
    <3>2. CASE job' = [job EXCEPT ![j].pc = "done", ![j].drained = (pc = "results")]
      <4> DEFINE yes == (pc = "results")
      <4>1. job' = [job EXCEPT ![j].pc = "done", ![j].drained = yes]
        BY <3>2
      <4> HIDE DEF yes
      <4> QED
        BY <1>1, <1>2, <4>1 DEF TypeInv, Job
    <3> QED
      BY <1>7, <3>1, <3>2 DEF JobWrites
  <2> QED
    BY <1>7, <2>1 DEF JobWrites, Passing, Working
<1> QED
  BY <1>3, <1>4, <1>5, <1>6, <1>7 DEF JobStep, JobResults, fail_batch, JobDefer

LEMMA AccountFinite ==
    /\ IsFiniteSet(OnAccount) /\ Cardinality(OnAccount) \in Nat
    /\ IsFiniteSet(OnAccount') /\ Cardinality(OnAccount') \in Nat
<1>1. IsFiniteSet(Jobs \X Records)
  BY Settings, FS_Product
<1>2. OnAccount \in SUBSET (Jobs \X Records) /\ OnAccount' \in SUBSET (Jobs \X Records)
  BY DEF OnAccount
<1> HIDE DEF OnAccount
<1> QED
  BY <1>1, <1>2, FS_Subset, FS_CardinalityType

\* The entries of one job.
LEMMA JobEntries ==
    ASSUME NEW j \in Jobs, NEW S \in SUBSET Records
    PROVE  IsFiniteSet({j} \X S) /\ Cardinality({j} \X S) = Cardinality(S) /\ Cardinality(S) \in Nat
<1>1. IsFiniteSet(S) /\ Cardinality(S) \in Nat
  BY BatchCount
<1>2. IsFiniteSet({j}) /\ Cardinality({j}) = 1
  BY FS_Singleton
<1>3. IsFiniteSet({j} \X S) /\ Cardinality({j} \X S) = Cardinality({j}) * Cardinality(S)
  BY <1>1, <1>2, FS_Product
<1> DEFINE n == Cardinality(S)
<1>4. n \in Nat /\ Cardinality({j} \X S) = 1 * n
  BY <1>1, <1>2, <1>3
<1> HIDE DEF n
<1>5. Cardinality({j} \X S) = n
  BY <1>4
<1> QED
  BY <1>1, <1>3, <1>5 DEF n

(* How the account moves with a job.                                       *)
LEMMA AccountMoves ==
    ASSUME ZuhalInv, NEW j \in Jobs, job[j].rows \subseteq Records,
           \A k \in Jobs \ {j} : job'[k] = job[k]
    PROVE  /\ Uploading(j) => Cardinality(OnAccount') = Cardinality(OnAccount) + Cardinality(Uploaded(j))
           /\ Completing(j) => Cardinality(OnAccount') = Cardinality(OnAccount) - Cardinality(Uploaded(j))
           /\ Claiming(j) => OnAccount' = OnAccount
           /\ Passing(j) /\ job[j].pc # "poll" => OnAccount' = OnAccount
           /\ Passing(j) /\ job[j].pc = "poll" =>
                Cardinality(OnAccount') = Cardinality(OnAccount) - Cardinality(Uploaded(j))
<1> DEFINE U == Uploaded(j)  E == {j} \X U
<1>1. U \in SUBSET Records
  BY DEF Uploaded
<1>2. \A k \in Jobs \ {j} : Uploaded(k)' = Uploaded(k)
  BY DEF Uploaded
<1>3. \A p \in Jobs \X Records : p[1] # j => (p \in OnAccount') = (p \in OnAccount)
  BY <1>2 DEF OnAccount
<1>4. \A p : p \in E <=> p \in Jobs \X Records /\ p[1] = j /\ p[2] \in U
  <2> HIDE DEF U
  <2> QED
    BY <1>1
<1>5. OnAccount \subseteq Jobs \X Records /\ OnAccount' \subseteq Jobs \X Records
  BY DEF OnAccount
<1>6. IsFiniteSet(E) /\ Cardinality(E) = Cardinality(U) /\ Cardinality(U) \in Nat
  <2> HIDE DEF U
  <2> QED
    BY <1>1, JobEntries
<1>7. ASSUME Uploading(j)
      PROVE  Cardinality(OnAccount') = Cardinality(OnAccount) + Cardinality(Uploaded(j))
  <2>1. Uploaded(j)' = U
    BY <1>7 DEF Uploading, Uploaded
  <2>2. \A p \in Jobs \X Records : p[1] = j => (p \in OnAccount' <=> p[2] \in U) /\ p \notin OnAccount
    BY <1>7, <2>1 DEF Uploading, OnAccount
  <2> HIDE DEF OnAccount, U, E
  <2>3. OnAccount' = OnAccount \cup E /\ OnAccount \cap E = {}
    BY <1>3, <1>4, <1>5, <2>2
  <2>4. Cardinality(OnAccount \cup E) = Cardinality(OnAccount) + Cardinality(E) - Cardinality(OnAccount \cap E)
    BY <1>6, AccountFinite, FS_Union
  <2>5. Cardinality(OnAccount \cap E) = 0
    BY <2>3, FS_EmptySet
  <2> DEFINE a == Cardinality(OnAccount)  b == Cardinality(OnAccount')  c == Cardinality(U)
  <2>6. a \in Nat /\ c \in Nat /\ b = a + c - 0
    BY <1>6, <2>3, <2>4, <2>5, AccountFinite
  <2> HIDE DEF a, b, c
  <2>7. b = a + c
    BY <2>6
  <2> QED
    BY <2>7 DEF a, b, c, U
<1>8. ASSUME job[j].pc = "poll", job'[j].pc # "poll"
      PROVE  Cardinality(OnAccount') = Cardinality(OnAccount) - Cardinality(Uploaded(j))
  <2>1. \A p \in Jobs \X Records : p[1] = j => (p \in OnAccount <=> p[2] \in U) /\ p \notin OnAccount'
    BY <1>8 DEF OnAccount
  <2> HIDE DEF OnAccount, U, E
  <2>2. OnAccount' = OnAccount \ E /\ OnAccount \cap E = E
    BY <1>3, <1>4, <1>5, <2>1
  <2>3. Cardinality(OnAccount \ E) = Cardinality(OnAccount) - Cardinality(OnAccount \cap E)
    BY AccountFinite, FS_Difference
  <2> QED
    BY <1>6, <2>2, <2>3 DEF U
<1>9. ASSUME job[j].pc # "poll", job'[j].pc # "poll"
      PROVE  OnAccount' = OnAccount
  <2>1. \A p \in Jobs \X Records : p[1] = j => p \notin OnAccount /\ p \notin OnAccount'
    BY <1>9 DEF OnAccount
  <2> HIDE DEF OnAccount
  <2> QED
    BY <1>3, <1>5, <2>1
<1> QED
  BY <1>7, <1>8, <1>9 DEF Completing, Claiming, Passing

(* Where no job runs nothing is on account.                                *)
LEMMA NoAccount ==
    /\ (\A j \in Jobs : job[j].pc # "poll") => Cardinality(OnAccount) = 0
    /\ (\A j \in Jobs : job'[j].pc # "poll") => Cardinality(OnAccount') = 0
<1>1. (\A j \in Jobs : job[j].pc # "poll") => OnAccount = {}
  BY DEF OnAccount
<1>2. (\A j \in Jobs : job'[j].pc # "poll") => OnAccount' = {}
  BY DEF OnAccount
<1> QED
  BY <1>1, <1>2, FS_EmptySet

LEMMA LostFinite ==
    /\ IsFiniteSet(Lost) /\ Cardinality(Lost) \in Nat
    /\ IsFiniteSet(Lost') /\ Cardinality(Lost') \in Nat
<1>1. Lost \in SUBSET Records /\ Lost' \in SUBSET Records
  BY DEF Lost
<1> HIDE DEF Lost
<1> QED
  BY <1>1, ZuhalAssumption, FS_Subset, FS_CardinalityType

(* What is lost stays so in a step of a job, and the batch of a job that   *)
(* fails once it is uploaded is added to it.                               *)
LEMMA JobLoses ==
    ASSUME ZuhalInv, NEW j \in Jobs, JobStep(j)
    PROVE  /\ Lost \subseteq Lost'
           /\ job[j].pc = "poll" /\ job'[j].pc = "fail" =>
                Uploaded(j) \subseteq Lost' /\ Lost \cap Uploaded(j) = {}
<1>1. JobMoves(j) /\ JobInv(j) /\ job[j] \in Job
  BY JobStepMoves DEF ZuhalInv, JobsInv, TypeInv
<1>2. /\ Mine(j)' \subseteq Mine(j) \cup Queue
      /\ \A q \in Records \ (Mine(j) \cup Queue) : row'[q].state = row[q].state
  BY <1>1, JobKeepsOwn
<1>3. \A k \in Jobs \ {j} : job'[k] = job[k]
  BY <1>1 DEF JobMoves
<1>4. \A k \in Jobs \ {j} : Mine(k)' = Mine(k) /\ Mine(k) \cap Mine(j) = {}
  BY <1>3 DEF Mine, ZuhalInv, JobsInv
<1>5. ASSUME NEW q \in Records, row[q].state = "VALIDATION_FAILED", \A k \in Jobs : q \notin Mine(k)
      PROVE  q \in Lost'
  <2>1. q \notin Queue /\ q \notin Mine(j)
    BY <1>5 DEF Queue
  <2>2. row'[q].state = "VALIDATION_FAILED" /\ q \notin Mine(j)'
    BY <1>2, <1>5, <2>1
  <2>3. \A k \in Jobs : q \notin Mine(k)'
    BY <1>4, <1>5, <2>2
  <2> QED
    BY <2>2, <2>3 DEF Lost
<1>6. ASSUME NEW q \in Records, job[j].pc = "fail", q \in job[j].todo
      PROVE  q \in Lost'
  <2>1. ASSUME NEW r \in Records, JobWritesRow(j, r) PROVE q \in Lost'
    <3>1. job'[j].pc = "fail" /\ job'[j].todo = job[j].todo \ {r}
      BY <1>6, <2>1 DEF JobWritesRow
    <3>2. CASE q # r
      BY <1>6, <3>1, <3>2 DEF Lost, Doomed
    <3>3. CASE q = r
      <4>1. row'[q].state = "VALIDATION_FAILED"
        BY <1>6, <2>1, <3>3 DEF JobWritesRow
      <4>2. q \in Mine(j) /\ q \notin Mine(j)'
        BY <1>6, <3>1, <3>3 DEF Mine
      <4>3. \A k \in Jobs : q \notin Mine(k)'
        BY <1>4, <4>2
      <4> QED
        BY <4>1, <4>3 DEF Lost
    <3> QED
      BY <3>2, <3>3
  <2>2. ~JobClaims(j) /\ ~JobPasses(j)
    BY <1>6 DEF JobClaims, JobPasses
  <2> QED
    BY <1>1, <2>1, <2>2 DEF JobMoves
<1>7. ASSUME NEW q \in Records, NEW k \in Jobs \ {j}, job[k].pc = "fail", q \in job[k].todo
      PROVE  q \in Lost'
  BY <1>3, <1>7 DEF Lost, Doomed
<1>8. Lost \subseteq Lost'
  BY <1>5, <1>6, <1>7 DEF Lost, Doomed
<1>9. ASSUME job[j].pc = "poll", job'[j].pc = "fail"
      PROVE  Uploaded(j) \subseteq Lost' /\ Lost \cap Uploaded(j) = {}
  <2>1. Uploaded(j) \subseteq job[j].rows /\ job[j].rows \subseteq Records
    BY <1>1 DEF Uploaded, Job
  <2>2. job'[j].todo = job[j].rows
    BY <1>1, <1>9 DEF JobMoves, JobPasses, JobClaims, JobWritesRow
  <2>3. Mine(j) = job[j].rows
    BY <1>9 DEF Mine
  <2>4. Uploaded(j) \subseteq Lost'
    BY <1>9, <2>1, <2>2 DEF Lost, Doomed
  <2>5. ASSUME NEW q \in Lost, q \in Mine(j) PROVE FALSE
    <3>1. PICK k \in Jobs : job[k].pc = "fail" /\ q \in job[k].todo
      BY <2>5 DEF Lost, Doomed
    <3>2. k # j /\ q \in Mine(k)
      BY <1>9, <3>1 DEF Mine
    <3> QED
      BY <1>4, <2>5, <3>2
  <2> QED
    BY <2>1, <2>3, <2>4, <2>5
<1> QED
  BY <1>8, <1>9

(* Where the jobs have no rows, a row that stays failed stays lost.        *)
LEMMA StaysLost ==
    ASSUME \A q \in Records : row[q].state = "VALIDATION_FAILED" => row'[q].state = "VALIDATION_FAILED",
           \/ UNCHANGED job
           \/ \A j \in Jobs : Mine(j) = {} /\ Mine(j)' = {}
    PROVE  Cardinality(Lost) <= Cardinality(Lost')
<1>1. CASE UNCHANGED job
  <2>1. \A j \in Jobs : Mine(j)' = Mine(j)
    BY <1>1 DEF Mine
  <2>2. Lost \subseteq Lost'
    BY <1>1, <2>1 DEF Lost, Doomed
  <2> HIDE DEF Lost
  <2> QED
    BY <2>2, LostFinite, FS_Subset
<1>2. CASE \A j \in Jobs : Mine(j) = {} /\ Mine(j)' = {}
  <2>1. \A r \in Records : ~Doomed(r)
    BY <1>2 DEF Doomed, Mine
  <2>2. Lost \subseteq Lost'
    BY <1>2, <2>1 DEF Lost
  <2> HIDE DEF Lost
  <2> QED
    BY <2>2, LostFinite, FS_Subset
<1> QED
  BY <1>1, <1>2

(* How a step of a job moves what is owed, and the rows behind it.         *)
LEMMA JobAccount ==
    ASSUME ZuhalInv, AccountInv, NEW j \in Jobs, JobStep(j)
    PROVE  AccountInv'
<1>1. job[j].rows \subseteq Records /\ mode' = mode /\ mode = "bulk"
  BY JobMoney DEF ZuhalInv, TypeInv, Job, JobMoves, loop
<1>2. /\ \A k \in Jobs \ {j} : job'[k] = job[k]
      /\ Uploading(j) \/ Completing(j) \/ Claiming(j) \/ Passing(j)
  BY JobMoney
<1> DEFINE a == Cardinality(OnAccount)  b == Cardinality(OnAccount')
           l == Cardinality(Lost)       m == Cardinality(Lost')
           n == Cardinality(Uploaded(j))  u == uncharged'
<1>3. Uploaded(j) \in SUBSET Records
  BY <1>1 DEF Uploaded
<1>4. a \in Nat /\ b \in Nat /\ l \in Nat /\ m \in Nat /\ n \in Nat
  BY <1>3, BatchCount, AccountFinite, LostFinite
<1>5. l <= m
  <2>1. Lost \in SUBSET Lost'
    BY JobLoses
  <2> HIDE DEF Lost
  <2> QED
    BY <2>1, LostFinite, FS_Subset
<1>6. \/ u = uncharged + n /\ b = a + n
      \/ u = uncharged - n /\ b = a - n
      \/ u = uncharged /\ b = a
      \/ u = uncharged /\ b = a - n /\ m >= l + n
  <2>1. CASE Uploading(j)
    BY <1>1, <1>2, <2>1, AccountMoves DEF Uploading
  <2>2. CASE Completing(j)
    BY <1>1, <1>2, <2>2, AccountMoves DEF Completing
  <2>3. CASE Claiming(j)
    BY <1>1, <1>2, <2>3, AccountMoves DEF Claiming, costs
  <2>4. CASE Passing(j) /\ job[j].pc # "poll"
    BY <1>1, <1>2, <2>4, AccountMoves DEF Passing, costs
  <2>5. CASE Passing(j) /\ job[j].pc = "poll"
    <3>1. u = uncharged /\ b = a - n
      BY <1>1, <1>2, <2>5, AccountMoves DEF Passing, costs
    <3>2. job'[j].pc = "fail"
      BY <2>5 DEF Passing
    <3>3. Lost \cup Uploaded(j) \subseteq Lost' /\ Lost \cap Uploaded(j) = {}
      BY <2>5, <3>2, JobLoses
    <3>4. m >= l + n
      <4> DEFINE V == Uploaded(j)
      <4>1. IsFiniteSet(V) /\ Cardinality(V) \in Nat
        BY <1>3, BatchCount
      <4> HIDE DEF Lost, V
      <4>2. Cardinality(Lost \cup V) = Cardinality(Lost) + Cardinality(V) - Cardinality(Lost \cap V)
        BY <4>1, LostFinite, FS_Union
      <4>3. Cardinality(Lost \cap V) = 0
        BY <3>3, FS_EmptySet DEF V
      <4>4. Cardinality(Lost \cup V) <= Cardinality(Lost')
        BY <3>3, LostFinite, FS_Subset DEF V
      <4> DEFINE w == Cardinality(Lost \cup V)  c == Cardinality(V)
      <4>5. c \in Nat /\ w = l + c - 0 /\ w <= m /\ l \in Nat /\ m \in Nat
        BY <1>4, <4>1, <4>2, <4>3, <4>4
      <4> HIDE DEF w, c, l, m
      <4>6. m >= l + c
        BY <4>5
      <4> QED
        BY <4>6 DEF c, V
    <3> QED
      BY <3>1, <3>4
  <2> QED
    BY <1>2, <2>1, <2>2, <2>3, <2>4, <2>5
<1>7. uncharged \in Nat /\ a <= uncharged /\ uncharged <= a + l
  BY <1>1 DEF AccountInv
<1> HIDE DEF a, b, l, m, n, u
<1>8. u \in Nat /\ b <= u /\ u <= b + m
  BY <1>4, <1>5, <1>6, <1>7
<1> QED
  BY <1>8 DEF AccountInv, b, m, u

(* A step that leaves the account alone, and every failed row failed.      *)
LEMMA AccountKept ==
    ASSUME AccountInv, uncharged' = uncharged, mode = "down" => mode' = "down",
           OnAccount' = OnAccount, mode' # "down" => Cardinality(Lost) <= Cardinality(Lost')
    PROVE  AccountInv'
<1> DEFINE a == Cardinality(OnAccount)  l == Cardinality(Lost)  m == Cardinality(Lost')  u == uncharged'
<1>1. a \in Nat /\ l \in Nat /\ m \in Nat
  BY AccountFinite, LostFinite
<1>2. u \in Nat /\ a <= u /\ (mode' # "down" => u <= a + l /\ l <= m)
  BY DEF AccountInv
<1>3. Cardinality(OnAccount') = a
  OBVIOUS
<1> HIDE DEF a, l, m, u
<1>4. u \in Nat /\ a <= u /\ (mode' # "down" => u <= a + m)
  BY <1>1, <1>2
<1> QED
  BY <1>3, <1>4 DEF AccountInv, m, u

LEMMA AccountInductive == ZuhalInv /\ AccountInv /\ [Next]_vars => AccountInv'
<1> SUFFICES ASSUME ZuhalInv, AccountInv, [Next]_vars PROVE AccountInv'
  OBVIOUS
<1>1. ASSUME UNCHANGED <<uncharged, job>>, mode = "down" => mode' = "down",
             \A q \in Records : row[q].state = "VALIDATION_FAILED" => row'[q].state = "VALIDATION_FAILED"
      PROVE  AccountInv'
  <2>1. OnAccount' = OnAccount
    BY <1>1 DEF OnAccount, Uploaded
  <2>2. Cardinality(Lost) <= Cardinality(Lost')
    BY <1>1, StaysLost
  <2> HIDE DEF OnAccount, Lost
  <2> QED
    BY <1>1, <2>1, <2>2, AccountKept
<1>2. ASSUME NEW r \in Records, TaskStep(r) PROVE AccountInv'
  <2>1. TaskOutcome(r) /\ row[r].state = ZV
    BY <1>2, TaskStepOutcome DEF ZuhalInv, TaskOutcome, TasksInv
  <2>2. UNCHANGED uncharged
    BY <1>2 DEF TaskStep, Begin, Lookup, Answered, CreditsOut, requeue_or_give_up, Halt, Store, Apply, costs
  <2> QED
    BY <1>1, <2>1, <2>2 DEF TaskOutcome, loop, ZV
<1>3. CASE LoopStep
  <2>1. uncharged' = uncharged /\ mode # "down" /\ mode' # "down"
    BY <1>3 DEF LoopStep, StopSeen, ChooseMode, BulkGathered, NothingToClaim, CheckPending, Gathered,
               Claim, LoopOnly, costs
  <2>2. \A q \in Records : row[q].state = "VALIDATION_FAILED" => row'[q].state = "VALIDATION_FAILED"
    <3>1. CASE row' = row
      BY <3>1
    <3>2. ASSUME NEW c \in SUBSET Queue, row' = claimed(c)
          PROVE  \A q \in Records : row[q].state = "VALIDATION_FAILED" => row'[q].state = "VALIDATION_FAILED"
      BY <3>2 DEF claimed, Queue
    <3> QED
      BY <1>3, <3>1, <3>2, LoopRows
  <2>3. CASE UNCHANGED job
    BY <1>1, <2>1, <2>2, <2>3
  <2>4. ASSUME \A j \in Jobs : job[j].pc \in {"none", "done"} /\ job'[j].pc \in {"none", "claim"} /\ job'[j].todo = {}
        PROVE  AccountInv'
    <3>1. \A j \in Jobs : Mine(j) = {} /\ Mine(j)' = {}
      BY <2>4 DEF Mine, ZuhalInv, JobsInv, JobInv
    <3>2. OnAccount = {} /\ OnAccount' = {}
      BY <2>4 DEF OnAccount
    <3>3. Cardinality(Lost) <= Cardinality(Lost')
      BY <2>2, <3>1, StaysLost
    <3> HIDE DEF OnAccount, Lost
    <3> QED
      BY <2>1, <3>2, <3>3, AccountKept
  <2>5. CASE ChooseMode /\ job' # job
    <3>1. \A j \in Jobs : job[j].pc = "none"
      BY <2>5, QuietModes DEF ChooseMode
    <3>2. \A j \in Jobs : job'[j].pc = "claim" /\ job'[j].todo = {}
      BY <2>5 DEF ChooseMode, NoJob
    <3> QED
      BY <2>4, <3>1, <3>2
  <2>6. CASE BulkGathered
    <3>1. \A j \in Jobs : job[j].pc = "done"
      BY <2>6 DEF BulkGathered
    <3>2. \A j \in Jobs : job'[j].pc = "none" /\ job'[j].todo = {}
      BY <2>6 DEF BulkGathered, NoJob
    <3> QED
      BY <2>4, <3>1, <3>2
  <2> QED
    BY <1>3, <2>3, <2>5, <2>6 DEF LoopStep, StopSeen, NothingToClaim, CheckPending, Gathered, Claim
<1>4. CASE Environment
  <2>1. CASE Start
    <3>1. \A j \in Jobs : job'[j].pc # "poll"
      BY <2>1, QuietModes DEF Start, running
    <3>2. uncharged' = 0 /\ Cardinality(OnAccount') = 0
      BY <2>1, <3>1, NoAccount DEF Start
    <3> DEFINE m == Cardinality(Lost')
    <3>3. m \in Nat
      BY LostFinite
    <3> HIDE DEF m
    <3>4. 0 <= 0 + m
      BY <3>3
    <3> QED
      BY <3>2, <3>4 DEF AccountInv, m
  <2>2. CASE Crash
    <3>1. \A j \in Jobs : job'[j].pc # "poll"
      BY <2>2 DEF Crash, NoJob
    <3> QED
      BY <2>2, <3>1, NoAccount DEF AccountInv, Crash, costs
  <2>3. CASE SmtpEnds \/ Stop
    BY <1>1, <2>3 DEF SmtpEnds, Stop, EnvFrame, loop, costs
  <2>4. ASSUME NEW r \in Records, SmtpStage(r) PROVE AccountInv'
    <3>1. SmtpMoves(r) /\ uncharged' = uncharged
      BY <2>4, SmtpStageMoves DEF ZuhalInv, SmtpStage, EnvFrame, costs
    <3>2. \A q \in Records : row[q].state = "VALIDATION_FAILED" => row'[q].state = "VALIDATION_FAILED"
      BY <3>1 DEF SmtpMoves
    <3> QED
      BY <1>1, <3>1, <3>2 DEF SmtpMoves, loop
  <2>5. ASSUME NEW r \in Records, GrowsStale(r) PROVE AccountInv'
    <3>1. /\ UNCHANGED <<task, job, loop, flags, uncharged>>
          /\ \A q \in Records : row'[q].state = row[q].state
      BY <2>5, StaleRows DEF ZuhalInv, GrowsStale, EnvFrame, costs
    <3> QED
      BY <1>1, <3>1 DEF loop
  <2> QED
    BY <1>4, <2>1, <2>2, <2>3, <2>4, <2>5 DEF Environment
<1>5. CASE UNCHANGED vars
  BY <1>1, <1>5 DEF vars, costs, loop
<1> QED
  BY <1>2, <1>3, <1>4, <1>5, JobAccount DEF Next

LEMMA AccountInitially == Init => AccountInv
<1> SUFFICES ASSUME Init PROVE AccountInv
  OBVIOUS
<1>1. \A j \in Jobs : job[j].pc # "poll"
  BY DEF Init, NoJob
<1> DEFINE l == Cardinality(Lost)
<1>2. l \in Nat
  BY LostFinite
<1>3. uncharged = 0 /\ Cardinality(OnAccount) = 0
  BY <1>1, NoAccount DEF Init
<1> HIDE DEF l
<1>4. 0 <= 0 + l
  BY <1>2
<1> QED
  BY <1>3, <1>4 DEF AccountInv, l

(* TypeOK (zuhal_dispatcher.py, Config): for any settings, no counter      *)
(* leaves its range, no free requeue passes its cap, and no more is        *)
(* charged than Zuhal has taken.                                           *)
THEOREM TypesTheorem == Spec => []TypeOK
<1>1. ZuhalInv /\ CountersInv /\ AccountInv => TypeOK
  BY DEF ZuhalInv, TypeInv, CountersInv, AccountInv, TypeOK
<1> QED
  BY <1>1, AccountInitially, CountersInitially, CountersInductive, AccountInductive, InvariantHolds,
     PTL DEF Spec

(* CreditsLostAreWrittenOff (ZuhalDispatcher._drain_bulk): whatever jobs,  *)
(* batches, duplicates, races and restarts there are, and however the jobs *)
(* end, each credit the tracker has not seen when the loop goes round      *)
(* belongs to a row of its own that is written off.                        *)
THEOREM CreditsTheorem == Spec => []CreditsLostAreWrittenOff
<1>1. ZuhalInv /\ AccountInv => CreditsLostAreWrittenOff
  <2> SUFFICES ASSUME ZuhalInv, AccountInv, mode = "top"
               PROVE  uncharged <= Cardinality(WrittenOff)
    BY DEF CreditsLostAreWrittenOff
  <2>1. \A j \in Jobs : job[j].pc = "none" /\ Mine(j) = {}
    BY QuietModes
  <2>2. Lost = WrittenOff
    BY <2>1 DEF Lost, Doomed, WrittenOff
  <2>3. Cardinality(OnAccount) = 0
    BY <2>1, NoAccount
  <2> DEFINE l == Cardinality(Lost)
  <2>4. l \in Nat /\ uncharged <= 0 + l
    BY <2>3, LostFinite DEF AccountInv
  <2> HIDE DEF l
  <2>5. uncharged <= l
    <3>1. uncharged \in Nat
      BY DEF AccountInv
    <3> QED
      BY <2>4, <3>1
  <2> QED
    BY <2>2, <2>5 DEF l
<1> QED
  BY <1>1, AccountInitially, AccountInductive, InvariantHolds, PTL DEF Spec

-----------------------------------------------------------------------------
(* The ceiling                                                             *)

LEMMA Times ==
    ASSUME NEW m \in Nat, NEW n \in Nat, NEW c \in Nat
    PROVE  /\ m * c \in Nat
           /\ m <= n => m * c <= n * c
           /\ (m + 1) * c = m * c + c
OBVIOUS

LEMMA RoundFacts ==
    /\ Cardinality(Jobs) \in Nat /\ Cardinality(Jobs) * BatchSize \in Nat
    /\ Round \in Nat /\ Round >= 1 /\ Round >= MaxWidth
    /\ Round >= Cardinality(Jobs) * BatchSize
<1>1. Cardinality(Jobs) \in Nat /\ BatchSize \in Nat /\ MaxWidth \in Nat /\ MaxWidth >= 1
  <2>1. Width \in MinWidth .. MaxWidth /\ MinWidth >= 1 /\ MinWidth \in Nat /\ MaxWidth \in Nat
    BY Settings
  <2> QED
    BY <2>1, Settings, FS_CardinalityType
<1>2. Cardinality(Jobs) * BatchSize \in Nat
  BY <1>1, Times
<1> DEFINE b == Cardinality(Jobs) * BatchSize
<1>3. Round = IF b > MaxWidth THEN b ELSE MaxWidth
  BY DEF Round
<1> HIDE DEF b
<1>4. b \in Nat
  BY <1>2 DEF b
<1>5. Round \in Nat /\ Round >= 1 /\ Round >= MaxWidth /\ Round >= b
  BY <1>1, <1>3, <1>4
<1> QED
  BY <1>1, <1>2, <1>5 DEF b

LEMMA SpendersFinite ==
    /\ IsFiniteSet(Committed) /\ Cardinality(Committed) \in Nat /\ Cardinality(Committed) <= Cardinality(Jobs)
    /\ IsFiniteSet(Committed') /\ Cardinality(Committed') \in Nat
    /\ Cardinality(Committed') <= Cardinality(Jobs)
    /\ IsFiniteSet(Paying) /\ Cardinality(Paying) \in Nat
    /\ IsFiniteSet(Paying') /\ Cardinality(Paying') \in Nat
<1>1. Committed \in SUBSET Jobs /\ Committed' \in SUBSET Jobs
  BY DEF Committed
<1>2. Paying \in SUBSET Records /\ Paying' \in SUBSET Records
  BY DEF Paying
<1> HIDE DEF Committed, Paying
<1> QED
  BY <1>1, <1>2, Settings, FS_Subset, FS_CardinalityType

(* A step after which nobody more may still spend.                         *)
LEMMA NoMoreSpenders ==
    ASSUME SpendInv, spent \in Nat, spent' \in Nat, spent' <= spent,
           Committed' \subseteq Committed, Paying' \subseteq Paying,
           \A j \in Jobs : Cardinality(job'[j].rows) <= BatchSize
    PROVE  SpendInv'
<1> DEFINE m == Cardinality(Committed')  n == Cardinality(Committed)  p == Cardinality(Paying')
           q == Cardinality(Paying)  s == spent'
<1>1. m <= n /\ p <= q /\ m \in Nat /\ n \in Nat /\ p \in Nat /\ q \in Nat
  <2>1. Committed' \in SUBSET Committed /\ Paying' \in SUBSET Paying
    OBVIOUS
  <2> HIDE DEF Committed, Paying
  <2> QED
    BY <2>1, SpendersFinite, FS_Subset
<1>2. /\ BatchSize \in Nat /\ Ceiling \in Nat /\ Round \in Nat /\ s \in Nat /\ s <= spent
      /\ spent + n * BatchSize + q < Ceiling + Round
  BY Settings, RoundFacts DEF SpendInv
<1> HIDE DEF m, n, p, q, s
<1>3. m * BatchSize \in Nat /\ n * BatchSize \in Nat /\ m * BatchSize <= n * BatchSize
  BY <1>1, <1>2, Times
<1> DEFINE x == m * BatchSize  y == n * BatchSize
<1>4. x \in Nat /\ y \in Nat /\ x <= y /\ spent + y + q < Ceiling + Round
  BY <1>2, <1>3
<1> HIDE DEF x, y
<1>5. s + x + p < Ceiling + Round
  BY <1>1, <1>2, <1>4
<1> QED
  BY <1>5 DEF SpendInv, m, p, s, x

LEMMA JobSpends ==
    ASSUME ZuhalInv, CountersInv, CountersInv', SpendInv, NEW j \in Jobs, JobStep(j)
    PROVE  SpendInv'
<1>0. /\ mode = "bulk" /\ UNCHANGED task /\ \A k \in Jobs \ {j} : job'[k] = job[k]
      /\ job[j].rows \subseteq Records /\ job[j].owners \subseteq Records
  BY JobMoney DEF JobMoves, ZuhalInv, TypeInv, Job
<1>1. Paying = {} /\ Paying' = {}
  BY <1>0, QuietModes DEF Paying
<1>2. \A k \in Jobs : Cardinality(job[k].rows) <= BatchSize
  BY DEF SpendInv
<1>3. \A k \in Jobs \ {j} : (k \in Committed') = (k \in Committed)
  BY <1>0 DEF Committed
<1>4. Committed \subseteq Jobs /\ Committed' \subseteq Jobs
  BY DEF Committed
<1>5. spent \in Nat /\ spent' \in Nat
  BY DEF CountersInv
<1>6. CASE Uploading(j) \/ Passing(j)
  <2>1. spent' = spent /\ job'[j].rows = job[j].rows /\ (j \in Committed' => j \in Committed)
    BY <1>6 DEF Uploading, Passing, Committed, Working, costs
  <2>2. \A k \in Jobs : Cardinality(job'[k].rows) <= BatchSize
    BY <1>0, <1>2, <2>1
  <2>3. Committed' \subseteq Committed
    <3> HIDE DEF Committed
    <3> QED
      BY <1>3, <1>4, <2>1
  <2> QED
    BY <1>1, <1>5, <2>1, <2>2, <2>3, NoMoreSpenders
<1>7. CASE Claiming(j)
  <2> DEFINE m == Cardinality(Committed')  n == Cardinality(Jobs)
  <2>1. /\ m \in Nat /\ n \in Nat /\ m <= n /\ BatchSize \in Nat /\ Ceiling \in Nat
        /\ spent' = spent /\ spent < Ceiling
    BY <1>5, <1>7, SpendersFinite, RoundFacts, Settings DEF Claiming, ceiling_reached, costs
  <2>2. \A k \in Jobs : Cardinality(job'[k].rows) <= BatchSize
    BY <1>0, <1>2, <1>7 DEF Claiming
  <2>3. n * BatchSize \in Nat /\ n * BatchSize <= Round /\ Round \in Nat
    BY RoundFacts
  <2>4. Cardinality(Paying') = 0
    BY <1>1, FS_EmptySet
  <2> HIDE DEF m, n
  <2>5. m * BatchSize \in Nat /\ m * BatchSize <= n * BatchSize
    BY <2>1, Times
  <2> DEFINE x == m * BatchSize  y == n * BatchSize
  <2>6. x \in Nat /\ y \in Nat /\ x <= y /\ y <= Round
    BY <2>3, <2>5
  <2> HIDE DEF x, y
  <2>7. spent + x + 0 < Ceiling + Round
    BY <1>5, <2>1, <2>3, <2>6
  <2> QED
    BY <2>1, <2>2, <2>4, <2>7 DEF SpendInv, m, x
<1>8. CASE Completing(j)
  <2> DEFINE m == Cardinality(Committed')  n == Cardinality(Committed)  u == Cardinality(Uploaded(j))
             s == spent'
  <2>1. u \in Nat /\ u <= BatchSize
    <3>1. Uploaded(j) \in SUBSET job[j].rows /\ IsFiniteSet(job[j].rows)
      BY <1>0, BatchCount DEF Uploaded
    <3>2. Cardinality(Uploaded(j)) <= Cardinality(job[j].rows) /\ Cardinality(job[j].rows) <= BatchSize
      BY <1>2, <3>1, FS_Subset
    <3>3. Cardinality(Uploaded(j)) \in Nat /\ Cardinality(job[j].rows) \in Nat
      BY <1>0, <3>1, BatchCount
    <3> QED
      BY <3>2, <3>3, Settings
  <2>2. j \in Committed /\ j \notin Committed' /\ s = spent + u /\ job'[j].rows = job[j].rows
    BY <1>8 DEF Completing, Committed, Working
  <2>3. Committed' = Committed \ {j}
    <3> HIDE DEF Committed
    <3> QED
      BY <1>3, <1>4, <2>2
  <2>4. n = m + 1 /\ m \in Nat /\ n \in Nat
    <3>1. Cardinality(Committed \ {j}) = Cardinality(Committed) - 1
      BY <2>2, SpendersFinite, FS_RemoveElement
    <3> HIDE DEF Committed
    <3> QED
      BY <2>3, <3>1, SpendersFinite
  <2>5. Cardinality(Paying) = 0 /\ Cardinality(Paying') = 0
    BY <1>1, FS_EmptySet
  <2>6. \A k \in Jobs : Cardinality(job'[k].rows) <= BatchSize
    BY <1>0, <1>2, <2>2
  <2>7. BatchSize \in Nat /\ Ceiling \in Nat /\ Round \in Nat
        /\ spent + n * BatchSize + 0 < Ceiling + Round
    BY <2>5, Settings, RoundFacts DEF SpendInv
  <2> HIDE DEF m, n, u, s
  <2>8. n * BatchSize = m * BatchSize + BatchSize /\ m * BatchSize \in Nat
    BY <2>4, <2>7, Times
  <2> DEFINE x == m * BatchSize
  <2>9. x \in Nat /\ spent + (x + BatchSize) + 0 < Ceiling + Round
    BY <2>7, <2>8
  <2> HIDE DEF x
  <2>10. s + x + 0 < Ceiling + Round
    BY <1>5, <2>1, <2>2, <2>7, <2>9
  <2> QED
    BY <2>5, <2>6, <2>10 DEF SpendInv, m, s, x
<1> QED
  BY <1>6, <1>7, <1>8, JobMoney

LEMMA TaskSpends ==
    ASSUME ZuhalInv, CountersInv, CountersInv', SpendInv, NEW r \in Records, TaskStep(r)
    PROVE  SpendInv'
<1>0. /\ TaskOutcome(r) /\ mode = "gather" /\ UNCHANGED job
      /\ \A q \in Records \ {r} : task'[q] = task[q]
  BY TaskStepOutcome DEF ZuhalInv, TasksInv, TaskOutcome
<1>1. Committed = {} /\ Committed' = {}
  BY <1>0, QuietModes DEF Committed, Working
<1>2. \A k \in Jobs : Cardinality(job'[k].rows) <= BatchSize
  BY <1>0 DEF SpendInv
<1>3. \A q \in Records \ {r} : (q \in Paying') = (q \in Paying)
  BY <1>0 DEF Paying
<1>4. spent \in Nat /\ spent' \in Nat /\ task \in [Records -> Task]
  BY DEF CountersInv, ZuhalInv, TypeInv
<1>5. Paying \subseteq Records /\ Paying' \subseteq Records
  BY DEF Paying
<1>6. ASSUME spent' = spent, task'[r].pc \in {"lookup", "ask"} => task[r].pc \in {"lookup", "ask"}
      PROVE  SpendInv'
  <2>1. Paying' \subseteq Paying
    <3>1. r \in Paying' => r \in Paying
      BY <1>6 DEF Paying
    <3> HIDE DEF Paying
    <3> QED
      BY <1>3, <1>5, <3>1
  <2> QED
    BY <1>1, <1>2, <1>4, <1>6, <2>1, NoMoreSpenders
<1>7. CASE Begin(r)
  <2>1. spent' = spent /\ Cardinality(Active) < width
    BY <1>7 DEF Begin, costs
  <2>2. CASE ~stop /\ ~ceiling_reached
    <3>1. spent < Ceiling /\ width <= MaxWidth /\ width \in Nat /\ MaxWidth \in Nat /\ Ceiling \in Nat
      <4>1. MinWidth \in Nat /\ MaxWidth \in Nat /\ Ceiling \in Nat
        BY Settings
      <4>2. width \in MinWidth .. MaxWidth
        BY DEF CountersInv
      <4> QED
        BY <1>4, <2>2, <4>1, <4>2 DEF ceiling_reached
    <3>2. Active \in SUBSET Records /\ Paying' \in SUBSET (Active \cup {r})
      <4>1. \A q \in Paying' : q # r => q \in Active
        BY <1>0 DEF Paying, Active
      <4> QED
        BY <4>1 DEF Active
    <3> DEFINE a == Cardinality(Active)  p == Cardinality(Paying')
    <3>3. a \in Nat /\ p \in Nat /\ p <= a + 1
      <4>1. IsFiniteSet(Active) /\ a \in Nat
        BY <3>2, BatchCount
      <4>2. IsFiniteSet(Active \cup {r}) /\ Cardinality(Active \cup {r}) \in Nat
            /\ (Cardinality(Active \cup {r}) = a \/ Cardinality(Active \cup {r}) = a + 1)
        BY <4>1, FS_AddElement, FS_CardinalityType
      <4>3. p <= Cardinality(Active \cup {r}) /\ p \in Nat
        BY <3>2, <4>2, FS_Subset, SpendersFinite
      <4> HIDE DEF a, p
      <4> QED
        BY <4>1, <4>2, <4>3 DEF a
    <3>4. Cardinality(Committed') * BatchSize = 0
      <4>1. Cardinality(Committed') = 0
        BY <1>1, FS_EmptySet
      <4>2. BatchSize \in Nat
        BY Settings
      <4> HIDE DEF Committed
      <4> QED
        BY <4>1, <4>2
    <3>5. a < width /\ Round \in Nat /\ Round >= MaxWidth
      BY <2>1, RoundFacts
    <3> HIDE DEF a, p
    <3>6. spent + 0 + p < Ceiling + Round
      BY <1>4, <3>1, <3>3, <3>5
    <3> QED
      BY <1>2, <2>1, <3>4, <3>6 DEF SpendInv, p
  <2>3. CASE stop \/ ceiling_reached
    <3>1. task'[r].pc = "idle"
      <4>1. \/ Go(r, "idle")
            \/ Finish(r, update_record_status(row[r], "COST_SKIPPED"))
        BY <1>7, <2>3 DEF Begin
      <4> QED
        BY <1>4, <4>1 DEF Go, Finish, Idle, Task
    <3> QED
      BY <1>6, <2>1, <3>1
  <2> QED
    BY <2>2, <2>3
<1>8. CASE Answered(r)
  <2>1. spent' = spent + 1 /\ task[r].pc = "ask" /\ task'[r].pc \in {"store", "apply"}
    BY <1>4, <1>8 DEF Answered
  <2>2. r \in Paying /\ r \notin Paying'
    BY <2>1 DEF Paying
  <2>3. Paying' = Paying \ {r}
    <3> HIDE DEF Paying
    <3> QED
      BY <1>3, <1>5, <2>2
  <2> DEFINE p == Cardinality(Paying)  q == Cardinality(Paying')  s == spent'
             x == Cardinality(Committed) * BatchSize
  <2>4. p = q + 1 /\ p \in Nat /\ q \in Nat
    <3>1. Cardinality(Paying \ {r}) = Cardinality(Paying) - 1
      BY <2>2, SpendersFinite, FS_RemoveElement
    <3> HIDE DEF Paying
    <3> QED
      BY <2>3, <3>1, SpendersFinite
  <2>5. /\ x \in Nat /\ Ceiling \in Nat /\ Round \in Nat /\ s = spent + 1
        /\ spent + x + p < Ceiling + Round
    BY <2>1, Settings, RoundFacts, SpendersFinite, Times DEF SpendInv
  <2> HIDE DEF p, q, s, x
  <2>6. s + x + q < Ceiling + Round
    BY <1>4, <2>4, <2>5
  <2>7. Cardinality(Committed') = Cardinality(Committed)
    BY <1>1
  <2> QED
    BY <1>2, <2>6, <2>7 DEF SpendInv, q, s, x
<1>9. CASE Lookup(r)
  BY <1>6, <1>9 DEF Lookup, costs
<1>10. CASE CreditsOut(r) \/ requeue_or_give_up(r) \/ Halt(r)
  BY <1>6, <1>10 DEF CreditsOut, requeue_or_give_up, Halt, costs
<1>11. CASE Store(r) \/ Apply(r)
  <2>1. spent' = spent
    BY <1>11 DEF Store, Apply, costs
  <2>2. task'[r].pc \in {"apply", "idle"}
    BY <1>4, <1>11 DEF Store, Apply, Go, Finish, Idle, Task
  <2> QED
    BY <1>6, <2>1, <2>2
<1> QED
  BY <1>7, <1>8, <1>9, <1>10, <1>11 DEF TaskStep

LEMMA SpendInductive ==
    ZuhalInv /\ CountersInv /\ CountersInv' /\ SpendInv /\ [Next]_vars => SpendInv'
<1> SUFFICES ASSUME ZuhalInv, CountersInv, CountersInv', SpendInv, [Next]_vars PROVE SpendInv'
  OBVIOUS
<1>0. /\ spent \in Nat /\ spent' \in Nat /\ \A j \in Jobs : Cardinality(job[j].rows) <= BatchSize
      /\ NoJob.rows = {} /\ Cardinality({}) <= BatchSize
  <2>1. Cardinality({}) = 0
    BY FS_EmptySet
  <2> QED
    BY <2>1, Settings DEF CountersInv, SpendInv, NoJob
<1>1. ASSUME UNCHANGED <<spent, job>>, \A r \in Records : task'[r].pc \in {"lookup", "ask"} => task'[r] = task[r]
      PROVE  SpendInv'
  <2>1. Committed' = Committed /\ Paying' \subseteq Paying /\ spent' <= spent
    BY <1>0, <1>1 DEF Committed, Paying
  <2> QED
    BY <1>0, <1>1, <2>1, NoMoreSpenders
<1>2. ASSUME spent' = spent, UNCHANGED task,
             \A j \in Jobs : job'[j].pc \notin Working /\ job'[j].rows = {}
      PROVE  SpendInv'
  <2>1. Committed' = {} /\ Paying' = Paying /\ spent' <= spent
    BY <1>0, <1>2 DEF Committed, Paying
  <2> QED
    BY <1>0, <1>2, <2>1, NoMoreSpenders
<1>3. CASE LoopStep
  <2>1. spent' = spent
    BY <1>3 DEF LoopStep, StopSeen, ChooseMode, BulkGathered, NothingToClaim, CheckPending, Gathered,
               Claim, LoopOnly, costs
  <2>2. CASE BulkGathered \/ (ChooseMode /\ job' # job)
    <3>1. UNCHANGED task
      BY <2>2 DEF BulkGathered, ChooseMode
    <3>2. \A j \in Jobs : job'[j].pc \notin Working /\ job'[j].rows = {}
      BY <2>2 DEF BulkGathered, ChooseMode, NoJob, Working
    <3> QED
      BY <1>2, <2>1, <3>1, <3>2
  <2>3. ASSUME NEW b \in SUBSET Records, Claim(b) PROVE SpendInv'
    <3>1. /\ UNCHANGED job
          /\ task' = [r \in Records |-> IF r \in b THEN [Idle EXCEPT !.pc = "queued"] ELSE task[r]]
      BY <2>3 DEF Claim
    <3>2. \A r \in Records : task'[r].pc \in {"lookup", "ask"} => task'[r] = task[r]
      BY <3>1 DEF Idle
    <3> QED
      BY <1>1, <2>1, <3>1, <3>2
  <2>4. CASE UNCHANGED <<task, job>>
    BY <1>1, <2>1, <2>4
  <2> QED
    BY <1>3, <2>2, <2>3, <2>4 DEF LoopStep, StopSeen, ChooseMode, NothingToClaim, CheckPending, Gathered
<1>4. CASE Start
  <2>1. mode # "gather" /\ mode # "bulk" /\ UNCHANGED <<task, job>> /\ spent' = 0
    BY <1>4 DEF Start, running
  <2>2. Committed' = {} /\ Paying' = {}
    BY <2>1, QuietModes DEF Committed, Paying, Working
  <2>3. Cardinality(Committed') = 0 /\ Cardinality(Paying') = 0
    BY <2>2, FS_EmptySet
  <2>4. 0 + 0 * BatchSize + 0 < Ceiling + Round
    BY Settings, RoundFacts
  <2> QED
    BY <1>0, <2>1, <2>3, <2>4 DEF SpendInv
<1>5. CASE Crash
  <2>1. spent' = spent /\ task' = [r \in Records |-> Idle] /\ job' = [j \in Jobs |-> NoJob]
    BY <1>5 DEF Crash, costs
  <2>2. Committed' = {} /\ Paying' = {} /\ \A j \in Jobs : job'[j].rows = {}
    BY <2>1 DEF Committed, Paying, Idle, NoJob, Working
  <2> HIDE DEF Committed, Paying
  <2>3. Committed' \subseteq Committed /\ Paying' \subseteq Paying
    BY <2>2
  <2>4. \A j \in Jobs : Cardinality(job'[j].rows) <= BatchSize
    BY <1>0, <2>2
  <2>5. spent' <= spent
    BY <1>0, <2>1
  <2> QED
    BY <1>0, <2>3, <2>4, <2>5, NoMoreSpenders
<1>6. CASE Environment /\ ~Start /\ ~Crash
  <2>1. UNCHANGED <<spent, job, task>>
    BY <1>6 DEF Environment, SmtpEnds, Stop, SmtpStage, GrowsStale, EnvFrame, costs
  <2> QED
    BY <1>1, <2>1
<1>7. CASE UNCHANGED vars
  BY <1>1, <1>7 DEF vars, costs
<1> QED
  BY <1>3, <1>4, <1>5, <1>6, <1>7, TaskSpends, JobSpends DEF Next

(* SpendBounded (ZuhalDispatcher._drain_bulk, _process): the ceiling is    *)
(* overshot by one round at most, for any widths, jobs and batches and     *)
(* however checks and charges interleave.                                  *)
THEOREM CeilingTheorem == Spec => []SpendBounded
<1>1. Init => SpendInv
  <2> SUFFICES ASSUME Init PROVE SpendInv
    OBVIOUS
  <2>1. Committed = {} /\ Paying = {} /\ \A j \in Jobs : job[j].rows = {}
    BY DEF Init, Committed, Paying, Idle, NoJob, Working
  <2>2. Cardinality(Committed) = 0 /\ Cardinality(Paying) = 0 /\ Cardinality({}) = 0
    BY <2>1, FS_EmptySet
  <2>3. 0 + 0 * BatchSize + 0 < Ceiling + Round /\ 0 <= BatchSize
    BY Settings, RoundFacts
  <2> QED
    BY <2>1, <2>2, <2>3 DEF Init, SpendInv
<1>2. CountersInv /\ SpendInv => SpendBounded
  <2> SUFFICES ASSUME CountersInv, SpendInv PROVE SpendBounded
    OBVIOUS
  <2> DEFINE x == Cardinality(Committed) * BatchSize  p == Cardinality(Paying)
  <2>1. x \in Nat /\ p \in Nat /\ spent \in Nat /\ Ceiling \in Nat /\ Round \in Nat
        /\ spent + x + p < Ceiling + Round
    BY Settings, RoundFacts, SpendersFinite, Times DEF SpendInv, CountersInv
  <2> HIDE DEF x, p
  <2> QED
    BY <2>1 DEF SpendBounded
<1> QED
  BY <1>1, <1>2, CountersInitially, CountersInductive, SpendInductive, InvariantHolds, PTL DEF Spec

-----------------------------------------------------------------------------
(* Nobody pays twice                                                       *)

\* The rows of a job that may have been paid for, and those that have not been.
PaidIn(j) == IF job[j].pc = "poll" THEN job[j].owners
             ELSE IF job[j].pc \in {"results", "fail"} THEN job[j].todo ELSE {}
FreeIn(j) == IF job[j].pc \in {"cached", "upload"} THEN job[j].rows
             ELSE IF job[j].pc = "defer" THEN job[j].todo ELSE {}

BeforeClaim == {"ABSENT", "DISCOVERED", "VALIDATING", "NEEDS_ZUHAL"}

\* Rows that may yet be sent to Zuhal.
Unpaid(r) ==
    \/ row[r].state \in BeforeClaim
    \/ /\ row[r].state = ZV /\ task[r].pc \notin {"store", "apply"}
       /\ \A j \in Jobs : r \notin PaidIn(j)
    \/ \E j \in Jobs : r \in FreeIn(j)

PaidInv ==
    /\ PaidOnce
    /\ \A r \in Records : Unpaid(r) => taken[MailOf[r]] = 0

(* A step that pays for nothing.                                           *)
LEMMA NothingPaid ==
    ASSUME PaidInv, UNCHANGED taken, \A r \in Records : Unpaid(r)' => Unpaid(r)
    PROVE  PaidInv'
BY DEF PaidInv, PaidOnce

(* A row that nobody touches and no job lets go of was unpaid before.      *)
LEMMA UnpaidKept ==
    ASSUME NEW q \in Records, row'[q].state = row[q].state, task'[q] = task[q], Unpaid(q)',
           \A k \in Jobs : q \notin PaidIn(k)' => q \notin PaidIn(k),
           \A k \in Jobs : q \in FreeIn(k)' => q \in FreeIn(k)
    PROVE  Unpaid(q)
<1>1. \/ row'[q].state \in BeforeClaim
      \/ /\ row'[q].state = ZV /\ task'[q].pc \notin {"store", "apply"}
         /\ \A j \in Jobs : q \notin PaidIn(j)'
      \/ \E j \in Jobs : q \in FreeIn(j)'
  BY DEF Unpaid, ZV, BeforeClaim
<1> HIDE DEF PaidIn, FreeIn
<1> QED
  BY <1>1 DEF Unpaid

LEMMA JobPaysNothing ==
    ASSUME ZuhalInv, NEW j \in Jobs, JobStep(j), job'[j].pc # "poll",
           NEW q \in Records, Unpaid(q)'
    PROVE  Unpaid(q)
<1>0. /\ JobMoves(j) /\ JobInv(j) /\ UNCHANGED task /\ \A k \in Jobs \ {j} : job'[k] = job[k]
      /\ Uploading(j) \/ Completing(j) \/ Claiming(j) \/ Passing(j)
  BY JobMoney DEF JobMoves, ZuhalInv, JobsInv
<1>1. \A k \in Jobs \ {j} : PaidIn(k)' = PaidIn(k) /\ FreeIn(k)' = FreeIn(k)
  BY <1>0 DEF PaidIn, FreeIn
<1>2. \A k \in Jobs : FreeIn(k) \subseteq Mine(k) /\ PaidIn(k) \subseteq Mine(k)
  BY DEF FreeIn, PaidIn, Mine, ZuhalInv, JobsInv, JobInv
<1>3. CASE JobClaims(j)
  <2> DEFINE b == job'[j].rows
  <2>1. /\ b \subseteq Queue /\ row' = claimed(b) /\ PaidIn(j) = {} /\ PaidIn(j)' = {}
        /\ FreeIn(j) = {} /\ FreeIn(j)' = b
    BY <1>3 DEF JobClaims, PaidIn, FreeIn
  <2>2. CASE q \in b
    BY <2>1, <2>2 DEF Queue, Unpaid, BeforeClaim
  <2>3. CASE q \notin b
    <3>1. row'[q] = row[q]
      BY <2>1, <2>3 DEF claimed
    <3>2. \A k \in Jobs : q \notin PaidIn(k)' => q \notin PaidIn(k)
      BY <1>1, <2>1
    <3>3. \A k \in Jobs : q \in FreeIn(k)' => q \in FreeIn(k)
      BY <1>1, <2>1, <2>3
    <3> QED
      BY <1>0, <3>1, <3>2, <3>3, UnpaidKept
  <2> QED
    BY <2>2, <2>3
<1>4. ASSUME NEW r \in Records, JobWritesRow(j, r) PROVE Unpaid(q)
  <2>1. PaidIn(j)' \subseteq PaidIn(j) /\ FreeIn(j)' \subseteq FreeIn(j)
        /\ PaidIn(j) \subseteq PaidIn(j)' \cup {r}
    BY <1>4 DEF JobWritesRow, PaidIn, FreeIn
  <2>2. \A k \in Jobs : q \in FreeIn(k)' => q \in FreeIn(k)
    BY <1>1, <2>1
  <2>3. CASE q # r
    <3>1. row'[q] = row[q]
      BY <1>4, <2>3 DEF JobWritesRow
    <3>2. \A k \in Jobs : q \notin PaidIn(k)' => q \notin PaidIn(k)
      BY <1>1, <2>1, <2>3
    <3> QED
      BY <1>0, <2>2, <3>1, <3>2, UnpaidKept
  <2>4. CASE q = r /\ job[j].pc \in {"cached", "defer"}
    <3>1. r \in FreeIn(j)
      BY <1>0, <1>4, <2>4 DEF JobWritesRow, FreeIn, JobInv
    <3> QED
      BY <2>4, <3>1 DEF Unpaid
  <2>5. CASE q = r /\ job[j].pc \in {"results", "fail"}
    <3>1. row'[r].state \notin BeforeClaim /\ row'[r].state # ZV
      BY <1>4, <2>5 DEF JobWritesRow, BeforeClaim, ZV
    <3>2. r \in Mine(j) /\ r \notin FreeIn(j)
      BY <1>4, <2>5 DEF JobWritesRow, Mine, FreeIn
    <3>3. \A k \in Jobs \ {j} : r \notin FreeIn(k)
      BY <1>2, <3>2 DEF ZuhalInv, JobsInv
    <3>4. \A k \in Jobs : r \notin FreeIn(k)'
      BY <2>2, <2>5, <3>2, <3>3
    <3> QED
      BY <2>5, <3>1, <3>4 DEF Unpaid
  <2> QED
    BY <1>4, <2>3, <2>4, <2>5 DEF JobWritesRow
<1>5. CASE JobPasses(j)
  <2>1. row'[q].state = row[q].state
    BY <1>5 DEF JobPasses
  <2>2. job[j].pc = "poll" => job'[j].pc \in {"results", "fail"}
    BY <1>0 DEF Uploading, Completing, Claiming, Passing
  <2>3. PaidIn(j) \subseteq PaidIn(j)' /\ FreeIn(j)' \subseteq FreeIn(j)
    <3>1. CASE job'[j].pc = "done"
      BY <1>5, <3>1 DEF JobPasses, PaidIn, FreeIn
    <3>2. CASE job'[j].pc = "upload"
      BY <1>5, <3>2 DEF JobPasses, PaidIn, FreeIn
    <3>3. CASE job'[j].pc = "results"
      BY <1>5, <3>3 DEF JobPasses, PaidIn, FreeIn
    <3>4. CASE job'[j].pc \in {"fail", "defer"}
      BY <1>0, <1>5, <2>2, <3>4 DEF JobPasses, PaidIn, FreeIn, JobInv
    <3> QED
      BY <1>5, <3>1, <3>2, <3>3, <3>4 DEF JobPasses
  <2>4. \A k \in Jobs : q \notin PaidIn(k)' => q \notin PaidIn(k)
    BY <1>1, <2>3
  <2>5. \A k \in Jobs : q \in FreeIn(k)' => q \in FreeIn(k)
    BY <1>1, <2>3
  <2> QED
    BY <1>0, <2>1, <2>4, <2>5, UnpaidKept
<1> QED
  BY <1>0, <1>3, <1>4, <1>5 DEF JobMoves

(* An upload pays for every address of the batch that nobody has paid for. *)
LEMMA UploadPays ==
    ASSUME OwnAddresses, ZuhalInv, CountersInv, PaidInv, NEW j \in Jobs, JobStep(j), job'[j].pc = "poll"
    PROVE  PaidInv'
<1>a. /\ JobMoves(j) /\ \A k \in Jobs \ {j} : job'[k] = job[k]
      /\ Uploading(j) \/ Completing(j) \/ Claiming(j) \/ Passing(j)
  BY JobMoney
<1>b. Uploading(j)
  BY <1>a DEF Completing, Claiming, Passing
<1>c. UNCHANGED task
  BY <1>a DEF JobMoves
<1>d. JobInv(j) /\ job[j] \in Job
  BY DEF ZuhalInv, JobsInv, TypeInv
<1>0. /\ JobMoves(j) /\ JobInv(j) /\ UNCHANGED task /\ \A k \in Jobs \ {j} : job'[k] = job[k]
      /\ Uploading(j) /\ job[j] \in Job
  BY <1>a, <1>b, <1>c, <1>d
<1>1. /\ job[j].pc = "upload" /\ job'[j].owners = job[j].owners
      /\ taken' = [e \in Emails |-> taken[e] + Cardinality({r \in Uploaded(j) : MailOf[r] = e})]
  BY <1>0 DEF Uploading
<1>2. /\ job[j].owners \subseteq Records /\ job[j].rows \subseteq Records
      /\ job[j].owners \subseteq job[j].rows
  BY <1>0 DEF Job, JobInv
<1>3. Uploaded(j) = job[j].owners
  BY <1>2 DEF Uploaded, OwnAddresses
<1>4. \A q \in Records : row'[q].state = row[q].state
  BY <1>0, <1>1 DEF JobMoves, JobPasses, JobClaims, JobWritesRow
<1>5. \A r \in Records : MailOf[r] \in Emails
  BY Settings
<1>6. taken \in [Emails -> Nat] /\ \A e \in Emails : taken[e] \in Nat /\ taken[e] <= 1
  BY DEF CountersInv, PaidInv, PaidOnce
<1>7. ASSUME NEW q \in job[j].owners
      PROVE  taken[MailOf[q]] = 0 /\ taken'[MailOf[q]] = 1
  <2>1. q \in Records /\ q \in FreeIn(j) /\ MailOf[q] \in Emails
    BY <1>1, <1>2, <1>5 DEF FreeIn
  <2>2. taken[MailOf[q]] = 0
    BY <2>1 DEF Unpaid, PaidInv
  <2>3. {r \in Uploaded(j) : MailOf[r] = MailOf[q]} = {q}
    BY <1>2, <1>3, <2>1 DEF OwnAddresses
  <2>4. Cardinality({r \in Uploaded(j) : MailOf[r] = MailOf[q]}) = 1
    BY <2>3, FS_Singleton
  <2>5. taken'[MailOf[q]] = taken[MailOf[q]] + Cardinality({r \in Uploaded(j) : MailOf[r] = MailOf[q]})
    BY <1>1, <2>1
  <2> QED
    BY <2>2, <2>4, <2>5
<1>8. ASSUME NEW e \in Emails, \A q \in job[j].owners : MailOf[q] # e
      PROVE  taken'[e] = taken[e]
  <2>1. {r \in Uploaded(j) : MailOf[r] = e} = {}
    BY <1>3, <1>8
  <2>2. Cardinality({r \in Uploaded(j) : MailOf[r] = e}) = 0
    BY <2>1, FS_EmptySet
  <2>3. taken'[e] = taken[e] + Cardinality({r \in Uploaded(j) : MailOf[r] = e})
    BY <1>1
  <2> QED
    BY <1>6, <2>2, <2>3
<1>9. PaidOnce'
  <2> SUFFICES ASSUME NEW e \in Emails PROVE taken'[e] <= 1
    BY DEF PaidOnce
  <2>1. CASE \E q \in job[j].owners : MailOf[q] = e
    BY <1>7, <2>1
  <2>2. CASE \A q \in job[j].owners : MailOf[q] # e
    BY <1>6, <1>8, <2>2
  <2> QED
    BY <2>1, <2>2
<1>10. ASSUME NEW q \in Records, Unpaid(q)'
       PROVE  taken'[MailOf[q]] = 0
  <2>1. \A k \in Jobs \ {j} : PaidIn(k)' = PaidIn(k) /\ FreeIn(k)' = FreeIn(k)
    BY <1>0 DEF PaidIn, FreeIn
  <2>2. PaidIn(j) = {} /\ PaidIn(j)' = job[j].owners /\ FreeIn(j)' = {}
    BY <1>1 DEF PaidIn, FreeIn
  <2>3. q \notin job[j].owners
    <3> SUFFICES ASSUME q \in job[j].owners PROVE FALSE
      OBVIOUS
    <3>1. row[q].state = ZV
      BY <1>0, <1>1 DEF JobInv, Held
    <3>2. q \in Mine(j)
      BY <1>1, <1>2 DEF Mine
    <3>3. \A k \in Jobs \ {j} : q \notin Mine(k)
      BY <3>2 DEF ZuhalInv, JobsInv
    <3>4. \A k \in Jobs : FreeIn(k) \subseteq Mine(k)
      BY DEF FreeIn, Mine
    <3>5. \A k \in Jobs : q \notin FreeIn(k)'
      BY <2>1, <2>2, <3>3, <3>4
    <3>6. row'[q].state \notin BeforeClaim
      BY <1>4, <3>1 DEF BeforeClaim, ZV
    <3> QED
      BY <1>10, <2>2, <3>5, <3>6 DEF Unpaid
  <2>4. Unpaid(q)
    <3>1. \A k \in Jobs : q \notin PaidIn(k)' => q \notin PaidIn(k)
      BY <2>1, <2>2
    <3>2. \A k \in Jobs : q \in FreeIn(k)' => q \in FreeIn(k)
      BY <2>1, <2>2
    <3> QED
      BY <1>0, <1>4, <1>10, <3>1, <3>2, UnpaidKept
  <2>5. \A p \in job[j].owners : MailOf[p] # MailOf[q]
    BY <1>2, <2>3 DEF OwnAddresses
  <2>6. taken'[MailOf[q]] = taken[MailOf[q]]
    BY <1>5, <1>8, <2>5
  <2> QED
    BY <2>4, <2>6 DEF PaidInv
<1> QED
  BY <1>9, <1>10 DEF PaidInv

(* Single mode: a row is paid for between its call and its last write.     *)
LEMMA TaskPays ==
    ASSUME OwnAddresses, ZuhalInv, CountersInv, PaidInv, NEW r \in Records, TaskStep(r)
    PROVE  PaidInv'
<1>1. TaskOutcome(r) /\ mode = "gather" /\ row[r].state = ZV /\ UNCHANGED job
  BY TaskStepOutcome DEF ZuhalInv, TasksInv, TaskOutcome
<1>2. \A j \in Jobs : PaidIn(j) = {} /\ FreeIn(j) = {} /\ PaidIn(j)' = {} /\ FreeIn(j)' = {}
  <2>1. \A j \in Jobs : job[j].pc = "none" /\ job'[j].pc = "none"
    BY <1>1, QuietModes
  <2> QED
    BY <2>1 DEF PaidIn, FreeIn
<1>3. ASSUME NEW q \in Records \ {r}, Unpaid(q)' PROVE Unpaid(q)
  <2>1. row'[q] = row[q] /\ task'[q] = task[q]
    BY <1>1 DEF TaskOutcome
  <2> QED
    BY <1>2, <1>3, <2>1, UnpaidKept
<1>4. task[r].pc \notin {"store", "apply"} => Unpaid(r)
  BY <1>1, <1>2 DEF Unpaid
<1>5. task'[r].pc \in {"store", "apply"} /\ row' = row => ~Unpaid(r)'
  BY <1>1, <1>2 DEF Unpaid, BeforeClaim, ZV
<1>6. row'[r].state \in {"VALIDATED", "VALIDATION_FAILED"} => ~Unpaid(r)'
  BY <1>2 DEF Unpaid, BeforeClaim, ZV
<1>7. CASE Begin(r) \/ Lookup(r) \/ CreditsOut(r) \/ requeue_or_give_up(r) \/ Halt(r)
  <2>1. task[r].pc \notin {"store", "apply"} /\ taken' = taken
    BY <1>7 DEF Begin, Lookup, CreditsOut, requeue_or_give_up, Halt, costs
  <2> QED
    BY <1>3, <1>4, <2>1, NothingPaid
<1>8. CASE Store(r)
  <2>1. taken' = taken /\ row' = row /\ task'[r].pc = "apply"
    BY <1>8 DEF Store, Go, costs, ZuhalInv, TypeInv, Task
  <2> QED
    BY <1>3, <1>5, <2>1, NothingPaid
<1>9. CASE Apply(r)
  <2>1. taken' = taken /\ row[r] \in Row /\ Finish(r, applied(row[r], r, task[r].verdict))
    BY <1>9 DEF Apply, costs, ZuhalInv, TypeInv
  <2>2. row'[r] = applied(row[r], r, task[r].verdict)
    BY <2>1 DEF Finish, ZuhalInv, TypeInv
  <2>3. row'[r].state \in {"VALIDATED", "VALIDATION_FAILED"}
    BY <2>1, <2>2, AppliedRow
  <2> QED
    BY <1>3, <1>6, <2>1, <2>3, NothingPaid
<1>10. CASE Answered(r)
  <2>1. task[r].pc = "ask" /\ row' = row /\ task'[r].pc \in {"store", "apply"}
    BY <1>10 DEF Answered, ZuhalInv, TypeInv
  <2>2. \/ taken' = taken
        \/ taken' = [taken EXCEPT ![MailOf[r]] = @ + 1]
    BY <1>10 DEF Answered
  <2>3. taken[MailOf[r]] = 0 /\ MailOf[r] \in Emails /\ taken \in [Emails -> Nat]
    BY <1>4, <2>1, Settings DEF PaidInv, CountersInv
  <2>4. PaidOnce'
    BY <2>2, <2>3 DEF PaidInv, PaidOnce
  <2>5. ASSUME NEW q \in Records, Unpaid(q)' PROVE taken'[MailOf[q]] = 0
    <3>1. q # r /\ Unpaid(q)
      BY <1>3, <1>5, <2>1, <2>5
    <3>2. MailOf[q] # MailOf[r] /\ taken[MailOf[q]] = 0
      BY <3>1 DEF OwnAddresses, PaidInv
    <3>3. MailOf[q] \in Emails
      BY Settings
    <3> QED
      BY <2>2, <2>3, <3>2, <3>3
  <2> QED
    BY <2>4, <2>5 DEF PaidInv
<1> QED
  BY <1>7, <1>8, <1>9, <1>10 DEF TaskStep

LEMMA LoopPaysNothing ==
    ASSUME ZuhalInv, PaidInv, LoopStep
    PROVE  PaidInv'
<1>1. taken' = taken
  BY DEF LoopStep, StopSeen, ChooseMode, BulkGathered, NothingToClaim, CheckPending, Gathered,
         Claim, LoopOnly, costs
<1>2. \A j \in Jobs : \/ job'[j] = job[j]
                      \/ job[j].pc \in {"none", "done"} /\ job'[j].pc \in {"none", "claim"}
  <2>1. CASE ChooseMode
    <3>1. \A j \in Jobs : job[j].pc = "none"
      BY <2>1, QuietModes DEF ChooseMode
    <3> QED
      BY <2>1, <3>1 DEF ChooseMode, NoJob
  <2>2. CASE BulkGathered
    BY <2>2 DEF BulkGathered, NoJob
  <2>3. CASE job' = job
    BY <2>3
  <2> QED
    BY <2>1, <2>2, <2>3 DEF LoopStep, StopSeen, NothingToClaim, CheckPending, Gathered, Claim
<1>3. \A j \in Jobs : PaidIn(j)' = PaidIn(j) /\ FreeIn(j)' = FreeIn(j)
  BY <1>2 DEF PaidIn, FreeIn
<1>4. ASSUME NEW q \in Records, Unpaid(q)', row[q].state # "NEEDS_ZUHAL" PROVE Unpaid(q)
  <2>1. row'[q] = row[q] /\ task'[q] = task[q]
    <3>1. ASSUME NEW b \in SUBSET Records, Claim(b) PROVE row'[q] = row[q] /\ task'[q] = task[q]
      <4>1. q \notin b
        BY <1>4, <3>1 DEF Claim, Batches, Queue
      <4> QED
        BY <3>1, <4>1 DEF Claim, claimed
    <3> QED
      BY <3>1 DEF LoopStep, StopSeen, ChooseMode, BulkGathered, NothingToClaim, CheckPending,
                  Gathered, LoopOnly
  <2> QED
    BY <1>3, <1>4, <2>1, UnpaidKept
<1>5. \A q \in Records : row[q].state = "NEEDS_ZUHAL" => Unpaid(q)
  BY DEF Unpaid, BeforeClaim
<1> QED
  BY <1>1, <1>4, <1>5, NothingPaid

LEMMA EnvironmentPaysNothing ==
    ASSUME ~CanCrash, ZuhalInv, PaidInv, Environment
    PROVE  PaidInv'
<1>1. taken' = taken /\ UNCHANGED <<task, job>>
  BY DEF Environment, Start, SmtpEnds, Stop, Crash, SmtpStage, GrowsStale, EnvFrame, costs
<1>2. \A j \in Jobs : PaidIn(j)' = PaidIn(j) /\ FreeIn(j)' = FreeIn(j)
  BY <1>1 DEF PaidIn, FreeIn
<1>3. ASSUME NEW q \in Records, Unpaid(q)', row'[q].state = row[q].state PROVE Unpaid(q)
  BY <1>1, <1>2, <1>3, UnpaidKept
<1>4. ASSUME NEW q \in Records, row[q].state \in BeforeClaim PROVE Unpaid(q)
  BY <1>4 DEF Unpaid
<1>5. CASE Start
  <2>1. ASSUME NEW q \in Records, Unpaid(q)' PROVE Unpaid(q)
    <3>1. CASE row[q].state = ZV
      <4>1. task[q].pc = "idle" /\ \A j \in Jobs : job[j].pc = "none"
        BY <1>5, QuietModes DEF Start, running
      <4>2. \A j \in Jobs : PaidIn(j) = {}
        BY <4>1 DEF PaidIn
      <4> QED
        BY <3>1, <4>1, <4>2 DEF Unpaid
    <3>2. CASE row[q].state # ZV
      <4>1. row'[q] = row[q]
        BY <1>5, <3>2, StartRows DEF ZuhalInv
      <4> QED
        BY <1>3, <2>1, <4>1
    <3> QED
      BY <3>1, <3>2
  <2> QED
    BY <1>1, <2>1, NothingPaid
<1>6. CASE SmtpEnds \/ Stop
  <2>1. row' = row
    BY <1>6 DEF SmtpEnds, Stop
  <2> QED
    BY <1>1, <1>3, <2>1, NothingPaid
<1>7. ASSUME NEW r \in Records, SmtpStage(r) PROVE PaidInv'
  <2>1. SmtpMoves(r)
    BY <1>7, SmtpStageMoves DEF ZuhalInv
  <2>2. \A q \in Records : q # r => row'[q].state = row[q].state
    BY <2>1 DEF SmtpMoves
  <2>3. row[r].state \in BeforeClaim
    BY <2>1 DEF SmtpMoves, BeforeClaim
  <2> QED
    BY <1>1, <1>3, <1>4, <2>2, <2>3, NothingPaid
<1>8. ASSUME NEW r \in Records, GrowsStale(r) PROVE PaidInv'
  <2>1. \A q \in Records : row'[q].state = row[q].state
    BY <1>8, StaleRows DEF ZuhalInv
  <2> QED
    BY <1>1, <1>3, <2>1, NothingPaid
<1> QED
  BY <1>5, <1>6, <1>7, <1>8 DEF Environment, Crash

LEMMA PaidInductive ==
    ~CanCrash /\ OwnAddresses /\ ZuhalInv /\ CountersInv /\ PaidInv /\ [Next]_vars => PaidInv'
<1> SUFFICES ASSUME ~CanCrash, OwnAddresses, ZuhalInv, CountersInv, PaidInv, [Next]_vars
             PROVE  PaidInv'
  OBVIOUS
<1>1. ASSUME NEW j \in Jobs, JobStep(j) PROVE PaidInv'
  <2>1. CASE job'[j].pc = "poll"
    BY <1>1, <2>1, UploadPays
  <2>2. CASE job'[j].pc # "poll"
    <3>1. taken' = taken
      BY <1>1, <2>2, JobMoney DEF Uploading, Completing, Claiming, Passing, costs
    <3> QED
      BY <1>1, <2>2, <3>1, JobPaysNothing, NothingPaid
  <2> QED
    BY <2>1, <2>2
<1>2. CASE UNCHANGED vars
  <2>1. UNCHANGED <<row, task, job, taken>>
    BY <1>2 DEF vars, costs
  <2>2. \A j \in Jobs : PaidIn(j)' = PaidIn(j) /\ FreeIn(j)' = FreeIn(j)
    BY <2>1 DEF PaidIn, FreeIn
  <2>3. \A q \in Records : Unpaid(q)' => Unpaid(q)
    BY <2>1, <2>2, UnpaidKept
  <2> QED
    BY <2>1, <2>3, NothingPaid
<1> QED
  BY <1>1, <1>2, TaskPays, LoopPaysNothing, EnvironmentPaysNothing DEF Next

(* Nobody pays twice for an address, whatever fails, is throttled, stopped *)
(* or halted and however many runs follow, as long as no run crashes with  *)
(* an answer in memory and no two rows share an address: the claims and    *)
(* the one last write of each row see to it, the cache is not needed       *)
(* (README, zuhal_dispatcher.py:420).                                      *)
THEOREM PaidOnceTheorem == ASSUME ~CanCrash, OwnAddresses PROVE Spec => []PaidOnce
<1>1. Init => PaidInv
  <2> SUFFICES ASSUME Init PROVE PaidInv
    OBVIOUS
  <2>1. \A e \in Emails : taken[e] = 0
    BY DEF Init
  <2> QED
    BY <2>1, Settings DEF PaidInv, PaidOnce
<1>2. PaidInv => PaidOnce
  BY DEF PaidInv
<1>3. ZuhalInv /\ CountersInv /\ PaidInv /\ [Next]_vars => PaidInv'
  BY PaidInductive
<1> QED
  BY <1>1, <1>2, <1>3, CountersInitially, CountersInductive, InvariantHolds, PTL DEF Spec

=============================================================================
