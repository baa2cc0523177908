--------------------------- MODULE ZuhalDispatcher ---------------------------
(***************************************************************************)
(* The decoupled paid stage (pipeline/zuhal_dispatcher.py on top of        *)
(* utils/zuhal_client.py and db/zuhal_queue.py): a poll loop that drains   *)
(* the NEEDS_ZUHAL queue, with bulk jobs when the backlog is long and with *)
(* one task per row otherwise.  As in Dispatcher, an action is one stretch *)
(* of a coroutine from an await to the next; a batch is written row by     *)
(* row, so that a crash can fall between two of its writes.                *)
(*                                                                         *)
(* Around it: the SMTP stage that hands rows over, a shutdown signal, a    *)
(* crash, time, and the next run on the same database.  Only               *)
(* handoff_to_zuhal puts rows into the queue, so every row in it has an    *)
(* address and the branches for rows without one are left out.             *)
(***************************************************************************)
EXTENDS Rows, FiniteSets

CONSTANTS
    Records,
    MailOf,            (* [Records -> Emails]: the address handed over        *)
    CachedBefore,      (* [Emails -> ...]: the cache earlier runs have left   *)
    Answers,           (* what a single call may come to                      *)
    Uploads,           (* what a bulk upload may come to                      *)
    JobEnds,           (* how an uploaded job may end                         *)
    BulkVerdicts,      (* what a bulk result may say of an address            *)
    Jobs,              (* bulk jobs run side by side                          *)
    BulkThreshold, BatchSize, ChunkSize,
    Width,             (* zuhal_concurrency, also the client's own limit      *)
    MinWidth, MaxWidth, ScaleUpAfter,
    CircuitCap,        (* zuhal_max_circuit_requeues                          *)
    Ceiling,           (* --max-cost, counted in Zuhal calls                  *)
    MaxStarts,         (* bound: runs started on this database                *)
    CanStop, CanCrash,
    PatientRestart     (* runs are only started when no claim is fresh        *)

ApiVerdict == {"valid", "catch_all", "accept-all", "invalid", "unknown", "disposable"}
Cached == {"valid", "catch_all", "invalid"}

ASSUME ZuhalAssumption ==
    /\ IsFiniteSet(Records) /\ IsFiniteSet(Jobs) /\ MailOf \in [Records -> Emails]
    /\ CachedBefore \in [Emails -> Cached \cup {"none"}]
    /\ Answers \subseteq ApiVerdict \cup {"error", "circuit", "credits", "halt"}
    /\ Uploads \subseteq {"ok", "refused", "credits", "halt"}
    /\ JobEnds \subseteq {"complete", "failed"}
    /\ BulkVerdicts \subseteq ApiVerdict \ {"accept-all"}   \* mapped by the client
    /\ {BulkThreshold, BatchSize, ChunkSize, Width, MinWidth, ScaleUpAfter,
        CircuitCap} \subseteq Nat \ {0}
    /\ MaxWidth \in Nat /\ Width <= MaxWidth /\ MinWidth <= Width
    /\ Ceiling \in Nat /\ MaxStarts \in Nat
    /\ {CanStop, CanCrash, PatientRestart} \subseteq BOOLEAN

VARIABLES
    row,          \* the table
    cache,        \* email_verification_cache
    task,         \* the task of each claimed row (single mode)
    job,          \* the bulk jobs
    circuit,      \* _circuit_requeues
    mode, empties,
    width, okBatches,      \* _concurrency, _ok_batches
    creditsOut, stop, halted, smtpDone,
    spent,        \* cost_tracker, in Zuhal calls
    uncharged,    \* history: credits Zuhal has taken that are not on spent
    taken,        \* history: credits taken for each address, over all runs
    starts

env   == <<smtpDone, starts>>
loop  == <<mode, empties, width, okBatches>>
flags == <<creditsOut, stop, halted>>
costs == <<spent, uncharged, taken>>
vars  == <<row, cache, task, job, circuit, loop, flags, smtpDone, costs, starts>>

-----------------------------------------------------------------------------

TaskPC == {"idle", "queued", "lookup", "ask", "store", "apply"}
Task == [pc : TaskPC, verdict : ApiVerdict \cup {"error", "none"}]
Idle == [pc |-> "idle", verdict |-> "none"]

JobPC == {"none", "claim", "cached", "upload", "poll", "results", "fail",
          "defer", "done"}
Job == [pc : JobPC,
        rows : SUBSET Records,        \* the batch
        owners : SUBSET Records,      \* id_by_email: one row per address
        todo : SUBSET Records,        \* rows of the batch still to be written
        got : [Records -> ApiVerdict \cup {"none"}],
        drained : BOOLEAN]            \* returned a positive number
NoJob == [pc |-> "none", rows |-> {}, owners |-> {}, todo |-> {},
          got |-> [r \in Records |-> "none"], drained |-> FALSE]

Modes == {"down", "top", "bulk", "claim", "gather", "checkPending", "exited"}
EmptyThreshold == 3      \* DISPATCH_POLL_EMPTY_BACKOFF_THRESHOLD

running == mode \notin {"down", "exited"}

\* Mutant: the ceiling itself may be spent.
ceilingPassed == spent > Ceiling

ceiling_reached == spent >= Ceiling

Queue == {r \in Records : row[r].state = "NEEDS_ZUHAL"}
Active == {r \in Records : task[r].pc \notin {"idle", "queued"}}
Asking == {r \in Records : task[r].pc = "ask"}

Init ==
    /\ row = [r \in Records |-> FreshRow("ABSENT")]
    /\ cache = CachedBefore
    /\ task = [r \in Records |-> Idle]
    /\ job = [j \in Jobs |-> NoJob]
    /\ circuit = [r \in Records |-> 0]
    /\ mode = "down" /\ empties = 0 /\ width = Width /\ okBatches = 0
    /\ creditsOut = FALSE /\ stop = FALSE /\ halted = FALSE /\ smtpDone = FALSE
    /\ spent = 0 /\ uncharged = 0 /\ taken = [e \in Emails |-> 0]
    /\ starts = 0

-----------------------------------------------------------------------------
(* The loop. *)

Start ==
    /\ ~running /\ starts < MaxStarts
    /\ PatientRestart =>
          \A r \in Records : row[r].state = "ZUHAL_VALIDATING" => row[r].stale
    /\ row' = [r \in Records |-> recover_stale_zuhal_validating(row[r])]
    /\ circuit' = [r \in Records |-> 0]
    /\ mode' = "top" /\ empties' = 0 /\ width' = Width /\ okBatches' = 0
    /\ creditsOut' = FALSE /\ stop' = FALSE /\ halted' = FALSE /\ smtpDone' = FALSE
    /\ spent' = 0 /\ uncharged' = 0
    /\ starts' = starts + 1
    /\ UNCHANGED <<cache, task, job, taken>>

\* Moves of the loop that touch neither the table nor the tasks.
LoopOnly == UNCHANGED <<row, cache, circuit, flags, costs, env>>

StopSeen ==
    /\ mode = "top" /\ (stop \/ creditsOut)
    /\ mode' = "exited"
    /\ LoopOnly /\ UNCHANGED <<task, job, empties, width, okBatches>>

ChooseMode ==
    /\ mode = "top" /\ ~stop /\ ~creditsOut
    /\ IF Cardinality(Queue) >= BulkThreshold
       THEN mode' = "bulk" /\ job' = [j \in Jobs |-> [NoJob EXCEPT !.pc = "claim"]]
       ELSE mode' = "claim" /\ UNCHANGED job
    /\ LoopOnly /\ UNCHANGED <<task, empties, width, okBatches>>

\* Mutant: the loop starts again whether or not a job has drained anything.
BulkGatheredRestarts ==
    /\ mode = "bulk" /\ \A j \in Jobs : job[j].pc = "done"
    /\ job' = [j \in Jobs |-> NoJob]
    /\ mode' = (IF halted THEN "exited" ELSE "top") /\ UNCHANGED empties
    /\ LoopOnly /\ UNCHANGED <<task, width, okBatches>>

\* When no job has drained anything the loop goes on in single mode.
BulkGathered ==
    /\ mode = "bulk" /\ \A j \in Jobs : job[j].pc = "done"
    /\ job' = [j \in Jobs |-> NoJob]
    /\ IF halted THEN mode' = "exited" /\ UNCHANGED empties
       ELSE IF \E j \in Jobs : job[j].drained THEN mode' = "top" /\ empties' = 0
       ELSE mode' = "claim" /\ UNCHANGED empties
    /\ LoopOnly /\ UNCHANGED <<task, width, okBatches>>

\* LIMIT picks any rows of the queue.
Batches(limit) ==
    {b \in SUBSET Queue : b # {} /\ (Cardinality(b) = limit
                                     \/ (Cardinality(b) < limit /\ b = Queue))}

claimed(batch) ==
    [r \in Records |-> IF r \in batch THEN fetch_pending_zuhal(row[r]) ELSE row[r]]

Claim(batch) ==
    /\ mode = "claim" /\ batch \in Batches(ChunkSize)
    /\ row' = claimed(batch)
    /\ task' = [r \in Records |-> IF r \in batch THEN [Idle EXCEPT !.pc = "queued"]
                                                 ELSE task[r]]
    /\ mode' = "gather" /\ empties' = 0
    /\ UNCHANGED <<cache, job, circuit, width, okBatches, flags, costs, env>>

NothingToClaim ==
    /\ mode = "claim" /\ Queue = {}
    /\ empties' = IF empties < EmptyThreshold THEN empties + 1 ELSE empties
    /\ mode' = IF smtpDone THEN "checkPending" ELSE "top"
    /\ LoopOnly /\ UNCHANGED <<task, job, width, okBatches>>

has_pending_zuhal ==
    \E r \in Records : row[r].state \in {"NEEDS_ZUHAL", "ZUHAL_VALIDATING"}

CheckPending ==
    /\ mode = "checkPending"
    /\ IF has_pending_zuhal
       THEN mode' = "top" /\ empties' = 0
       ELSE /\ mode' = IF empties >= EmptyThreshold THEN "exited" ELSE "top"
            /\ UNCHANGED empties
    /\ LoopOnly /\ UNCHANGED <<task, job, width, okBatches>>

\* _adjust_concurrency.  The client turns every 429 into ZuhalCircuitOpenError,
\* so _saw_429 is never set and the width is never halved.
adjust_concurrency ==
    IF okBatches + 1 >= ScaleUpAfter
    THEN width' = (IF width < MaxWidth THEN width + 1 ELSE MaxWidth) /\ okBatches' = 0
    ELSE okBatches' = okBatches + 1 /\ UNCHANGED width

Gathered ==
    /\ mode = "gather" /\ \A r \in Records : task[r].pc = "idle"
    /\ IF halted
       THEN mode' = "exited" /\ UNCHANGED <<width, okBatches>>
       ELSE mode' = "top" /\ adjust_concurrency
    /\ LoopOnly /\ UNCHANGED <<task, job, empties>>

-----------------------------------------------------------------------------
(* Writing a verdict. *)

\* _apply_verdict
applied(x, r, status) ==
    LET v == IF status = "accept-all" THEN "catch_all" ELSE status IN
    update_record_dual(x, IF v \in {"valid", "catch_all"} THEN "VALIDATED"
                                                          ELSE "VALIDATION_FAILED",
                       v, MailOf[r], 0, "none")

-----------------------------------------------------------------------------
(* Single mode: _dispatch_one and _process. *)

Finish(r, x) ==
    /\ row' = [row EXCEPT ![r] = x]
    /\ task' = [task EXCEPT ![r] = Idle]

Go(r, pc) ==
    /\ task' = [task EXCEPT ![r].pc = pc]
    /\ UNCHANGED row

TaskFrame == UNCHANGED <<job, loop, stop, env>>

Begin(r) ==
    /\ task[r].pc = "queued" /\ Cardinality(Active) < width
    /\ IF stop THEN Go(r, "idle")
       ELSE IF ceiling_reached
       THEN Finish(r, update_record_status(row[r], "COST_SKIPPED"))
       ELSE Go(r, "lookup")
    /\ TaskFrame /\ UNCHANGED <<cache, circuit, creditsOut, halted, costs>>

Lookup(r) ==
    LET hit == cache[MailOf[r]] IN
    /\ task[r].pc = "lookup"
    /\ IF hit # "none" THEN Finish(r, applied(row[r], r, hit))
       ELSE Cardinality(Asking) < Width /\ Go(r, "ask")     \* the client's limit
    /\ TaskFrame /\ UNCHANGED <<cache, circuit, creditsOut, halted, costs>>

\* Zuhal has charged for a verdict; a call that failed is put on the tracker
\* all the same.
Answered(r) ==
    /\ task[r].pc = "ask"
    /\ \E v \in Answers \cap (ApiVerdict \cup {"error"}) :
          /\ task' = [task EXCEPT ![r] =
                         [pc |-> IF v \in Cached THEN "store" ELSE "apply", verdict |-> v]]
          /\ taken' = IF v = "error" THEN taken ELSE [taken EXCEPT ![MailOf[r]] = @ + 1]
    /\ circuit' = [circuit EXCEPT ![r] = 0]
    /\ spent' = spent + 1
    /\ TaskFrame /\ UNCHANGED <<row, cache, creditsOut, halted, uncharged>>

\* Mutant: the row is not put back.
CreditsOutKeepsClaim(r) ==
    /\ task[r].pc = "ask" /\ (creditsOut \/ "credits" \in Answers)
    /\ creditsOut' = TRUE
    /\ Go(r, "idle")
    /\ TaskFrame /\ UNCHANGED <<cache, circuit, halted, costs>>

\* 402, or an earlier 402 of this run.
CreditsOut(r) ==
    /\ task[r].pc = "ask" /\ (creditsOut \/ "credits" \in Answers)
    /\ creditsOut' = TRUE
    /\ Finish(r, requeue_zuhal(row[r]))
    /\ TaskFrame /\ UNCHANGED <<cache, circuit, halted, costs>>

\* Mutant: free requeues are not counted.
requeueForever(r) ==
    /\ task[r].pc = "ask" /\ "circuit" \in Answers
    /\ Finish(r, requeue_zuhal(row[r]))
    /\ TaskFrame /\ UNCHANGED <<cache, circuit, creditsOut, halted, costs>>

\* Mutant: one free requeue too many.
requeueOncePastCap(r) ==
    /\ task[r].pc = "ask" /\ "circuit" \in Answers
    /\ IF circuit[r] + 1 > CircuitCap
       THEN /\ circuit' = [circuit EXCEPT ![r] = 0]
            /\ Finish(r, update_record_status(row[r], "VALIDATION_FAILED"))
       ELSE /\ circuit' = [circuit EXCEPT ![r] = @ + 1]
            /\ Finish(r, requeue_zuhal(row[r]))
    /\ TaskFrame /\ UNCHANGED <<cache, creditsOut, halted, costs>>

\* The breaker is open, or Zuhal has answered 429 to the last attempt, which
\* the client reports in the same way (zuhal_client.py:125-132).
requeue_or_give_up(r) ==
    /\ task[r].pc = "ask" /\ "circuit" \in Answers
    /\ IF circuit[r] + 1 >= CircuitCap
       THEN /\ circuit' = [circuit EXCEPT ![r] = 0]
            /\ Finish(r, update_record_status(row[r], "VALIDATION_FAILED"))
       ELSE /\ circuit' = [circuit EXCEPT ![r] = @ + 1]
            /\ Finish(r, requeue_zuhal(row[r]))
    /\ TaskFrame /\ UNCHANGED <<cache, creditsOut, halted, costs>>

Halt(r) ==
    /\ task[r].pc = "ask" /\ "halt" \in Answers
    /\ halted' = TRUE
    /\ Go(r, "idle")
    /\ TaskFrame /\ UNCHANGED <<cache, circuit, creditsOut, costs>>

Store(r) ==
    /\ task[r].pc = "store"
    /\ cache' = [cache EXCEPT ![MailOf[r]] = task[r].verdict]
    /\ Go(r, "apply")
    /\ TaskFrame /\ UNCHANGED <<circuit, creditsOut, halted, costs>>

Apply(r) ==
    /\ task[r].pc = "apply"
    /\ Finish(r, applied(row[r], r, task[r].verdict))
    /\ TaskFrame /\ UNCHANGED <<cache, circuit, creditsOut, halted, costs>>

-----------------------------------------------------------------------------
(* Bulk mode: _drain_bulk. *)

JobFrame == UNCHANGED <<task, circuit, loop, stop, env>>

\* The dictionary id_by_email keeps one row of those that share an address.
OnePerAddress(batch) ==
    {S \in SUBSET batch :
        /\ \A r \in batch : \E q \in S : MailOf[q] = MailOf[r]
        /\ \A q, r \in S : MailOf[q] = MailOf[r] => q = r}

hits(S) == {r \in S : cache[MailOf[r]] # "none"}

JobClaim(j) ==
    /\ job[j].pc = "claim"
    /\ IF ceiling_reached \/ Queue = {}
       THEN job' = [job EXCEPT ![j].pc = "done"] /\ UNCHANGED row
       ELSE \E batch \in Batches(BatchSize) : \E owners \in OnePerAddress(batch) :
               /\ row' = claimed(batch)
               /\ job' = [job EXCEPT ![j] =
                    [NoJob EXCEPT !.pc = "cached", !.rows = batch,
                                  !.owners = owners, !.todo = hits(owners)]]
    /\ JobFrame /\ UNCHANGED <<cache, creditsOut, halted, costs>>

\* Verdicts the cache knows are applied first; the rest is uploaded.
JobCached(j) ==
    /\ job[j].pc = "cached"
    /\ IF job[j].todo # {}
       THEN \E r \in job[j].todo :
               /\ row' = [row EXCEPT ![r] = applied(@, r, cache[MailOf[r]])]
               /\ job' = [job EXCEPT ![j].todo = @ \ {r}, ![j].owners = @ \ {r},
                                     ![j].drained = TRUE]
       ELSE /\ job' = [job EXCEPT ![j].pc = IF job[j].owners = {} THEN "done" ELSE "upload"]
            /\ UNCHANGED row
    /\ JobFrame /\ UNCHANGED <<cache, creditsOut, halted, costs>>

\* The addresses uploaded, one entry for each row of the batch that has one.
Uploaded(j) == {r \in job[j].rows : \E q \in job[j].owners : MailOf[q] = MailOf[r]}

JobUpload(j) ==
    /\ job[j].pc = "upload"
    /\ \E a \in IF creditsOut THEN {"credits"} ELSE Uploads :
          /\ job' = [job EXCEPT ![j] =
                [@ EXCEPT !.pc = CASE a = "ok"      -> "poll"
                                   [] a = "refused" -> "fail"
                                   [] a = "credits" -> "defer"
                                   [] a = "halt"    -> "done",
                          !.todo = IF a \in {"refused", "credits"} THEN job[j].rows ELSE {},
                          !.drained = FALSE]]
          /\ creditsOut' = (creditsOut \/ a = "credits")
          /\ halted' = (halted \/ a = "halt")
          /\ IF a = "ok"
             THEN /\ uncharged' = uncharged + Cardinality(Uploaded(j))
                  /\ taken' = [e \in Emails |->
                        taken[e] + Cardinality({r \in Uploaded(j) : MailOf[r] = e})]
             ELSE UNCHANGED <<uncharged, taken>>
    /\ JobFrame /\ UNCHANGED <<row, cache, spent>>

\* Mutant: a batch is not charged.
chargeNothing(n) == UNCHANGED <<spent, uncharged>>

\* cost_tracker.record_call("zuhal", n)
charge(n) == spent' = spent + n /\ uncharged' = uncharged - n

\* The job is polled, with a heartbeat on its rows, until it ends.  Credits go
\* on the tracker only when there are results.
JobEnd(j) ==
    LET n == Cardinality(Uploaded(j)) IN
    /\ job[j].pc = "poll"
    /\ row' = [r \in Records |-> IF r \in job[j].owners THEN touch_zuhal_validating(row[r])
                                                        ELSE row[r]]
    /\ \/ /\ "complete" \in JobEnds
          /\ \E got \in [job[j].owners -> BulkVerdicts] :
                job' = [job EXCEPT ![j].pc = "results", ![j].todo = job[j].owners,
                            ![j].got = [r \in Records |->
                                IF r \in job[j].owners THEN got[r] ELSE "none"]]
          /\ charge(n)
       \/ /\ "failed" \in JobEnds
          /\ job' = [job EXCEPT ![j].pc = "fail", ![j].todo = job[j].rows,
                                ![j].drained = FALSE]
          /\ UNCHANGED <<spent, uncharged>>
    /\ JobFrame /\ UNCHANGED <<cache, creditsOut, halted, taken>>

\* A step of the loops that write the batch row by row; new[r] is what r becomes.
JobWrites(j, pc, new) ==
    /\ job[j].pc = pc
    /\ IF job[j].todo # {}
       THEN \E r \in job[j].todo :
               /\ row' = [row EXCEPT ![r] = new[r]]
               /\ job' = [job EXCEPT ![j].todo = @ \ {r}]
               /\ LET v == job[j].got[r] IN
                  cache' = IF pc = "results" /\ v \in Cached
                           THEN [cache EXCEPT ![MailOf[r]] = v] ELSE cache
       ELSE /\ job' = [job EXCEPT ![j].pc = "done", ![j].drained = (pc = "results")]
            /\ UNCHANGED <<row, cache>>
    /\ JobFrame /\ UNCHANGED <<creditsOut, halted, costs>>

JobResults(j) == JobWrites(j, "results", [r \in Records |-> applied(row[r], r, job[j].got[r])])

\* Mutant: a failed batch is put back and uploaded again.
requeue_batch(j) == JobWrites(j, "fail", [r \in Records |-> requeue_zuhal(row[r])])

fail_batch(j) ==
    JobWrites(j, "fail", [r \in Records |-> update_record_status(row[r], "VALIDATION_FAILED")])

JobDefer(j) == JobWrites(j, "defer", [r \in Records |-> requeue_zuhal(row[r])])

-----------------------------------------------------------------------------
(* The surroundings. *)

EnvFrame == UNCHANGED <<cache, task, job, circuit, loop, flags, costs, starts>>

\* The SMTP stage of the same run: a row appears, is claimed, is handed over.
SmtpStage(r) ==
    /\ running /\ ~smtpDone
    /\ \/ row[r].state = "ABSENT" /\ row' = [row EXCEPT ![r] = FreshRow("DISCOVERED")]
       \/ row[r].state = "DISCOVERED" /\ row' = [row EXCEPT ![r] = fetch_pending_validation(@)]
       \/ row[r].state = "VALIDATING" /\ row' = [row EXCEPT ![r] = handoff_to_zuhal(@, MailOf[r])]
    /\ EnvFrame /\ UNCHANGED smtpDone

SmtpEnds ==
    /\ running /\ ~smtpDone
    /\ smtpDone' = TRUE
    /\ EnvFrame /\ UNCHANGED row

Stop ==
    /\ CanStop /\ running /\ ~stop /\ starts < MaxStarts
    /\ stop' = TRUE
    /\ UNCHANGED <<row, cache, task, job, circuit, loop, creditsOut, halted, costs,
                   env>>

\* The bulk job goes on at Zuhal; everything in memory here is lost.
Crash ==
    /\ CanCrash /\ running /\ starts < MaxStarts
    /\ mode' = "down"
    /\ task' = [r \in Records |-> Idle] /\ job' = [j \in Jobs |-> NoJob]
    /\ UNCHANGED <<row, cache, circuit, empties, width, okBatches, flags, costs,
                   env>>

\* Two hours pass over an orphaned claim.
GrowsStale(r) ==
    /\ row[r].state = "ZUHAL_VALIDATING" /\ ~row[r].stale
    /\ task[r].pc = "idle" /\ \A j \in Jobs : r \notin job[j].rows
    /\ row' = [row EXCEPT ![r].stale = TRUE]
    /\ EnvFrame /\ UNCHANGED smtpDone

-----------------------------------------------------------------------------

TaskStep(r) ==
    \/ Begin(r) \/ Lookup(r) \/ Answered(r) \/ CreditsOut(r) \/ requeue_or_give_up(r)
    \/ Halt(r) \/ Store(r) \/ Apply(r)

JobStep(j) ==
    \/ JobClaim(j) \/ JobCached(j) \/ JobUpload(j) \/ JobEnd(j)
    \/ JobResults(j) \/ fail_batch(j) \/ JobDefer(j)

LoopStep ==
    \/ StopSeen \/ ChooseMode \/ BulkGathered \/ NothingToClaim \/ CheckPending \/ Gathered
    \/ \E batch \in SUBSET Records : Claim(batch)

Environment ==
    \/ Start \/ SmtpEnds \/ Stop \/ Crash
    \/ \E r \in Records : SmtpStage(r) \/ GrowsStale(r)

Next ==
    \/ LoopStep \/ Environment
    \/ (\E r \in Records : TaskStep(r)) \/ (\E j \in Jobs : JobStep(j))

\* The event loop runs every ready coroutine, Zuhal answers in the end, the
\* SMTP stage ends, time passes and a stopped run is followed by another.
Fairness ==
    /\ WF_vars(LoopStep) /\ WF_vars(Start) /\ WF_vars(SmtpEnds)
    /\ \A r \in Records : WF_vars(TaskStep(r)) /\ WF_vars(GrowsStale(r))
    /\ \A j \in Jobs : WF_vars(JobStep(j))

Spec == Init /\ [][Next]_vars
FairSpec == Spec /\ Fairness

-----------------------------------------------------------------------------
(* Properties. *)

TypeOK ==
    /\ row \in [Records -> Row]
    /\ cache \in [Emails -> Cached \cup {"none"}]
    /\ task \in [Records -> Task]
    /\ job \in [Jobs -> Job]
    /\ circuit \in [Records -> 0 .. CircuitCap - 1]
    /\ mode \in Modes /\ empties \in 0 .. EmptyThreshold
    /\ width \in MinWidth .. MaxWidth /\ okBatches \in 0 .. ScaleUpAfter - 1
    /\ {creditsOut, stop, halted, smtpDone} \subseteq BOOLEAN
    /\ spent \in Nat /\ uncharged \in Nat
    /\ taken \in [Emails -> Nat]
    /\ starts \in 0 .. MaxStarts

\* Nothing is left claimed when the loop leaves by itself, drained or out of
\* credits: what could not be paid for is back in the queue for the next run
\* (zuhal_dispatcher.py:70-72, 152-156).
GracefulExitLeavesNoClaim ==
    mode = "exited" /\ ~stop /\ ~halted =>
        \A r \in Records :
            /\ row[r].state # "ZUHAL_VALIDATING"
            /\ creditsOut \/ row[r].state # "NEEDS_ZUHAL"

\* Jobs and tasks check the ceiling before they call and charge afterwards: it
\* is overshot by no more than one round of either (193, 314).
Round == LET b == Cardinality(Jobs) * BatchSize IN IF b > MaxWidth THEN b ELSE MaxWidth
SpendBounded == spent < Ceiling + Round

\* Nobody pays twice for an address (README, zuhal_dispatcher.py:420).
PaidOnce == \A e \in Emails : taken[e] <= 1

\* What the ceiling never sees is bounded by what it has cost in rows: a credit
\* taken off the record belongs to a row of this database that is written off
\* and not uploaded again (268-275), whatever the jobs beside it come to.
WrittenOff == {r \in Records : row[r].state = "VALIDATION_FAILED"}
CreditsLostAreWrittenOff == mode = "top" => uncharged <= Cardinality(WrittenOff)

\* The rows a job has yet to write.
Held(j) == IF job[j].pc \in {"cached", "upload", "poll"} THEN job[j].owners ELSE job[j].todo

\* A row stays claimed as long as a coroutine works for it, and only one does,
\* so a verdict that was paid for never lands on a row another one has settled
\* (the claims of db/zuhal_queue.py:55-71 against the writes of _drain_bulk).
WorkersOwnClaims ==
    /\ \A r \in Records :
          task[r].pc # "idle" => row[r].state = "ZUHAL_VALIDATING" /\ mode = "gather"
    /\ \A j \in Jobs :
          /\ job[j].pc # "none" => mode = "bulk"
          /\ job[j].pc \in {"cached", "upload", "poll", "results"} =>
                 \A r \in Held(j) : row[r].state = "ZUHAL_VALIDATING"
          /\ \A k \in Jobs \ {j} : Held(j) \cap Held(k) = {}

\* The free requeues of a run are capped: a Zuhal that never answers cannot
\* keep a row going round (382-393), and every row handed over is settled.
EveryHandoffSettles ==
    \A r \in Records : row[r].state = "NEEDS_ZUHAL" ~> row[r].state \in Terminal

\* ... and then the worker comes to an end by itself (152-156).
RunEnds == <>[](mode = "exited")

\* A row returns to the queue from a claim only (db/zuhal_queue.py:125).
OnlyClaimsReturn ==
    [][\A r \in Records :
          row[r].state # "NEEDS_ZUHAL" /\ row'[r].state = "NEEDS_ZUHAL" =>
              row[r].state \in {"VALIDATING", "ZUHAL_VALIDATING"}]_vars

-----------------------------------------------------------------------------

PhaseOf(s) ==
    CASE s = "ABSENT"            -> "absent"
      [] s = "DISCOVERED"        -> "waiting"
      [] s = "VALIDATING"        -> "claimed"
      [] s = "NEEDS_ZUHAL"       -> "paid"
      [] s = "ZUHAL_VALIDATING"  -> "paidClaimed"
      [] s = "VALIDATED"         -> "accepted"
      [] s = "VALIDATION_FAILED" -> "failed"
      [] s = "COST_SKIPPED"      -> "skipped"

Lifecycle == INSTANCE RecordLifecycle WITH
    MaxReturns <- 0,
    phase   <- [r \in Records |-> PhaseOf(row[r].state)],
    returns <- [r \in Records |-> row[r].requeues]

\* The paid stage takes every row through the life RecordLifecycle promises.
KeepsLifecycle == Lifecycle!Spec

=============================================================================
