--------------------------- MODULE BbopsConsumer ---------------------------
(***************************************************************************)
(* The batched backend (pipeline/consumers/bbops_async.py) and its table   *)
(* bbops_jobs (pipeline/db/bbops_jobs.py): verify() puts an item in a      *)
(* queue, one flusher makes batches of them, and every batch has a task of *)
(* its own that submits it, notes it in the table, polls the service and   *)
(* settles the futures.                                                    *)
(*                                                                         *)
(* A future is <<record, n>>, the record's n-th verify().  Batches are     *)
(* numbered as they are made; the service's job id stands for batch and    *)
(* address.                                                                *)
(***************************************************************************)
EXTENDS Naturals, Sequences, SequencesExt

CONSTANTS
    Records, Email,              (* records, and the candidate of each      *)
    Races, MaxBatches,           (* bounds: verify() calls of a record, batches *)
    batch_size, max_inflight,
    FailThreshold, OkThreshold,  (* health_fail_threshold, health_ok_...    *)
    BbopsStatus                  (* what _normalize_bbops_status may return *)

ASSUME BbopsAssumption ==
    /\ DOMAIN Email = Records /\ Races \in [Records -> Nat \ {0}]
    /\ {MaxBatches, batch_size, max_inflight} \subseteq Nat \ {0}
    /\ {FailThreshold, OkThreshold} \subseteq Nat \ {0}
    /\ BbopsStatus \subseteq {"valid", "invalid", "catch_all", "blocked", "error"}

Futures  == UNION {{r} \X (1..Races[r]) : r \in Records}
Batches  == 1..MaxBatches
emailOf(f) == Email[f[1]]

VARIABLES
    future,                 \* of every verify()
    queue, items,           \* waiting for the flusher, and in its hands
    task, inBatch,          \* of every batch: where its task is, its items
    answers, toMark,        \* of every batch: results by address, and those not marked
    jobs,                   \* bbops_jobs: <<record, address>> -> [batch, done]
    _healthy, failed, ok,   \* consecutive failures and successes, up to the thresholds
    stopped

bbopsHealth == <<_healthy, failed, ok>>
bbopsWork   == <<queue, items, task, inBatch, answers, toMark>>
bbops       == <<future, bbopsWork, jobs, bbopsHealth, stopped>>

NoResults == [e \in {} |-> "error"]
NoJobs    == [k \in {} |-> [batch |-> 0, done |-> "no"]]

AtWork == {"submit", "persist", "poll", "mark"}

BbopsTypeOK ==
    /\ future \in [Futures -> {"none", "waiting", "cancelled", "error"} \cup BbopsStatus]
    /\ ToSet(queue) \cup ToSet(items) \subseteq Futures /\ Len(items) <= batch_size
    /\ task \in [Batches -> {"none", "sem", "over", "dead", "lost", "recover"} \cup AtWork]
    /\ \A b \in Batches : ToSet(inBatch[b]) \subseteq Futures
    /\ Cardinality({b \in Batches : task[b] \in AtWork}) <= max_inflight
    /\ DOMAIN jobs \subseteq Records \X Range(Email)
    /\ _healthy \in BOOLEAN /\ failed \in 0..FailThreshold /\ ok \in 0..OkThreshold

BbopsInit ==
    /\ future = [f \in Futures |-> "none"] /\ queue = <<>> /\ items = <<>>
    /\ task = [b \in Batches |-> "none"] /\ inBatch = [b \in Batches |-> <<>>]
    /\ answers = [b \in Batches |-> NoResults] /\ toMark = [b \in Batches |-> {}]
    /\ jobs = NoJobs /\ _healthy = TRUE /\ failed = 0 /\ ok = 0 /\ stopped = FALSE

becomes(b, pc) == task' = [task EXCEPT ![b] = pc]

_mark_failure ==
    /\ failed' = Min({failed + 1, FailThreshold}) /\ ok' = 0
    /\ _healthy' = (_healthy /\ failed' < FailThreshold)

_mark_success ==
    /\ ok' = Min({ok + 1, OkThreshold}) /\ failed' = 0
    /\ _healthy' = (_healthy \/ ok' = OkThreshold)

-----------------------------------------------------------------------------
(* Callers and the flusher                                                 *)

Enqueue(f) ==
    /\ future' = [future EXCEPT ![f] = "waiting"] /\ queue' = Append(queue, f)

\* _drain_queue, one get().
Drain ==
    /\ ~stopped /\ queue # <<>> /\ Len(items) < batch_size
    /\ items' = Append(items, Head(queue)) /\ queue' = Tail(queue)
    /\ UNCHANGED <<future, task, inBatch, answers, toMark, jobs, bbopsHealth, stopped>>

\* The batch is full, or large or old enough when the interval ends.
Flush ==
    /\ ~stopped /\ items # <<>>
    /\ \E b \in Batches :
         /\ task[b] = "none" /\ \A a \in 1..(b - 1) : task[a] # "none"
         /\ becomes(b, "sem") /\ inBatch' = [inBatch EXCEPT ![b] = items]
    /\ items' = <<>>
    /\ UNCHANGED <<future, queue, answers, toMark, jobs, bbopsHealth, stopped>>

-----------------------------------------------------------------------------
(* The task of a batch                                                     *)

EnterSem(b) ==
    /\ task[b] = "sem" /\ Cardinality({a \in Batches : task[a] \in AtWork}) < max_inflight
    /\ becomes(b, "submit")
    /\ UNCHANGED <<future, queue, items, inBatch, answers, toMark, jobs, bbopsHealth, stopped>>

waitingIn(b) == {f \in ToSet(inBatch[b]) : future[f] = "waiting"}

settleAll(b, status) ==
    future' = [f \in Futures |-> IF f \in waitingIn(b) THEN status ELSE future[f]]

Submit(b) ==
    /\ task[b] = "submit"
    /\ \/ becomes(b, "persist") /\ _mark_success /\ UNCHANGED future
       \/ becomes(b, "over") /\ _mark_failure /\ settleAll(b, "error")
    /\ UNCHANGED <<queue, items, inBatch, answers, toMark, jobs, stopped>>

rowsOf(b) == {<<f[1], emailOf(f)>> : f \in ToSet(inBatch[b])}

\* INSERT OR IGNORE, with record and address as the key.
insert(b, keys) ==
    jobs' = [k \in DOMAIN jobs \cup keys |->
               IF k \in DOMAIN jobs THEN jobs[k] ELSE [batch |-> b, done |-> "no"]]

\* Rows of a failed insert may be committed by another coroutine.
Persist(b) ==
    /\ task[b] = "persist"
    /\ \/ becomes(b, "poll") /\ insert(b, rowsOf(b)) /\ UNCHANGED <<future, bbopsHealth>>
       \/ /\ becomes(b, "over") /\ _mark_failure /\ settleAll(b, "error")
          /\ \E keys \in SUBSET rowsOf(b) : insert(b, keys)
    /\ UNCHANGED <<queue, items, inBatch, answers, toMark, stopped>>

\* The first loop of _resolve_futures; as a mutant of it: futures that got no
\* result are left alone.
resolveMatched(b, results) ==
    future' = [f \in Futures |->
                 IF f \in waitingIn(b) /\ emailOf(f) \in DOMAIN results
                 THEN results[emailOf(f)] ELSE future[f]]

_resolve_futures(b, results) ==
    future' = [f \in Futures |->
                 IF f \notin waitingIn(b) THEN future[f]
                 ELSE IF emailOf(f) \in DOMAIN results THEN results[emailOf(f)] ELSE "error"]

\* _poll_batch, _fetch_batch_jobs: all, some or, after a timeout, no results.
Poll(b) ==
    /\ task[b] = "poll"
    /\ \E E \in SUBSET {emailOf(f) : f \in ToSet(inBatch[b])} :
         \E results \in [E -> BbopsStatus] :
           /\ answers' = [answers EXCEPT ![b] = results]
           /\ toMark' = [toMark EXCEPT ![b] = E]
           /\ _resolve_futures(b, results)
    /\ becomes(b, "mark")
    /\ UNCHANGED <<queue, items, inBatch, jobs, bbopsHealth, stopped>>

\* A reply of an unexpected shape raises outside the try blocks, after a
\* submit, in a poll or at one of the results, and ends the task: what was not
\* settled by then stays as it is.
Malformed(b) ==
    /\ becomes(b, "dead") /\ toMark' = [toMark EXCEPT ![b] = {}]
    /\ \/ task[b] = "submit" /\ _mark_success /\ UNCHANGED <<future, answers>>
       \/ /\ task[b] = "poll" /\ UNCHANGED bbopsHealth
          /\ \E E \in SUBSET {emailOf(f) : f \in ToSet(inBatch[b])} :
               \E results \in [E -> BbopsStatus] :
                 answers' = [answers EXCEPT ![b] = results] /\ resolveMatched(b, results)
    /\ UNCHANGED <<queue, items, inBatch, jobs, stopped>>

\* Mutant: the row of the address, whichever batch it is of.
markByEmail(b, e) ==
    jobs' = [k \in DOMAIN jobs |-> IF k[2] = e THEN [jobs[k] EXCEPT !.done = answers[b][e]] ELSE jobs[k]]

\* WHERE job_id = ?
mark_bbops_job_done(b, e) ==
    jobs' = [k \in DOMAIN jobs |-> IF k[2] = e /\ jobs[k].batch = b
                                   THEN [jobs[k] EXCEPT !.done = answers[b][e]] ELSE jobs[k]]

Mark(b) ==
    /\ task[b] = "mark"
    /\ \/ \E e \in toMark[b] :
            /\ toMark' = [toMark EXCEPT ![b] = @ \ {e}]
            /\ \/ mark_bbops_job_done(b, e) /\ UNCHANGED bbopsHealth
               \/ _mark_failure /\ UNCHANGED jobs
            /\ UNCHANGED task
       \/ toMark[b] = {} /\ becomes(b, "over") /\ UNCHANGED <<toMark, jobs, bbopsHealth>>
    /\ UNCHANGED <<future, queue, items, inBatch, answers, stopped>>

-----------------------------------------------------------------------------

\* _health_loop
HealthCheck ==
    /\ ~stopped /\ (_mark_success \/ _mark_failure)
    /\ UNCHANGED <<future, bbopsWork, jobs, stopped>>

\* What the flusher held is dropped; the tasks of the batches go on.
Stop ==
    /\ ~stopped /\ stopped' = TRUE /\ items' = <<>>
    /\ UNCHANGED <<future, queue, task, inBatch, answers, toMark, jobs, bbopsHealth>>

submitted(b) == \E k \in DOMAIN jobs : jobs[k].batch = b /\ jobs[k].done = "no"

\* The process is gone; recover_inflight of the next one polls what the table
\* has as submitted.
crashed ==
    /\ future' = [f \in Futures |-> IF future[f] = "waiting" THEN "cancelled" ELSE future[f]]
    /\ queue' = <<>> /\ items' = <<>>
    /\ task' = [b \in Batches |-> IF task[b] = "none" THEN "none"
                                  ELSE IF submitted(b) THEN "recover" ELSE "lost"]
    /\ toMark' = [b \in Batches |-> {}]
    /\ _healthy' = TRUE /\ failed' = 0 /\ ok' = 0 /\ stopped' = FALSE
    /\ UNCHANGED <<inBatch, answers, jobs>>

\* The results are counted for the log; nothing is settled and no row is marked.
_poll_and_resolve_recovery(b) ==
    /\ task[b] = "recover" /\ becomes(b, "lost")
    /\ UNCHANGED <<future, queue, items, inBatch, answers, toMark, jobs, bbopsHealth, stopped>>

BatchStep(b) ==
    \/ EnterSem(b) \/ Submit(b) \/ Persist(b) \/ Poll(b) \/ Malformed(b) \/ Mark(b)
    \/ _poll_and_resolve_recovery(b)

BbopsNext == Drain \/ Flush \/ HealthCheck \/ Stop \/ \E b \in Batches : BatchStep(b)

-----------------------------------------------------------------------------

(* As long as the consumer runs, whoever waits for a verdict is still on   *)
(* the way, in the queue, with the flusher or in a batch that has yet to   *)
(* be polled, unless a malformed reply has ended the task of its batch.    *)
(* No failing request, short result list or failing write leaves a caller  *)
(* to its timeout.                                                         *)
NobodyForgotten ==
    stopped \/ \A f \in Futures : future[f] = "waiting" =>
        \/ f \in ToSet(queue) \cup ToSet(items)
        \/ \E b \in Batches :
             f \in ToSet(inBatch[b]) /\ task[b] \in {"sem", "submit", "persist", "poll", "dead"}

(* A row of bbops_jobs that is done carries what the batch named in it     *)
(* found, also when the address was asked for again by later batches.      *)
DoneRowsAnswered ==
    \A k \in DOMAIN jobs : jobs[k].done # "no" =>
        k[2] \in DOMAIN answers[jobs[k].batch] /\ jobs[k].done = answers[jobs[k].batch][k[2]]

=============================================================================
