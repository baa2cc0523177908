# A TLA+ model of the us-z-3 e-mail verification pipeline

The pipeline finds the web domain of a business, generates candidate e-mail
addresses and verifies them: first with free SMTP probes, then, where these
cannot tell, with paid calls to Zuhal. It is one `asyncio` process on one SQLite
database: every stage is a poll loop that claims rows by moving their `state`,
awaits some network service and writes the row back. What is hard about it is not
any single step but what happens between them: claims that outlive their owner,
budgets that are checked before an await and charged after it, loops that have to
decide that nothing will come any more, and rows that go round and round.

This project models the two verification stages of the pipeline, the table they
share and the verdict policy; the run of the process around them, with producer,
master flush and shutdown on one connection; the two free backends and the tunnel
under them; and the services that the stages call or that watch them. It checks them
with TLC on small instances, and proves the properties listed in section 5 with
TLAPS for every value of the constants.

## 1. Inventory

Paths are relative to `src/`.

| Component | State | Operations | Where |
|---|---|---|---|
| Record store, `pipeline/db/` | table `records`: `state`, three retry counters and an attempt counter, `retry_after`, `updated_at`, `candidate_email`, verdict columns; checkpoints; caches | claim, requeue, status, dual verdict, hand-off, stale recovery, reset, batch insert, transactions | the UPDATEs in `Rows`; connection and batch insert in `Store`, `Producer` |
| Verdict policy, `pipeline/reconcile.py`, `verdicts.py` | none | OR-of-valids, normalisation | `Verdicts` |
| SMTP dispatcher, `pipeline/dispatcher.py`, `dispatch_verdicts.py`, `dispatch_probes.py`, `_dispatch_helpers.py` | the poll loop, one task per claimed row, semaphore, cost tracker, stop event | poll, claim a chunk, probe candidates, reconcile, requeue, hand off, inline rescue, harvest and Serper fallback, exit | `Dispatcher` |
| Zuhal dispatcher, `pipeline/zuhal_dispatcher.py`, `db/zuhal_queue.py` | the poll loop, tasks, bulk jobs, credits flag, adaptive width, requeue counts | single calls, bulk upload, poll and download, cache, defer, fail, give up | `ZuhalDispatcher` |
| Zuhal client, `utils/zuhal_client.py` | circuit breaker, backoff, limiter, credits flag | validate, bulk validate | `ZuhalClient`; bulk jobs in `ZuhalDispatcher` |
| Producer, `pipeline/producer.py` and discovery helpers | offset, batch, retry rounds, `producer_done` | read a chunk, discover, insert, retry, end, heartbeat | `Producer` |
| Process lifecycle, `pipeline/__main__.py` | stop event, tasks, connection | start, gather, signal, final flush, report, close, restart | `Pipeline`; signal and reset also in `Dispatcher` |
| Master database flush, `ops/master_db.py` | watermark, copied records | flush, final flush | `MasterFlush` |
| Race of the backends, `dispatch_probes.py` | two tasks per record | start, answer, time out, settle, cancel | `Backends` |
| Racknerd consumer and Spamhaus guard, `consumers/racknerd.py` | semaphore, MX cache, guard per provider | resolve, wait, probe, block | `Racknerd` |
| bbops consumer, `consumers/bbops_async.py`, `db/bbops_jobs.py` | queue, batches, futures, health, job table | enqueue, drain, submit, persist, poll, resolve, mark, recover, stop | `BbopsConsumer` |
| SSH tunnel, `tunnels/ssh_socks.py` | process, ready and stop events, backoff | start, spawn, supervise, stop | `SshTunnel` |
| Serper client, `utils/serper_client.py` | cache, fields describing the last call, fallbacks to charge | enrich, charge | `SerperClient` |
| Cost tracker, limiter, backoff, `utils/` | calls and cost; tokens | record, acquire, retry | `TokenBucket`, the clients, ceiling in both dispatchers |
| Fleet, `fleet/manager.py`, `worker.py`, `balancer.py`, `health.py` | gates per domain, workers with tokens, cooldowns and failures | pass the gate, pick, probe, reroute, cool | `FleetManager` |
| Fleet supervision, `fleet/control.py`, `provisioner.py` | pool, servers, inventory, reprovisions | look, replace, scale, provision, drain, delete | `FleetSupervisor` |
| Pass-off watcher, `ops/passoff_watcher.py`, `manifest.py` | fingerprints, manifest flags, hand-off file | scan, ingest, collect, write, mark | `Passoff` |
| Orchestrator, batch scripts of `ops/`, `zerobounce/`, snapshots and R2, metrics, dashboard | files | one-shot | not modelled, see section 6 |

### How they interact

The stages never call each other. They share three things: the `records` table,
through one autocommitting connection; the checkpoint `producer_done`; and one
stop event. The producer inserts rows as DISCOVERED; the SMTP dispatcher claims
them (VALIDATING) and finishes them (VALIDATED, VALIDATION_FAILED, COST_SKIPPED),
gives them back (DISCOVERED, perhaps held until `retry_after`), or hands them over
(NEEDS_ZUHAL); the Zuhal dispatcher claims those (ZUHAL_VALIDATING) and finishes
them or puts them back. Each later stage ends when the one before has announced its
end and its own queue has been found empty. On a signal the loops leave at their
next look at the stop event and claims stay in the table; the next start recovers
the ones whose `updated_at` is old enough.

### What is hard, and what would make it correct

* *Claims and crashes.* A row has one owner; a claim whose owner is gone comes back;
  no row is lost and none is written by two owners.
* *Retry budgets.* Four counters, each for one reason to go round, are checked at
  the start of a task and raised at its end, by requeues, recoveries and resets.
  Together they must bound the rounds and not cut a row off unseen.
* *Exit decisions.* A loop asks "no claimable row?", "producer done?", "nothing
  pending?" in three queries with awaits between. It must neither leave early nor stay.
* *Money.* The ceiling is read before a call and raised after it, by many tasks at
  once: how far can it be overshot, and is every credit on the tracker?
* *Batches that fail half way.* A bulk job writes row by row, from two sources, and
  fails or defers as a whole.
* *Verdicts of two unreliable backends.* One valid must be enough, whatever the
  other does.

`PROJECT.json` lists every such hazard at the line where it bites, and the property
that would show it going wrong.

## 2. Modules

| Module | Models | Built on |
|---|---|---|
| `Verdicts` | `reconcile` and `normalize_verdict` as operators on the verdict vocabulary | |
| `Rows` | a row of `records`, and one operator per UPDATE of `pipeline/db` | `Verdicts` |
| `RecordLifecycle` | the abstract promise about a record's life | |
| `Dispatcher` | the SMTP dispatcher, its tasks and surroundings | `Rows`, instance of `RecordLifecycle` |
| `ZuhalDispatcher` | the decoupled paid stage | `Rows`, instance of `RecordLifecycle` |
| `Store` | the shared connection: what is executed, committed, undone | |
| `Producer`, `MasterFlush` | reading and discovering the input; the copy of what has ended | `Store` |
| `Pipeline` | a run of the process and the next one | `Producer`, `MasterFlush` |
| `Racknerd`, `BbopsConsumer` | the two free backends | |
| `Backends` | `run_backends`, the race of the two, and a kill | `Racknerd`, `BbopsConsumer` |
| `SshTunnel` | the tunnel's process and supervisor | |
| `TokenBucket`, `SerperClient` | the rate limiter; paid searches behind it | `SerperClient` on `TokenBucket` |
| `ZuhalClient` | calls behind semaphore, retries and breaker | |
| `FleetManager`, `FleetSupervisor` | SMTP workers; replacing and scaling them | `Places`; the second on the first |
| `Passoff` | the pass-off watcher and the manifest | `Places` |
| `Places` | what a loop keeps of a list, without recursion | |
| `RowsProofs`, `DispatcherProofs`, `DispatcherRefinement` | lemmas on each UPDATE; the invariant and its theorems; the refinement and the drained exit | `Dispatcher` |
| `DispatcherPromises` | ceiling, charges, valid verdicts and the search before giving up | `DispatcherRefinement` |
| `ZuhalDispatcherProofs` | claims, exit, refinement, types and money of the paid stage | `ZuhalDispatcher`, `RowsProofs` |
| `PipelineProofs` | the safety of a run and of the next one | `Pipeline` |
| `BackendsProofs` | the race and the batches; the tunnel | `Backends`, `SshTunnel` |
| `ServicesProofs` | the rate limiter, searches, Zuhal calls, the fleet and its supervisor, the watcher | their modules |
| `MCDispatcher`, `MCZuhal`, `MCPipeline`, `MCBackends`, `MCServices` | instances for TLC | |

`Pipeline` and the dispatchers cut the system at different places. `Dispatcher` has all
of a task and takes the producer as an environment; `Pipeline` has all of the producer,
the connection and the process, and takes a task as two steps, its verdict and the
commit of it.

An action is one stretch of a coroutine from one `await` to the next: `asyncio` runs
it without interruption, and the database is autocommitting, so each UPDATE is a
step of whoever issues it. Two consecutive UPDATEs with an await between them are two
actions.

**Rows.** The columns that decide what happens to a record are kept. Timestamps are
kept as what the queries ask of them: `held` for `retry_after > now`, `stale` for
`updated_at` older than the recovery timeout (five minutes for the SMTP stage, two
hours for the paid one). `ABSENT` is a record not inserted yet.

**Dispatcher.** `mode` is where the loop stands between its awaits: `poll` (line
136), `readDone` (145), `checkPending` (147), `gather` (169). `task[r].pc` is where a
task stands: `queued` at the semaphore, `next` at the top of the candidate loop, `ms`,
`smtp`, `zuhal`, `rescue`, `settle`, `fallback`, `harvest`, `serper` in the await of
that call. A candidate is an address and three Booleans for the scores the code
compares with thresholds: well formed, worth a paid call, above the floor for a
catch-all. `conf` holds the two settings the rescue depends on, chosen anew at each
start. The history variables `billed` and `hist` record what properties ask about and
are read by no action.

**ZuhalDispatcher.** `mode` is again the place in the loop; `task` the single-call
tasks; `job` the bulk jobs with the batch (`rows`), the dictionary `id_by_email`
(`owners`, one row per address) and the rows still to be written (`todo`), so that a
crash can fall between any two writes. `cache` survives runs, the flags and
`circuit` do not. `uncharged` and `taken` are histories of the credits Zuhal has taken.

**RecordLifecycle.** Five phases before the end and three ends; the free stage may
give a record back `MaxReturns` times; accepted records stay accepted, and a record in
the paid stage never returns to the free one. Both dispatchers refine it: the phase
comes from `state` and the returns from `requeue_count`.

**Store.** Every coroutine uses one connection in autocommit mode, and the producer's
batch insert opens a transaction on it. `mem` is what the connection sees, `disk` what
a crash leaves and what the master flush, with connections of its own, reads.
`execute` writes `mem`, and `disk` too unless a transaction is open; anybody's `commit`
ends it, and a `rollback` takes everybody's writes with it.

**Producer.** `ppc` is the await it is in: `read`, `discover`, `insert` (row by row),
`checkpoint`, `commit`, then `retryFetch`, `retryDiscover`, `retryWrite` of the retry
rounds, `finish`. `read`, `batch` and `next` are the local variables of a chunk.

**Pipeline.** `phase` is where `cmd_run` is: `running` in the gather, `flushing`,
`reporting`, `closing`; `dpc` and `worker` the verification stage. A kill, and the end
of a process, are `Gone`: what is open is rolled back, everything in memory is lost.

**Backends.** `race` and `nth` say how a record's race stands and the how-many-eth it
is; `rk` and `bb` what each side said, `none` while its task is pending. A future of
bbops is `<<record, n>>`. Batches are numbered as they are made, and `task` says where
each one's task is; `jobs` is the table, by record and address, and is what a kill leaves.

**SerperClient, ZuhalClient, FleetManager.** Each caller is a coroutine with a place
(`spc`, `zpc`, `vpc`) in its awaits; the shared fields are the client's. In
`FleetSupervisor` the cycle is one coroutine, whose place is `cpc`. What follows `enrich()`
belongs to a search too: the producer charges at once (`producer.py:314-323`), the dispatcher
(the callers in `Hinted`) writes `serper_enriched` first, in the place `mark`, and charges after
a search that failed as well (`_dispatch_helpers.py:241-249`). `own` is a history of what a call got.

**Passoff.** `written` is how far each result file has grown, `buffer` what the
hand-off file has not flushed. The counts of addresses are of the rows on disk.

### Abstractions

* A row's snapshot in a task is the row itself: nobody else writes a claimed row
  (that is `TasksOwnClaims`), one process runs per database.
* `LIMIT` and the semaphore pick any rows or tasks: the code's ORDER BY is not
  relied on.
* Records have a candidate domain; the producer writes no others as DISCOVERED.
* The backpressure pause before a hand-off is part of the hand-off; it only delays.
* Traces, messages, pattern statistics and metrics are left out.
* An inline 402 counts as an open circuit, as in `dispatch_probes.py:59-74`.
* In `ZuhalDispatcher` the SMTP stage is `SmtpStage` and `SmtpEnds`. Rows without an
  address cannot be in the queue (only `handoff_to_zuhal` fills it), so branches for
  them are left out. The client reports a 429 as an open circuit
  (`zuhal_client.py:125-132`), so the branch of the dispatcher that halves its width
  (349) cannot be reached and the width only grows. `zuhal_jobs` is written and never
  read. Cache lookups of a batch are one step, and so is writing a verdict of
  a bulk result together with its cache entry.
* Batch sizes, concurrency and thresholds are constants of the modules.
* In `Pipeline` discovery comes to any result, with at most `MaxOutages` transient
  ones in all (the retry loop is otherwise endless), and claims of an earlier run are
  old when they are looked for.
* An SMTP dialogue is one answer; times (batch ages, poll intervals, cooldowns, cache
  lifetimes) are choices. A job id of bbops stands for batch and address. Retried
  polls are part of the one poll that comes to an end.
* In `TokenBucket` the unit of time is what one token takes, and the bucket holds whole
  tokens.
* A worker's rolling window of probes is reduced to whether it has enough of them: `overRate`
  stands for a rate of blocks or errors past its threshold, and is any Boolean once there are
  `MinSamples` probes (`health.py:45-49`).
* A malformed reply of bbops (`BbopsConsumer.Malformed`) is one whose shape the code does not
  expect; which lines raise does not matter beyond what was settled before.
* `SpendBounded` is about the calls of its own stage. The tracker is shared: what the producer
  (`producer.py:323`) and the other dispatcher record on it is left out of `spent`, so the bound is
  on what this stage adds once the ceiling has been passed.
* The scores of the balancer are reduced to who may be picked; the search results of
  Serper to whether they have addresses.

Bounds that the code does not have, all in guards: `MaxStarts` runs on one database
(the last one is not interrupted, so that there is something to say about its end),
`SerperCalls` calls charged for one enrichment, `empties` counted up to the threshold
it is compared with. `PatientRestart`, where TRUE, is an assumption about the operator:
a new run is started when the claims of the last one are old enough to be recovered.

## 3. What TLC checks

| Run | Instance | Properties |
|---|---|---|
| `dispatch_one` | 1 record, 3 candidates of which one malformed, all 8 × 5 verdicts, Microsoft probe, harvest, Serper, `Faults`, reset, impatient restart, 2 runs | `IInv`, `BudgetsHold`, `KeepsLifecycle` |
| `dispatch_two` | 2 records, 2 tasks, every setting of the rescue, ceiling 1, 2 runs with signal and crash | `TypeOK`, `TasksOwnClaims`, `SpendBounded`, `AnsweredIsCharged`, `ValidNeverLost`, `ExitsDrained`, `GiveUpOnlyAfterSerper` |
| `dispatch_live` | 2 records, chunks of 1, only failing or undecided backends, 2 runs | `EveryRecordFinishes`, `RunEnds` |
| `zuhal_calls` | 3 rows, single mode and 1 bulk job with all outcomes, ceiling 1, 2 runs with signal | `TypeOK`, `GracefulExitLeavesNoClaim`, `SpendBounded`, `PaidOnce` |
| `zuhal_bulk` | 2 rows, 2 jobs side by side that complete or fail, crash, impatient restart | `WorkersOwnClaims`, `CreditsLostAreWrittenOff`, `KeepsLifecycle` |
| `zuhal_live` | 3 rows, breaker open, jobs that fail, 1 run | `EveryHandoffSettles`, `RunEnds` |
| `pipeline_run` | a file of two records with a bad line between them, chunks of 2, one transient discovery error, with and without a master database, 2 runs with signal, crash, failing insert and halt | `NoLineSkipped`, `FinishedMeansDiscovered`, `AcknowledgedSurvives`, `StagesEndInOrder`, `ReportComplete`, `MasterMissesOnlyOvertaken`, `RunEnds` |
| `backends` | 2 records with one address, one of them raced twice, 2 batches of at most 2, one kill, one malformed reply; all of Racknerd against a silent bbops; one tunnel | `ValidCounts`, `NobodyForgotten`, `DoneRowsAnswered`, `StopIsFinal` |
| `services` | 3 searches: one of the dispatcher, two of the producer with one cache key, capacity 1, one retry, all fallbacks, credits that run out; 3 Zuhal calls, 2 at a time; 3 recipients in 2 domains on 2 workers; a pool of 2 to 3 with a reserve of one; 2 result files with a fault | `ChargesBounded`, `RateHeld`, `RateLimitNeverBurns`, `DomainCapHeld`, `PoolBounded`, `PoolHasServers`, `HandedOffOnce`, `EnrichEnds` |

*The bounds.* One record suffices for what happens to a record by itself: tasks
touch only their own row, and the retry limits (attempts 2, requeues 3, tunnel 1,
bbops 1) are low enough for every counter to reach its limit and be refused, alone
and after another one. Two records and two tasks are the least that race for the
ceiling; a ceiling of one makes every check a race. Three candidates let the loop
skip, fail and go on; a harvest and a search that each add one address move the
end of the list twice. Two runs let a claim be orphaned, found and recovered, and a
reset fall between them. For the paid stage a threshold of two with three rows passes
from bulk to single mode and back; two jobs of one row are the least that claim side by
side.

`services` and `backends` are sums: the parts share no state, so a behaviour is one of
a single part, chosen in the initial state, and one run checks them all. In `backends`
the full bbops is checked with probes of one step, of which only one record's may find
its address valid, is stopped only after the kill, and gets malformed replies for the first
batch only; the full Racknerd is checked with
a bbops that never answers. One address for both records is the case in which batches,
rows and futures can be confused; a record raced twice has one batch before and one after
a timeout or a kill. In `services` three callers are the least of which one holds the
limiter's lock, one waits and one has been through; the dispatcher's call may hit an entry of an
earlier run while a miss of the producer's clears its flag, and of the producer's calls with one key one
may hit what the other has stored; two recipients of a domain with room
for one, and one gate in all, make every departure an eviction; the supervisor is
checked beside one recipient who is verified over and over. In `pipeline_run` two runs let
the second one find what the first left in the table, in the checkpoints and in the master
database; two records with a flush at every record make a later row end first.

*The properties.* Besides a type invariant each says something that takes several
steps to break:

* `BudgetsHold`: no counter passes its limit, however requeues, recoveries, resets and
  crashes follow each other, but an attempt per run for rows found orphaned.
* `TasksOwnClaims`, `WorkersOwnClaims`: a coroutine only works on a row that is claimed,
  and no row has two of them.
* `KeepsLifecycle`: each dispatcher implements `RecordLifecycle`.
* `ExitsDrained`: the loop leaves by itself only when every row has been finished.
* `SpendBounded`: the ceiling is overshot by no more than is under way at once.
* `AnsweredIsCharged`: a call that was answered is on the tracker.
* `CreditsLostAreWrittenOff`: credits of a bulk job that never reach the tracker are those of
  rows that are written off. (That there are none is false, see section 4.)
* `ValidNeverLost`: a record that one backend called valid is not written off.
* `GiveUpOnlyAfterSerper`: an enabled search is tried before a record is given up.
* `GracefulExitLeavesNoClaim`: out of credits or drained, nothing stays claimed.
* `PaidOnce`: no address is paid for twice.
* `NoLineSkipped`: the offset on disk covers no line whose record is not on disk.
* `FinishedMeansDiscovered`: a producer that ends by itself leaves nothing to discover.
* `AcknowledgedSurvives`: a verdict whose commit has returned is never lost, although it
  may have been written inside the producer's transaction.
* `StagesEndInOrder`: in the first run the verification stage leaves after the producer.
* `ReportComplete`, `MasterMissesOnlyOvertaken`: what a normal end promises of the report
  and of the master database, whose watermark passes over rows that end late.
* `ValidCounts`: a race is cut short only by a `valid`, and a `valid` of bbops comes from the
  batch this call's item went into.
* `NobodyForgotten`: whoever waits for bbops is in the queue, in a batch to be polled, or in one
  whose task a malformed reply has ended (see section 4).
* `DoneRowsAnswered`: a finished row of `bbops_jobs` has what its own batch found.
* `StopIsFinal`: after `stop()` no ssh process is left, and none is being started.
* `ChargesBounded`: concurrent searches are not charged twice. Beyond the searches answered at
  most one is charged for each call that ended without an answer and for each hit of the
  dispatcher's. (These do happen, and fewer may be charged too: see section 4.)
* `RateHeld`: no window of k tokens' time lets more than capacity + k through.
* `RateLimitNeverBurns`: a call that met only 429s is not reported as an error.
* `DomainCapHeld`: the per-domain cap, also when gates are evicted.
* `PoolBounded`, `PoolHasServers`: what partial failures of provisioning may not do.
* `HandedOffOnce`: what the watcher appends and what it marks agree, up to what a fault
  catches between the two.
* `EveryRecordFinishes`, `EveryHandoffSettles`, `RunEnds`, `EnrichEnds`: liveness.

Each holds under the settings its run gives, and these are part of the claim:
`AnsweredIsCharged` leaves out `zuhal_on_both_invalid`, whose unsuccessful calls the
code does not charge; `ValidNeverLost` needs a Zuhal client, and `dispatch_two` has
one (see `valid_lost_v`); `ExitsDrained` needs
`PatientRestart` and no dying tasks, and `PaidOnce` no crash and three different
addresses. `RunEnds` of `pipeline_run` is about runs without a master database or with
a signal: see section 4.

*Fairness.* Weak fairness of the loop, of each task and of each job: the event loop
runs whatever is ready, and every network call has a timeout, so an await comes to an
end. Weak fairness of time (`HoldExpires`, `GrowsStale`), of the producer's end and of
the next start, which is the operator's part. Signals, crashes, resets and faults are
never forced. A task waiting at the semaphore needs no strong fairness: a chunk is
finite and each of its tasks ends. In `services` the limiter's lock is first in, first
out, so weak fairness of each caller and of time is enough for `EnrichEnds`. In
`pipeline_run` fairness is that of the tasks and of the teardown; nothing forces a signal,
a kill or a next run.

*Deadlock* is not checked: after the last run, or when every caller has been served, the
system stops.

## 4. What the code does not do

Three runs expect a violation; each checks what a comment, a docstring or the README
says of the code.

| Run | What happens |
|---|---|
| `valid_lost_v` | Without Zuhal, an error of bbops is handled before the verdicts are reconciled; a `valid` of Racknerd is discarded. |
| `zuhal_duplicates_v` | Two rows of a bulk batch with one address: only one is written. The other stays claimed and keeps the loop polling, without a pause. |
| `zuhal_unaccept_v` | Cached verdicts are applied before the upload; if that meets a 402 the whole batch goes back, rows already VALIDATED included. |

Met while modelling, kept in the model as the code has it, without a run of their own:

* Rows claimed when a signal arrives are recovered by the next start only if they are five
  minutes old by then, and recovery happens once per run, so after a quicker restart they
  stay VALIDATING; `dispatcher.py:190` has them "recovered as DISCOVERED on next start".
  `EveryRecordFinishes` holds under `PatientRestart`.
* `reset` clears `dispatch_attempts` but not `requeue_count` (`db/meta.py:174`): a record
  that failed at its requeue limit fails again without a probe. DISCOVERY_FAILED rows
  go back to RAW, which no loop picks up. `reset --phase` asks for rows with an entry in
  `failures`, which nothing writes (`insert_failure` has no caller), and so re-queues none.
* A dead tunnel makes the whole candidate inconclusive even if bbops said valid
  (`dispatcher.py:368`), and the row is retried.
* An unsuccessful rescue of a both-invalid record is not charged
  (`dispatch_verdicts.py:211`).
* When the last candidate is malformed, the `continue` at `dispatcher.py:312` skips the
  harvest and Serper fallbacks: such a record fails without them. So do the other two of the
  loop, after a Microsoft probe (347) and after an error of bbops (401). (`dispatch_two`, which checks `GiveUpOnlyAfterSerper`, has
  none of the three; see `FallbackIsReached` in section 5.)
* An inconclusive result with one definitive verdict raises `dispatch_attempts`
  (`dispatch_verdicts.py:140`), where `README.md:183` speaks of free requeues.
* A bulk job that fails after its upload was billed is not recorded (`zuhal_dispatcher.py:272`), so the
  cost ceiling never sees these credits, where the comment at 277 has "Without this the cost ceiling
  is blind in bulk mode". `CreditsLostAreWrittenOff` bounds them: they belong to rows written off.
* A crash while a bulk job is polled pays again, because `zuhal_jobs` is never read. Two rows
  with one address that are asked about side by side are both paid for: the cache is read
  before the call and written after it (`zuhal_dispatcher.py:321`).
* An `accept-all` answer to a single call is not cached (`zuhal_dispatcher.py:366`).
* The 429 branch at `zuhal_dispatcher.py:349` is not reachable, see above.
* The heartbeat's commit may end the producer's transaction half way, and its rollback
  undoes what other coroutines wrote in it (`db/records.py:15`); such a row stays
  VALIDATING until a later run. When the row was inserted in the same transaction it is
  undone itself, and the UPDATE with its verdict finds no row.
* With a master database or a backup configured the gather waits for a task that only the stop
  event ends (`__main__.py:260`, `289`): a drained run goes on until it is told to stop.
* `producer_done` is set by a stopped producer too and never reset (`producer.py:194`), so
  the dispatcher of the next run may leave before its producer has written a row.
* The discovery retry loop drains until nothing is pending, however often the same records
  fail transiently, and ignores the stop event (`producer.py:201`).
* Searches are charged wrongly both ways, because the flag and the counter are the client's
  (`serper_client.py:67`). Too much: a hit of the dispatcher, which writes to the database between `enrich()`
  and `charge_costs` (`_dispatch_helpers.py:246`) while another call's miss may clear
  `last_was_cache_hit`, where the docstring has a hit "free"; a search of the
  dispatcher that raised (`_dispatch_helpers.py:241-249`), and any call that came back empty because
  the credits were out. Too little: another task's hit makes a search free,
  the agent's fallback is not counted, and the producer charges nothing for a call that raises.
* `rate_limiter.py:10` says "a hard ceiling of `capacity` calls per refill period". A bucket that is
  full when the period begins lets its `capacity` tokens through and the ones refilled meanwhile,
  almost twice as many; `RateHeld` states capacity + k for k tokens' time. A retry takes no token
  at all (`with_backoff` is inside the one `acquire`).
* The Zuhal breaker counts 401 and 402 as failures of the service; a 402 that trips it is
  reported as an open circuit.
* A `wait_active` that times out leaks a server in each cycle, which `max_reprovisions` does not
  count (`fleet/control.py:113`). Such a server counts as known in `PoolHasServers`, since the log has it;
  an error other than `CherryAPIError` leaves the old worker
  draining for good.
* A worker is cooled from a time read before its probe (`fleet/manager.py:143`), so after a slow probe
  it is free again earlier than its cooldown says; no property measures this.
* The hand-off file is buffered while its rows are marked one by one
  (`ops/passoff_watcher.py`): a kill loses marked rows, a fault between the two
  duplicates one; an address that a file holds twice is appended twice, and one that
  is written between the two reads of a file is appended again by the next scan.
* A reply of bbops of a shape the code does not expect raises outside the `try` blocks of
  `_submit_and_poll` (`bbops_async.py:188`, 254, 313) and ends the batch's task; its callers are left to
  their timeout, where line 161 has "resolve Futures". `NobodyForgotten` exempts such batches.
* A retry's batch is not in `bbops_jobs`: the key is record and address and the insert
  ignores conflicts, where `bbops_async.py:182` says "Persist before polling (crash
  recovery)". Recovered batches are polled and neither settled nor marked, so every
  restart polls them again.
* A failed MX lookup is cached for an hour (`racknerd.py:250`), where the comment at 195
  has it transient. A guard's cooldown is waited for once, also when it is extended
  meanwhile (149), inside the semaphore.
* `_spawn` of the tunnel gives up after its retries with "tunnel may still start"
  (`ssh_socks.py:155`), but nothing then sets the ready event.

## 5. What is proved

With TLAPS, for every value of the constants that satisfies the named assumptions of the
modules (`DispatcherAssumption`, `ZuhalAssumption`, `NoEmailAssumption` and those of
the other modules, which TLC evaluates on the instances):

| Theorem | States | Where |
|---|---|---|
| `InvariantHolds` | `Spec => []IInv` | `DispatcherProofs` |
| `TypesHold` | `Spec => []TypeOK` | `DispatcherProofs` |
| `BudgetsTheorem` | `Spec => []BudgetsHold` | `DispatcherProofs` |
| `OwnershipTheorem` | `Spec => []TasksOwnClaims` | `DispatcherProofs` |
| `LifecycleTheorem` | `Spec => KeepsLifecycle`: the dispatcher implements `RecordLifecycle` | `DispatcherRefinement` |
| `DrainTheorem` | `Spec => ExitsDrained`, if `PatientRestart` and no `Faults` | `DispatcherRefinement` |
| `ClaimsTheorem` | `Spec => []WorkersOwnClaims` | `ZuhalDispatcherProofs` |
| `LifecycleTheorem` | `Spec => KeepsLifecycle`, if batches hold one row or no upload is refused or deferred and no job fails | `ZuhalDispatcherProofs` |
| `ExitTheorem` | `Spec => []GracefulExitLeavesNoClaim`, if `PatientRestart`, no crash and no two records share an address | `ZuhalDispatcherProofs` |
| `LinesTheorem`, `FinishedTheorem` | `[]NoLineSkipped`, `[]FinishedMeansDiscovered` | `PipelineProofs` |
| `AcknowledgedTheorem` | `[]AcknowledgedSurvives` | `PipelineProofs` |
| `StagesTheorem`, `ReportTheorem`, `MasterTheorem` | `[]StagesEndInOrder`, `[]ReportComplete`, `[]MasterMissesOnlyOvertaken` | `PipelineProofs` |
| `WaitersTheorem` | `[]NobodyForgotten`: whoever waits for bbops is in the queue, in a batch to be polled or in one that a malformed reply has ended | `BackendsProofs` |
| `RowsTheorem` | `[]DoneRowsAnswered` | `BackendsProofs` |
| `RaceTheorem` | `[]ValidCounts` | `BackendsProofs` |
| `SpendTheorem` | `Spec => []SpendBounded` | `DispatcherPromises` |
| `ChargeTheorem` | `Spec => []AnsweredIsCharged`, if no task dies (`~Faults`) | `DispatcherPromises` |
| `ValidTheorem` | `Spec => []ValidNeverLost`, if `ValidReachesReconcile` | `DispatcherPromises` |
| `SerperTheorem` | `Spec => GiveUpOnlyAfterSerper`, if `FallbackIsReached` | `DispatcherPromises` |
| `TypesTheorem` | `Spec => []TypeOK` | `ZuhalDispatcherProofs` |
| `CeilingTheorem` | `Spec => []SpendBounded` | `ZuhalDispatcherProofs` |
| `CreditsTheorem` | `Spec => []CreditsLostAreWrittenOff` | `ZuhalDispatcherProofs` |
| `PaidOnceTheorem` | `Spec => []PaidOnce`, if no crash and no two records share an address | `ZuhalDispatcherProofs` |
| `StopTheorem` | `TunnelSpec => []StopIsFinal` | `BackendsProofs` |
| `RateTheorem` | `BucketSpec => []RateHeld` | `ServicesProofs` |
| `ChargesTheorem` | `SerperSpec => []ChargesBounded` | `ServicesProofs` |
| `RateLimitTheorem` | `ZuhalClientSpec => []RateLimitNeverBurns` | `ServicesProofs` |
| `GateTheorem` | `SupervisorSpec => []DomainCapHeld` | `ServicesProofs` |
| `PoolSizeTheorem`, `ServersTheorem` | `SupervisorSpec => []PoolBounded`, `[]PoolHasServers` | `ServicesProofs` |
| `HandedTheorem` | `PassoffSpec => []HandedOffOnce` | `ServicesProofs` |

The assumptions on the constants are what the code gives: costs and limits are naturals, and
rows, jobs and the first pool are finite. The names of new workers are different from each
other and from the pool's, because `_initial_spawn_seq` (`fleet/control.py`) starts after the
names that exist, and no worker is called like the model's `NoWorker`. A result file is a
sequence of rows. The services' theorems are about each service's own specification, of which
`services` checks the sum.

The conditions of the conditional theorems are those under which the property is true, and each
is met by the run that checks it:

* `ValidReachesReconcile`: a valid is passed by where a dead tunnel still has a budget to be retried on
  (`dispatcher.py:368`), or where bbops fails and there is no Zuhal client
  (`dispatcher.py:387`; `valid_lost_v` shows it).
* `FallbackIsReached`: a malformed address, a Microsoft probe that says invalid and an error of
  bbops without a Zuhal client each end in a `continue` (`dispatcher.py:312`, `347`, `401`) before
  the fallbacks at 471, and a task that dies before its row is marked comes again.
* `ChargeTheorem`: a task that dies between its write and its charge leaves the answer uncharged.
* `PaidOnceTheorem`: a crash loses answers that were in memory, and two rows of one address may be
  asked about side by side.

*The dispatcher's invariant.* `BudgetsHold` is not inductive: that a requeue stays below
`MaxRequeues` is checked when a task begins (`dispatcher.py:203-217`), and the requeue
is written at its very end, any number of awaits later. The strengthening is
`TaskInv`: a task past its beginning has `requeues < MaxRequeues` and `attempts <
MaxAttempts`, which only its own last write can change (that needs `TasksOwnClaims`,
since every other writer of counters asks for another state), and a task past the top
of the candidate loop has a current candidate (which `TypeOK` needs, since addresses
are taken from it). `IInv` is the conjunction. `RowsProofs` says of each UPDATE which
counters it leaves and which it raises; `FinishKeeps` and `GoKeeps` in
`DispatcherProofs` reduce a task's step to what it writes; one lemma per action follows,
and `Inductive` joins them. TLC checks `IInv` in `dispatch_one`.

*Its refinement.* `DispatcherRefinement` first shows that whatever a task does to its
row has one of three outcomes (`TaskOutcome`): the claim is kept, the row is given back
with one requeue more, or it is finished. Each is a step of `RecordLifecycle` or a
stutter (`OutcomeMoves`), claims, recoveries and resets are moves of sets of records
(`MoveStep`), and a record the producer writes has never been given back
(`AbsentIsFresh`, an invariant of the abstract specification itself).

*Its drained exit.* The same outcomes show `DrainInv`: a claim loses its task only on a
signal or a halt, and then the loop leaves by another way; and `producer_done` has
been read before the loop asks for pending rows. `LeavesDrained` then reads the
property off `CheckPending`. Both assumptions are needed: a task that dies leaves a
claim that the exit check (which counts DISCOVERED rows only) does not see, and
so does a run that starts too early.

*The paid stage.* A job that fails writes its whole batch again, rows the cache has
settled included, so that what a job `Held` is not enough: `ZuhalInv` speaks of
`Mine(j)`, every row the job may still write, keeps these sets apart, and keeps the
loop from starting tasks while there are jobs. `JobStepMoves` reduces the seven steps
of a job to claiming, writing one row, and going on. The refinement needs that a row
written as failed or put back is still claimed. `SingleInv` says when it is: there is no
failing batch at all, or a batch has one row, which was uploaded only because the cache
did not know it. Without either assumption the property is false, which is what
`zuhal_unaccept_v` shows. For the exit `ExitInv` says that a claimed row has a worker
unless the loop is leaving on a signal or a halt; it needs different addresses, because a
job keeps one row of those that share one (`zuhal_duplicates_v`), and no crash.

*The pipeline.* `PipelineInv` relates the two images of the database: outside a
transaction they agree, and only a producer that writes a chunk has one open
(`StoreInv`). The lines before the checkpoint are covered in *both* images, those of the
chunk are in the batch, and those inserted so far are covered again (`LinesInv`); so it
does not matter which coroutine commits, and a rollback returns to an image that is
covered too. The rest follows the teardown: which tasks have ended in which phase
(`StageInv`), that rows found by a flush lie below the watermark or have been overtaken
(`MasterInv`), and what has been written by the time the report is (`TeardownInv`).

*Backends and services.* `BackendsInv` adds to the three properties that results and marks
of a batch only exist once it has been polled, by a reply that may have been malformed, and that a `valid` future belongs to a
batch whose answers have it. `BucketInv` equates what
the limiter may still let through with the bucket as the next `acquire` will refill it.
`TunnelInv` says who can be in `_spawn`, the starter or the supervisor, and that there is
neither supervisor nor stopper before the start has come to an end.

*What the SMTP stage promises.* `SpendInv` speaks of the tasks that may still add to the
tracker: each is among those that hold the semaphore, and `spent` together with one call's
charge for each of them stays below the ceiling plus `Concurrency` charges. A task enters
this set only by finding the ceiling not reached, and a charge takes it out, so the check and the charge may be
any number of awaits apart. `BillInv` is its counterpart for Zuhal's own count: an answer is on
the tracker or with a task in `Settling`. `ValidIsKept` says that the record of a `valid` is VALIDATED
at once and for good, and `AheadInv` that as long as a row is not enriched its task has the
whole list inside the boundary and stands before its end, however often a harvest moves it.

*What the paid stage promises.* The sums that the properties speak of are kept as
cardinalities: `AccountInv` puts `uncharged` between the number of rows in jobs that are being polled
(`OnAccount`, which needs the jobs' rows to be disjoint, `ZuhalInv`) and that number plus the rows that
are lost: written off, or still to be written off by a batch that has failed (`Lost`). A job that fails once
it is uploaded moves its rows from the one set to the other, and they were in neither twice
(`JobLoses`); a lost row stays lost, because nobody claims a failed one (`StaysLost`). When the loop
goes round nothing is polled, and what is left is lost. `SpendInv` adds a whole batch for each job
past its check and one call for each task past its own. `PaidInv` says when an address has not
been paid for: the row is before its claim, or claimed with no answer in memory, or in a job that
has not uploaded it or not got it back. Each payment is for a row that is `Unpaid`, and leaves
it otherwise until it is finished.

*The fleet.* `FleetInv` adds to the two properties where the supervisor is in its cycle and what
it has in its hands there (`CycleInv`), and that a replacement keeps the size of the pool while
growing and shrinking stop at the goal (`GoalInv`): the number of workers still to be visited
never exceeds what is above the goal, which is what keeps `scale_to` from passing it when single
steps fail. `GateInv` says that whoever is past a gate holds a place in a gate that is still in the
list; an evicted gate has nobody in it or waiting at it. For this the list is filtered with
`Places`, of which `PlacesCount` (with the pigeonhole theorem of the library) and `AtPlaces` show
that it keeps exactly the given places, each once.

*The watcher.* `HandedInv` adds to `HandedOffOnce` that the rows about to be appended name no
address that was marked, and none twice unless its file does (`RowsOnce`). Both are facts at the
moment the file is read; they last until the rows are written because nothing else marks while
a scan is under way. `TimesAppend` and `FlushKeeps` count what is in the buffer.

*Other services.* `SerperInv` adds to `ChargesBounded` the calls that are still `Open`: each has had an
answer of its own that its charge will use up. A call that is charged leaves `Open`, or, when it
had no answer or a hit, enters `Unearned`; `OneCall` does the counting for the one caller that moves,
so it does not matter whose flag it reads or whose fallbacks it charges. `ZuhalClientInv` adds to `RateLimitNeverBurns` the types of what it speaks of.

*Only model-checked.* Every safety invariant and action property that a run checks has a
theorem. The four liveness properties stay with TLC, since the provers reach neither fairness nor
ENABLED. No module with a theorem uses a RECURSIVE operator, and nothing here rests on induction
over data: where a least element or a place in a list is needed the library's theorems about finite sets are
cited for a given set. TLC checks `IInv` in `dispatch_one`; `FleetInv` and `HandedInv` were checked in the
same way on instances of the size of `services` before they were proved.

## 6. Plan and what is left

Done: every module of the first plan but the orchestrator. The order was: what decides about
records and money first (`Dispatcher`, `ZuhalDispatcher`), then what connects the stages
(`Producer`, `Pipeline`, `Store`, `MasterFlush`), then the backends, then the services and
operations.

Next, in this order:

1. `Pipeline` with a paid stage of its own behind the free one, so that the three exit
   decisions are checked in one sequence, and its exit theorem.
2. Theorems that relate the modules: that a row written by either dispatcher is what the other
   takes as given, so that `RecordLifecycle` holds of the two stages together.
3. The refinement of `TokenBucket` by what its two clients do.

### Not modelled

* *Orchestrator* (`orchestrator/`): a sequential driver of subprocesses that resumes by
  looking for output files, and a CSV merge; nothing runs beside it.
* *Batch scripts of `ops/`* and *ZeroBounce tools*: one-shot loops over CSV files.
* *Snapshots and R2*: a copy of the database file and an upload.
* *Metrics, dashboard, reports*: they read and do not write.
* *Cherry client, fleet command line and benchmark*: HTTP requests and measurements; what a
  request may come to is a choice in `FleetSupervisor`.
* *Option parsing and configuration*: the settings are the constants.
* *Discovery itself* (`utils/dns_probe.py`, `owner_inference.py`, `email_patterns.py`,
  `harvest/`): text and network I/O; what it finds is a choice in `Producer` and
  `Dispatcher`.
