----------------------------- MODULE Dispatcher -----------------------------
(***************************************************************************)
(* The SMTP dispatcher (pipeline/dispatcher.py, dispatch_verdicts.py,      *)
(* dispatch_probes.py): a poll loop that claims chunks of DISCOVERED rows, *)
(* one task per claimed row, and in each task the loop over the row's      *)
(* candidate addresses.  A task runs between awaits without interruption,  *)
(* so every action below is one stretch of it from an await to the next.   *)
(*                                                                         *)
(* Around it: the producer that feeds the table, time (holds that expire,  *)
(* claims that grow stale), a shutdown signal, a crash, the next run on    *)
(* the same database and the operator's reset command.                     *)
(***************************************************************************)
EXTENDS Rows, Sequences, FiniteSets

CONSTANTS
    Records,           (* unique_ids                                            *)
    Cand,              (* [Records -> Seq(Candidate)]: candidate_emails, sorted *)
    Microsoft,         (* records whose mx_provider is a Microsoft one          *)
    RkVerdicts,        (* what Racknerd (or the fleet) may answer               *)
    BbVerdicts,        (* what bbops may answer                                 *)
    Confs,             (* the settings a run may be started with                *)
    HarvestFinds,      (* what a harvest may add; {} when --harvest is off      *)
    SerperFinds,       (* what Serper may add; {} when no client is configured  *)
    MaxAttempts, MaxRequeues, MaxTunnel, MaxBbops,
    Ceiling,           (* --max-cost, counted in paid calls                     *)
    SerperCalls,       (* bound: calls one enrichment is charged for            *)
    Concurrency, ChunkSize,
    MaxStarts,         (* bound: runs started on this database                  *)
    CanStop,           (* a shutdown signal may arrive                          *)
    CanReset,          (* `reset --status validation_failed` may be used        *)
    Faults,            (* a task may die of an unexpected exception             *)
    PatientRestart     (* runs are only started when no claim is fresh          *)

Candidate == [addr : Emails, wf : BOOLEAN, paid : BOOLEAN, strong : BOOLEAN]
    \* wf: well formed; paid: scores high enough for a paid rescue;
    \* strong: a catch-all verdict would clear the confidence floor

\* zuhal: no client, the inline rescue or the decoupled worker; onBothInvalid:
\* zuhal_on_both_invalid
Conf == [zuhal : {"none", "inline", "decoupled"}, onBothInvalid : BOOLEAN]

ASSUME DispatcherAssumption ==
    /\ Cand \in [Records -> Seq(Candidate)]
    /\ Microsoft \subseteq Records
    /\ RkVerdicts \subseteq RkVerdict /\ BbVerdicts \subseteq BbVerdict
    /\ HarvestFinds \subseteq Seq(Candidate) /\ SerperFinds \subseteq Seq(Candidate)
    /\ Confs \subseteq Conf /\ Confs # {}
    /\ MaxAttempts \in Nat \ {0} /\ MaxRequeues \in Nat \ {0}
    /\ MaxTunnel \in Nat /\ MaxBbops \in Nat /\ Ceiling \in Nat /\ SerperCalls \in Nat
    /\ Concurrency \in Nat \ {0} /\ ChunkSize \in Nat \ {0} /\ MaxStarts \in Nat
    /\ {CanStop, CanReset, Faults, PatientRestart} \subseteq BOOLEAN

VARIABLES
    row,            \* the table: [Records -> Row]
    producerDone,   \* checkpoint producer_done = "true"
    task,           \* the dispatch task of each record
    mode,           \* where the poll loop stands
    empties,        \* consecutive_empty
    stop,           \* stop_event
    halted,         \* a task of this chunk raised PipelineHaltError
    spent,          \* cost_tracker, in calls
    billed,         \* history: Zuhal calls answered in this run
    hist,           \* history: what has happened to each record
    conf,           \* the settings of this run
    starts          \* runs started so far

loopVars == <<mode, empties, halted>>
costVars == <<spent, billed>>
runVars == <<conf, starts>>
vars == <<row, producerDone, task, mode, empties, stop, halted, spent, billed,
          hist, conf, starts>>

-----------------------------------------------------------------------------

PC == {"idle", "queued", "next", "ms", "smtp", "zuhal", "rescue", "settle",
       "fallback", "harvest", "serper"}

ZuhalAnswer == {"valid", "catch_all", "invalid", "unknown", "error"}

Task == [pc : PC, i : Nat, cands : Seq(Candidate), boundary : Nat,
         harvested : BOOLEAN, serper : BOOLEAN, real : BOOLEAN,
         rk : RkVerdict \cup {"none"},          \* last_rk
         paid : ZuhalAnswer \cup {"none"}]      \* zuhal_status

Idle == [pc |-> "idle", i |-> 0, cands |-> <<>>, boundary |-> 0,
         harvested |-> FALSE, serper |-> FALSE, real |-> FALSE, rk |-> "none",
         paid |-> "none"]

Modes == {"down", "poll", "readDone", "checkPending", "gather", "exited"}

EmptyThreshold == 3      \* DISPATCH_POLL_EMPTY_BACKOFF_THRESHOLD

running == mode \notin {"down", "exited"}

\* valid: a backend has answered valid; reset: re-queued by the operator and
\* not looked at since.
History == [valid : BOOLEAN, reset : BOOLEAN]

\* Tasks that hold the dispatch semaphore.
Active == {r \in Records : task[r].pc \notin {"idle", "queued"}}

\* Mutant: the ceiling itself may be spent.
ceilingPassed == spent > Ceiling

ceiling_reached == spent >= Ceiling

current(r) == task[r].cands[task[r].i]

Init ==
    /\ row = [r \in Records |-> FreshRow("ABSENT")]
    /\ producerDone = FALSE
    /\ task = [r \in Records |-> Idle]
    /\ mode = "down" /\ empties = 0 /\ stop = FALSE /\ halted = FALSE
    /\ spent = 0 /\ billed = 0
    /\ hist = [r \in Records |-> [valid |-> FALSE, reset |-> FALSE]]
    /\ conf \in Confs
    /\ starts = 0

-----------------------------------------------------------------------------
(* The poll loop. *)

Start ==
    /\ ~running /\ starts < MaxStarts
    /\ PatientRestart => \A r \in Records : row[r].state = "VALIDATING" => row[r].stale
    /\ row' = [r \in Records |-> recover_stale_validating(row[r])]
    /\ mode' = "poll" /\ empties' = 0 /\ stop' = FALSE /\ halted' = FALSE
    /\ spent' = 0 /\ billed' = 0
    /\ conf' \in Confs
    /\ starts' = starts + 1
    /\ UNCHANGED <<producerDone, task, hist>>

Claimable == {r \in Records : claimable(row[r])}

Claim(chunk) ==
    /\ mode = "poll" /\ ~stop
    /\ chunk \subseteq Claimable /\ chunk # {}
    /\ Cardinality(chunk) <= ChunkSize
    /\ Cardinality(chunk) = ChunkSize \/ chunk = Claimable
    /\ row' = [r \in Records |->
                  IF r \in chunk THEN fetch_pending_validation(row[r]) ELSE row[r]]
    /\ task' = [r \in Records |->
                  IF r \in chunk THEN [Idle EXCEPT !.pc = "queued"] ELSE task[r]]
    /\ mode' = "gather" /\ empties' = 0
    /\ UNCHANGED <<producerDone, stop, halted, costVars, hist, runVars>>

PollEmpty ==
    /\ mode = "poll" /\ ~stop
    /\ Claimable = {}
    /\ empties' = IF empties < EmptyThreshold THEN empties + 1 ELSE empties
    /\ mode' = "readDone"
    /\ UNCHANGED <<row, producerDone, task, stop, halted, costVars, hist, runVars>>

ReadProducerDone ==
    /\ mode = "readDone"
    /\ mode' = IF producerDone THEN "checkPending" ELSE "poll"
    /\ UNCHANGED <<row, producerDone, task, empties, stop, halted, costVars,
                   hist, runVars>>

\* Mutant: rows on hold do not count as pending.
hasClaimable == \E r \in Records : claimable(row[r])

has_pending_validation == \E r \in Records : row[r].state = "DISCOVERED"

\* Mutant: the count of empty polls starts again after every check.
CheckPendingForgets ==
    /\ mode = "checkPending"
    /\ mode' = IF ~has_pending_validation /\ empties >= EmptyThreshold THEN "exited" ELSE "poll"
    /\ empties' = 0
    /\ UNCHANGED <<row, producerDone, task, stop, halted, costVars, hist, runVars>>

CheckPending ==
    /\ mode = "checkPending"
    /\ IF has_pending_validation
       THEN mode' = "poll" /\ empties' = 0
       ELSE /\ mode' = IF empties >= EmptyThreshold THEN "exited" ELSE "poll"
            /\ UNCHANGED empties
    /\ UNCHANGED <<row, producerDone, task, stop, halted, costVars, hist, runVars>>

\* Mutant: the loop goes on as soon as one task has returned.
GatheredFirst ==
    /\ mode = "gather"
    /\ \E r \in Records : task[r].pc = "idle"
    /\ mode' = IF halted THEN "exited" ELSE "poll"
    /\ UNCHANGED <<row, producerDone, task, empties, stop, halted, costVars,
                   hist, runVars>>

\* gather() returns when every task of the chunk has; a halt is raised then.
Gathered ==
    /\ mode = "gather"
    /\ \A r \in Records : task[r].pc = "idle"
    /\ mode' = IF halted THEN "exited" ELSE "poll"
    /\ UNCHANGED <<row, producerDone, task, empties, stop, halted, costVars,
                   hist, runVars>>

StopSeen ==
    /\ mode = "poll" /\ stop
    /\ mode' = "exited"
    /\ UNCHANGED <<row, producerDone, task, empties, stop, halted, costVars,
                   hist, runVars>>

-----------------------------------------------------------------------------
(* Building blocks of a task's steps. *)

\* The task writes its row for the last time and returns.
Finish(r, x) ==
    /\ row' = [row EXCEPT ![r] = x]
    /\ task' = [task EXCEPT ![r] = Idle]

\* The task goes on; t is its new local state.
Go(r, t) ==
    /\ task' = [task EXCEPT ![r] = t]
    /\ UNCHANGED row

NoCost == UNCHANGED costVars

\* Calls charged to the tracker / Zuhal calls answered.
Cost(charged, answered) ==
    /\ spent' = spent + charged
    /\ billed' = billed + answered

TaskFrame == UNCHANGED <<producerDone, mode, empties, stop, runVars>>

-----------------------------------------------------------------------------
(* _dispatch_record and _load_candidates *)

\* Mutant: the requeues are not looked at.
BeginWhateverRequeues(r) ==
    /\ task[r].pc = "queued"
    /\ Cardinality(Active) < Concurrency
    /\ LET x == row[r] IN
       \/ stop /\ Go(r, Idle)
       \/ /\ ~stop
          /\ IF x.attempts >= MaxAttempts \/ Cand[r] = <<>>
             THEN Finish(r, update_record_status(x, "VALIDATION_FAILED"))
             ELSE Go(r, [Idle EXCEPT !.pc = "next", !.cands = Cand[r],
                                     !.boundary = Len(Cand[r]), !.serper = x.enriched])
    /\ NoCost /\ TaskFrame /\ UNCHANGED <<halted, hist>>

Begin(r) ==
    /\ task[r].pc = "queued"
    /\ Cardinality(Active) < Concurrency
    /\ LET x == row[r] IN
       \/ stop /\ Go(r, Idle)
       \/ /\ ~stop
          /\ IF x.attempts >= MaxAttempts
             THEN Finish(r, update_record_status(x, "VALIDATION_FAILED"))
             ELSE IF x.requeues >= MaxRequeues
             THEN Finish(r, update_record_failed(x,
                      IF x.attempts = 0 THEN "infra_loop" ELSE "max_attempts"))
             ELSE IF Cand[r] = <<>>
             THEN Finish(r, update_record_status(x, "VALIDATION_FAILED"))
             ELSE Go(r, [Idle EXCEPT !.pc = "next",
                                     !.cands = Cand[r],
                                     !.boundary = Len(Cand[r]),
                                     !.serper = x.enriched])
    /\ NoCost /\ TaskFrame /\ UNCHANGED <<halted, hist>>

(* The top of the candidate loop: next address, or all are exhausted. *)
Exhausted(r) ==
    LET t == task[r] IN
    /\ t.pc = "next" /\ t.i = Len(t.cands)
    /\ Finish(r, update_record_dual(row[r], "VALIDATION_FAILED", "invalid", NoEmail, 1,
           IF t.rk = "blocked" THEN "provider_blocked"
           ELSE IF t.real THEN "max_attempts" ELSE "infra_loop"))
    /\ NoCost /\ TaskFrame /\ UNCHANGED <<halted, hist>>

NextCandidate(r) ==
    LET t == [task[r] EXCEPT !.i = @ + 1] IN
    /\ t.pc = "next" /\ task[r].i < Len(t.cands)
    /\ IF ~t.cands[t.i].wf
       THEN Go(r, t)                                      \* format_skip
       ELSE IF ceiling_reached
       THEN Finish(r, update_record_status(row[r], "COST_SKIPPED"))
       ELSE Go(r, [t EXCEPT !.pc = IF r \in Microsoft THEN "ms" ELSE "smtp"])
    /\ hist' = [hist EXCEPT ![r].reset = FALSE]
    /\ NoCost /\ TaskFrame /\ UNCHANGED halted

MsProbe(r) ==
    /\ task[r].pc = "ms"
    /\ \/ Finish(r, update_record_dual(row[r], "VALIDATED", "valid",
                                       current(r).addr, 0, "none"))
       \/ Go(r, [task[r] EXCEPT !.pc = "next"])           \* invalid: continue
       \/ Go(r, [task[r] EXCEPT !.pc = "smtp"])           \* unknown / error
    /\ NoCost /\ TaskFrame /\ UNCHANGED <<halted, hist>>

-----------------------------------------------------------------------------
(* run_backends has returned rk0 and bb. *)

\* Mutant: one requeue too many.
TunnelBudgetLeftOrUsed(r) == row[r].tunnel <= MaxTunnel

TunnelBudgetLeft(r) == row[r].tunnel < MaxTunnel

\* Once the tunnel budget is used up a dead tunnel counts as "not run".
heard(rk0) == IF rk0 = "tunnel_down" THEN "not_run" ELSE rk0

TunnelRequeue(r, rk0, bb) ==
    /\ rk0 = "tunnel_down" /\ TunnelBudgetLeft(r)
    /\ Finish(r, requeue_record(row[r], FALSE, TRUE, "tunnel"))
    /\ NoCost

BbopsFailed(r, rk, bb) ==
    LET t == [task[r] EXCEPT !.rk = rk, !.pc = "next",
                             !.real = @ \/ rk \in Definitive] IN
    /\ bb = "error" /\ conf.zuhal = "none"
    /\ IF row[r].bbops < MaxBbops
       THEN Finish(r, requeue_record(row[r], FALSE, TRUE, "bbops"))
       ELSE Go(r, t)                                      \* next candidate
    /\ NoCost

\* handle_inconclusive
HandleInconclusive(r, rk, bb, t) ==
    /\ reconcile(rk, bb) = "unknown"
    /\ IF conf.zuhal # "none" /\ current(r).paid
       THEN IF conf.zuhal = "decoupled"
            THEN Finish(r, handoff_to_zuhal(row[r], current(r).addr))
            ELSE IF ceiling_reached
            THEN Finish(r, update_record_status(row[r], "COST_SKIPPED"))
            ELSE Go(r, [t EXCEPT !.pc = "zuhal"])
       ELSE Finish(r, requeue_record(row[r], {rk, bb} \cap Definitive # {},
                                     rk = "greylisted", "none"))
    /\ NoCost

accepted(r, verdict) ==
    verdict = "valid" \/ (verdict = "catch_all" /\ current(r).strong)

Accept(r, rk, bb) ==
    /\ accepted(r, reconcile(rk, bb))
    /\ Finish(r, update_record_dual(row[r], "VALIDATED", reconcile(rk, bb),
                                    current(r).addr, 1, "none"))
    /\ NoCost

Reject(r, rk, bb, t) ==
    /\ reconcile(rk, bb) # "unknown" /\ ~accepted(r, reconcile(rk, bb))
    /\ IF conf.zuhal # "none" /\ conf.onBothInvalid /\ current(r).paid
       THEN IF ceiling_reached
            THEN Finish(r, update_record_status(row[r], "COST_SKIPPED"))
            ELSE Go(r, [t EXCEPT !.pc = "rescue"])
       ELSE Go(r, [t EXCEPT !.pc = "fallback"])
    /\ NoCost

Judge(r, rk, bb) ==
    LET t == [task[r] EXCEPT !.rk = rk, !.real = @ \/ {rk, bb} \cap Definitive # {}] IN
    /\ ~(bb = "error" /\ conf.zuhal = "none")
    /\ \/ HandleInconclusive(r, rk, bb, t)
       \/ Accept(r, rk, bb)
       \/ Reject(r, rk, bb, t)

RunBackends(r) ==
    /\ task[r].pc = "smtp"
    /\ \E rk0 \in RkVerdicts, bb \in BbVerdicts :
          /\ \/ TunnelRequeue(r, rk0, bb)
             \/ /\ ~(rk0 = "tunnel_down" /\ TunnelBudgetLeft(r))
                /\ BbopsFailed(r, heard(rk0), bb) \/ Judge(r, heard(rk0), bb)
          /\ hist' = [hist EXCEPT ![r].valid = @ \/ "valid" \in {rk0, bb}]
    /\ TaskFrame /\ UNCHANGED halted

-----------------------------------------------------------------------------
(* Inline paid rescue: what zuhal_probe answered. *)

\* A bad key or a bad request: the task raises PipelineHaltError.
Halt(r) ==
    /\ task[r].pc \in {"zuhal", "rescue", "serper"}
    /\ halted' = TRUE
    /\ Go(r, Idle)
    /\ NoCost /\ TaskFrame /\ UNCHANGED hist

\* The breaker is open or the credits are used up.
CircuitOpen(r) ==
    /\ task[r].pc \in {"zuhal", "rescue"}
    /\ Finish(r, requeue_record(row[r], FALSE, FALSE, "none"))
    /\ NoCost /\ TaskFrame /\ UNCHANGED <<halted, hist>>

\* An error took no credit.
Answered(v) == Cost(0, IF v = "error" THEN 0 ELSE 1)

\* After an inconclusive SMTP result the answer is final, whatever it is.
ZuhalProbe(r) ==
    /\ task[r].pc = "zuhal"
    /\ \E v \in ZuhalAnswer :
          /\ Go(r, [task[r] EXCEPT !.pc = "settle", !.paid = v])
          /\ Answered(v)
    /\ TaskFrame /\ UNCHANGED <<halted, hist>>

\* After a reject only a positive answer is final, and only it will be charged.
RescueProbe(r) ==
    /\ task[r].pc = "rescue"
    /\ \E v \in ZuhalAnswer :
          /\ Go(r, IF v \in {"valid", "catch_all"}
                   THEN [task[r] EXCEPT !.pc = "settle", !.paid = v]
                   ELSE [task[r] EXCEPT !.pc = "fallback"])
          /\ Answered(v)
    /\ TaskFrame /\ UNCHANGED <<halted, hist>>

settled(r) ==
    update_record_dual(row[r],
        IF task[r].paid \in {"valid", "catch_all"} THEN "VALIDATED" ELSE "VALIDATION_FAILED",
        task[r].paid, current(r).addr, 1, "none")

\* Mutant: only a positive answer is charged.
SettleChargesHits(r) ==
    /\ task[r].pc = "settle"
    /\ Finish(r, settled(r))
    /\ Cost(IF task[r].paid \in {"valid", "catch_all"} THEN 1 ELSE 0, 0)
    /\ TaskFrame /\ UNCHANGED <<halted, hist>>

\* The row is written first and the call charged afterwards.
Settle(r) ==
    /\ task[r].pc = "settle"
    /\ Finish(r, settled(r))
    /\ Cost(1, 0)
    /\ TaskFrame /\ UNCHANGED <<halted, hist>>

-----------------------------------------------------------------------------
(* Patterns exhausted: free harvest first, then paid Serper. *)

\* The second half of the check, entered with local state t.
TrySerper(r, t) ==
    IF t.serper \/ SerperFinds = {}
    THEN Go(r, [t EXCEPT !.pc = "next"])
    ELSE IF ceiling_reached
    THEN Finish(r, update_record_status(row[r], "COST_SKIPPED"))
    ELSE Go(r, [t EXCEPT !.pc = "serper", !.serper = TRUE])

Fallback(r) ==
    LET t == task[r] IN
    /\ t.pc = "fallback"
    /\ IF t.i # t.boundary
       THEN Go(r, [t EXCEPT !.pc = "next"])
       ELSE IF HarvestFinds # {} /\ ~t.harvested
       THEN Go(r, [t EXCEPT !.pc = "harvest", !.harvested = TRUE])
       ELSE TrySerper(r, t)
    /\ NoCost /\ TaskFrame /\ UNCHANGED <<halted, hist>>

\* Only addresses that are not among the candidates yet are added.
Unseen(finds, cands) ==
    {<<>>} \cup {new \in finds : \A k \in DOMAIN new, m \in DOMAIN cands :
                                   new[k].addr # cands[m].addr}

\* Mutant: the boundary stays where the patterns ended.
harvestKeepsBoundary(r) ==
    LET t == task[r] IN
    /\ t.pc = "harvest"
    /\ \E new \in Unseen(HarvestFinds, t.cands) :
          IF new # <<>> THEN Go(r, [t EXCEPT !.pc = "next", !.cands = @ \o new])
                        ELSE TrySerper(r, t)
    /\ NoCost /\ TaskFrame /\ UNCHANGED <<halted, hist>>

inject_harvest_fallback(r) ==
    LET t == task[r] IN
    /\ t.pc = "harvest"
    /\ \E new \in Unseen(HarvestFinds, t.cands) :
          IF new # <<>>
          THEN Go(r, [t EXCEPT !.pc = "next", !.cands = @ \o new,
                               !.boundary = @ + Len(new)])
          ELSE TrySerper(r, t)
    /\ NoCost /\ TaskFrame /\ UNCHANGED <<halted, hist>>

\* The flag is saved before the call is charged; a failure to save is logged.
inject_serper_fallback(r) ==
    /\ task[r].pc = "serper"
    /\ \E new \in Unseen(SerperFinds, task[r].cands), saved \in {TRUE, ~Faults},
          calls \in 0 .. SerperCalls :
          /\ task' = [task EXCEPT ![r].pc = "next", ![r].cands = @ \o new]
          /\ row' = IF saved THEN [row EXCEPT ![r] = mark_serper_enriched(@)] ELSE row
          /\ Cost(calls, 0)
    /\ TaskFrame /\ UNCHANGED <<halted, hist>>

-----------------------------------------------------------------------------
(* The surroundings. *)

\* An exception nobody expects (a locked database, say) ends the task only.
TaskDies(r) ==
    /\ Faults /\ r \in Active
    /\ Go(r, Idle)
    /\ NoCost /\ TaskFrame /\ UNCHANGED <<halted, hist>>

Produce(r) ==
    /\ ~producerDone /\ row[r].state = "ABSENT"
    /\ row' = [row EXCEPT ![r] = FreshRow("DISCOVERED")]
    /\ UNCHANGED <<producerDone, task, loopVars, stop, costVars, hist, runVars>>

ProducerEnds ==
    /\ ~producerDone
    /\ producerDone' = TRUE
    /\ UNCHANGED <<row, task, loopVars, stop, costVars, hist, runVars>>

HoldExpires(r) ==
    /\ row[r].held
    /\ row' = [row EXCEPT ![r].held = FALSE]
    /\ UNCHANGED <<producerDone, task, loopVars, stop, costVars, hist, runVars>>

\* Five minutes pass over an orphaned claim.
GrowsStale(r) ==
    /\ row[r].state = "VALIDATING" /\ ~row[r].stale /\ task[r].pc = "idle"
    /\ row' = [row EXCEPT ![r].stale = TRUE]
    /\ UNCHANGED <<producerDone, task, loopVars, stop, costVars, hist, runVars>>

Stop ==
    /\ CanStop /\ running /\ ~stop /\ starts < MaxStarts
    /\ stop' = TRUE
    /\ UNCHANGED <<row, producerDone, task, loopVars, costVars, hist, runVars>>

\* Everything in memory is lost; only runs that can be followed by one crash.
Crash ==
    /\ running /\ starts < MaxStarts
    /\ task' = [r \in Records |-> Idle]
    /\ mode' = "down" /\ empties' = 0 /\ stop' = FALSE /\ halted' = FALSE
    /\ UNCHANGED <<row, producerDone, costVars, hist, runVars>>

\* The operator re-queues failed records between two runs.
Reset ==
    /\ CanReset /\ ~running /\ starts < MaxStarts
    /\ \E s \in {"VALIDATION_FAILED", "COST_SKIPPED"}, phase, unverified_only \in BOOLEAN :
          LET new(r) == reset_failed_records(row[r], s, phase, unverified_only) IN
          /\ row' = [r \in Records |-> new(r)]
          /\ hist' = [r \in Records |->
                         [hist[r] EXCEPT !.reset = @ \/ new(r) # row[r]]]
    /\ UNCHANGED <<producerDone, task, loopVars, stop, costVars, runVars>>

-----------------------------------------------------------------------------

TaskStep(r) ==
    \/ Begin(r) \/ Exhausted(r) \/ NextCandidate(r) \/ MsProbe(r) \/ RunBackends(r)
    \/ Halt(r) \/ CircuitOpen(r) \/ ZuhalProbe(r) \/ RescueProbe(r) \/ Settle(r)
    \/ Fallback(r) \/ inject_harvest_fallback(r) \/ inject_serper_fallback(r)

LoopStep ==
    \/ (\E chunk \in SUBSET Records : Claim(chunk))
    \/ PollEmpty \/ ReadProducerDone \/ CheckPending \/ Gathered \/ StopSeen

Environment ==
    \/ Start \/ Stop \/ Crash \/ Reset \/ ProducerEnds
    \/ \E r \in Records : Produce(r) \/ HoldExpires(r) \/ GrowsStale(r) \/ TaskDies(r)

Next == LoopStep \/ Environment \/ \E r \in Records : TaskStep(r)

\* The event loop runs every ready task; time passes; a stopped run is followed
\* by another; the producer ends.  Nothing forces a signal, a crash or a reset.
Fairness ==
    /\ WF_vars(LoopStep) /\ WF_vars(Start) /\ WF_vars(ProducerEnds)
    /\ \A r \in Records : WF_vars(TaskStep(r)) /\ WF_vars(HoldExpires(r))
                          /\ WF_vars(GrowsStale(r))

Spec == Init /\ [][Next]_vars
FairSpec == Spec /\ Fairness

-----------------------------------------------------------------------------
(* Properties. *)

TypeOK ==
    /\ row \in [Records -> Row]
    /\ producerDone \in BOOLEAN
    /\ task \in [Records -> Task]
    /\ mode \in Modes
    /\ empties \in 0 .. EmptyThreshold
    /\ stop \in BOOLEAN /\ halted \in BOOLEAN
    /\ spent \in Nat /\ billed \in Nat
    /\ hist \in [Records -> History]
    /\ conf \in Confs
    /\ starts \in 0 .. MaxStarts

\* The retry counters (dispatcher.py:203-217, 369, 387) bound how often a row
\* goes round: whatever the backends answer and however runs are interrupted,
\* no counter passes its limit, except that every run may add one attempt to a
\* row it finds orphaned.
BudgetsHold ==
    \A r \in Records :
        /\ row[r].requeues <= MaxRequeues
        /\ row[r].tunnel <= MaxTunnel
        /\ row[r].bbops <= MaxBbops
        /\ row[r].attempts <= MaxAttempts + starts

\* A task only ever works on a row that is claimed, and only while the poll
\* loop waits for the chunk: no row has two owners and no task outlives the
\* loop (dispatcher.py:168-169).
TasksOwnClaims ==
    \A r \in Records :
        task[r].pc # "idle" => row[r].state = "VALIDATING" /\ mode = "gather"

Finished == Terminal \cup {"NEEDS_ZUHAL"}

\* The loop leaves by itself only when nothing is left to do: every row the
\* producer wrote, held ones included, has been finished, although rows arrive
\* while the loop is between its three queries (dispatcher.py:136-150).
CleanExit ==
    mode = "checkPending" /\ mode' = "exited"
ExitsDrained ==
    [][CleanExit => /\ producerDone
                    /\ \A r \in Records : row[r].state \in Finished \cup {"ABSENT"}]_vars

\* Concurrent tasks check the ceiling before they call and charge it after, so
\* it is overshot, but by no more than what the running tasks can have under
\* way (cost_tracker.py:32, dispatch_verdicts.py:90,128,168,206).
CallLimit == IF SerperCalls > 1 THEN SerperCalls ELSE 1
SpendBounded == spent < Ceiling + Concurrency * CallLimit

\* Every call Zuhal has answered is on the tracker the ceiling is read from, or
\* its task is about to put it there (dispatch_verdicts.py:128, 206).  The
\* rescue of a reject is charged only when it helps (211), so the settings
\* without it are the ones this holds for.
AnsweredIsCharged ==
    running /\ ~conf.onBothInvalid =>
        billed <= spent + Cardinality({r \in Records : task[r].pc = "settle"})

\* OR of valids (reconcile.py:44-46): a record one backend has called valid is
\* never written off.
ValidNeverLost ==
    \A r \in Records : hist[r].valid => row[r].state # "VALIDATION_FAILED"

\* Serper is tried before a record whose addresses all failed is given up, even
\* when the harvest has moved the end of the list (dispatcher.py:470-487).
GiveUpOnlyAfterSerper ==
    [][\A r \in Records : Exhausted(r) => row[r].enriched]_vars

\* A record the operator has re-queued is looked at before it fails again.
ResetIsEffective ==
    \A r \in Records : hist[r].reset => row[r].state # "VALIDATION_FAILED"

\* Every row the producer writes is eventually finished, whatever the backends
\* answer: requeues, holds and dead tunnels included.
EveryRecordFinishes ==
    \A r \in Records : row[r].state = "DISCOVERED" ~> row[r].state \in Finished

\* ... and then the dispatcher comes to an end by itself.
RunEnds == <>[](mode = "exited")

-----------------------------------------------------------------------------
(* The promise about each record's life, RecordLifecycle, is kept. *)

PhaseOf(s) ==
    CASE s \in {"ABSENT", "RAW", "DISCOVERING"}          -> "absent"
      [] s = "DISCOVERED"                                -> "waiting"
      [] s = "VALIDATING"                                -> "claimed"
      [] s = "NEEDS_ZUHAL"                               -> "paid"
      [] s = "ZUHAL_VALIDATING"                          -> "paidClaimed"
      [] s = "VALIDATED"                                 -> "accepted"
      [] s \in {"VALIDATION_FAILED", "DISCOVERY_FAILED"} -> "failed"
      [] s = "COST_SKIPPED"                              -> "skipped"

Lifecycle == INSTANCE RecordLifecycle WITH
    MaxReturns <- MaxRequeues,
    phase   <- [r \in Records |-> PhaseOf(row[r].state)],
    returns <- [r \in Records |-> row[r].requeues]

\* Every step of the dispatcher is a step of RecordLifecycle or none.
KeepsLifecycle == Lifecycle!Spec

-----------------------------------------------------------------------------
(* What makes the invariants inductive. *)

\* A task past _load_candidates has found the attempts and requeues of its row
\* below their limits, and only its own last write raises them; past the top of
\* the candidate loop it has a current candidate.
TaskInv(t, x) ==
    /\ t.pc \notin {"idle", "queued"} => x.requeues < MaxRequeues /\ x.attempts < MaxAttempts
    /\ t.pc = "next" => t.i <= Len(t.cands)
    /\ t.pc \notin {"idle", "queued", "next"} => t.i \in 1 .. Len(t.cands)

\* The inductive invariant: a row's counters are checked when its task begins
\* (dispatcher.py:203-217) and written at its very end (134-171 of records.py),
\* with any number of awaits in between.
IInv ==
    /\ TypeOK /\ TasksOwnClaims /\ BudgetsHold
    /\ \A r \in Records : TaskInv(task[r], row[r])

=============================================================================
