------------------------------ MODULE Pipeline ------------------------------
(***************************************************************************)
(* A run of the process (pipeline/__main__.py, cmd_run): the producer, the *)
(* verification stage and the master flush as tasks of one event loop over *)
(* one connection, what ends a run and how it is torn down, and the next   *)
(* run on the same database.                                               *)
(*                                                                         *)
(* The verification stage is the loop of pipeline/dispatcher.py with its   *)
(* exit decision; a probe is a step that comes to a verdict, whose write   *)
(* and commit are two awaits.  What happens in between is in Dispatcher.   *)
(***************************************************************************)
EXTENDS Producer, MasterFlush

CONSTANTS
    DispatchChunk, EmptyThreshold,
    CanStop, CanCrash, CanHalt,
    MaxStarts              (* bound: runs on this database, the last of      *)
                           (* which meets no fault                           *)

ASSUME PipelineAssumption ==
    /\ {DispatchChunk, EmptyThreshold} \subseteq Nat \ {0} /\ MaxStarts \in Nat
    /\ {CanStop, CanCrash, CanHalt} \subseteq BOOLEAN

VARIABLES
    dpc, empties, worker,     \* the verification stage and its tasks
    phase, stop, master_db,   \* the process; is --master-db given?
    starts,
    wasDone,      \* history: producer_done when this run began
    normal,       \* history: the last run ended without an exception
    reported,     \* what write_outputs of the last run has listed
    acked         \* history: records whose verdict's commit has returned

stage   == <<dpc, empties, worker>>
process == <<phase, stop, master_db, starts, wasDone, normal, reported>>
vars    == <<store, producer, flushing, stage, process, acked>>

Verified == {"VALIDATED", "VALIDATION_FAILED"}
Ended(d) == {u \in Uids : d.row[u] \in Settled}

TypeOK ==
    /\ mem \in Database /\ disk \in Database /\ inTx \in BOOLEAN
    /\ ProducerTypeOK /\ FlushTypeOK
    /\ dpc \in {"off", "poll", "readDone", "pending", "gather", "ended", "raised"}
    /\ empties \in 0..EmptyThreshold
    /\ worker \in [Uids -> {"none", "probing", "writing", "undone", "halted"}]
    /\ phase \in {"idle", "running", "flushing", "reporting", "closing"}
    /\ {stop, master_db, wasDone, normal} \subseteq BOOLEAN
    /\ starts \in 0..MaxStarts
    /\ {reported, acked} \subseteq SUBSET Uids

NoWorkers == [u \in Uids |-> "none"]

Init ==
    /\ StoreInit /\ ProducerInit /\ FlushInit
    /\ dpc = "off" /\ empties = 0 /\ worker = NoWorkers
    /\ phase = "idle" /\ stop = FALSE /\ master_db \in BOOLEAN /\ starts = 0
    /\ wasDone = FALSE /\ normal = FALSE /\ reported = {}
    /\ acked = {}

Up == phase # "idle"

-----------------------------------------------------------------------------
(* The verification stage                                                  *)

\* recover_stale_validating, the claims of the last run being old by now.
StageStarts ==
    /\ Up /\ dpc = "off"
    /\ dpc' = "poll" /\ empties' = 0
    /\ execute([mem EXCEPT !.row = [u \in Uids |->
                  IF @[u] = "VALIDATING" THEN "DISCOVERED" ELSE @[u]]])
    /\ UNCHANGED <<worker, producer, flushing, process, acked>>

Claimable == {u \in Uids : mem.row[u] = "DISCOVERED"}

\* fetch_pending_validation claims without a commit of its own.
Poll ==
    /\ Up /\ dpc = "poll"
    /\ \/ stop /\ dpc' = "ended" /\ UNCHANGED <<empties, worker, store>>
       \/ /\ ~stop /\ Claimable # {}
          /\ \E S \in kSubset(Min({DispatchChunk, Cardinality(Claimable)}), Claimable) :
               /\ execute([mem EXCEPT !.row = [u \in Uids |->
                             IF u \in S THEN "VALIDATING" ELSE @[u]]])
               /\ worker' = [u \in Uids |-> IF u \in S THEN "probing" ELSE "none"]
          /\ dpc' = "gather" /\ empties' = 0
       \/ /\ ~stop /\ Claimable = {}
          /\ dpc' = "readDone" /\ empties' = Min({empties + 1, EmptyThreshold})
          /\ UNCHANGED <<worker, store>>
    /\ UNCHANGED <<producer, flushing, process, acked>>

\* Mutant: no look at what is pending before the exit.
ReadDoneLeaves ==
    /\ Up /\ dpc = "readDone"
    /\ dpc' = IF mem.done /\ empties = EmptyThreshold THEN "ended" ELSE "poll"
    /\ UNCHANGED <<empties, worker, store, producer, flushing, process, acked>>

ReadDone ==
    /\ Up /\ dpc = "readDone"
    /\ dpc' = IF mem.done THEN "pending" ELSE "poll"
    /\ UNCHANGED <<empties, worker, store, producer, flushing, process, acked>>

CheckPending ==
    /\ Up /\ dpc = "pending"
    /\ dpc' = IF Claimable = {} /\ empties = EmptyThreshold THEN "ended" ELSE "poll"
    /\ empties' = IF Claimable = {} THEN empties ELSE 0
    /\ UNCHANGED <<worker, store, producer, flushing, process, acked>>

Gathered ==
    /\ Up /\ dpc = "gather" /\ \A u \in Uids : worker[u] \in {"none", "halted"}
    /\ dpc' = IF \E u \in Uids : worker[u] = "halted" THEN "raised" ELSE "poll"
    /\ worker' = NoWorkers
    /\ UNCHANGED <<empties, store, producer, flushing, process, acked>>

\* A task writes its verdict, raises PipelineHaltError, or finds the stop
\* event set before it has begun.  "undone": what it wrote was rolled back, or
\* there was nothing to write to, the row itself having been rolled back.
Probed(u) ==
    /\ Up /\ worker[u] = "probing"
    /\ \/ /\ \E s \in Verified : execute(updateRecord(u, s))
          /\ worker' = [worker EXCEPT ![u] = IF mem.row[u] = "ABSENT" THEN "undone" ELSE "writing"]
       \/ /\ CanHalt /\ starts < MaxStarts
          /\ worker' = [worker EXCEPT ![u] = "halted"] /\ UNCHANGED store
       \/ /\ stop /\ worker' = [worker EXCEPT ![u] = "none"] /\ UNCHANGED store
    /\ UNCHANGED <<dpc, empties, producer, flushing, process, acked>>

\* Mutant: the write is left to autocommit.
noCommit == UNCHANGED store

commitVerdict == commit

Acknowledged(u) ==
    /\ Up /\ worker[u] \in {"writing", "undone"} /\ commitVerdict
    /\ worker' = [worker EXCEPT ![u] = "none"]
    /\ acked' = IF worker[u] = "writing" THEN acked \cup {u} ELSE acked
    /\ UNCHANGED <<dpc, empties, producer, flushing, process>>

-----------------------------------------------------------------------------
(* The producer and the flush, inside a run                                *)

ProducerActs ==
    /\ Up
    /\ ProducerStarts \/ ProducerStep(stop) \/ Heartbeat(stop)
    /\ ppc' = "raised" => starts < MaxStarts \/ ppc = "raised"
    \* a rollback of the producer's takes the writes of other tasks with it
    /\ worker' = [u \in Uids |->
                    IF worker[u] = "writing" /\ mem'.row[u] # mem.row[u]
                    THEN "undone" ELSE worker[u]]
    /\ UNCHANGED <<dpc, empties, flushing, process, acked>>

\* The flush loop: every minute until the stop event; a flush under way ends.
FlushActs ==
    /\ master_db /\ Up
    /\ (phase = "running" /\ ~stop /\ FlushSelects) \/ FlushWrites
    /\ UNCHANGED <<store, producer, stage, process, acked>>

-----------------------------------------------------------------------------
(* The process                                                             *)

StartRun ==
    /\ phase = "idle" /\ starts < MaxStarts
    /\ phase' = "running" /\ starts' = starts + 1 /\ UNCHANGED stop
    /\ wasDone' = mem.done /\ normal' = FALSE /\ reported' = {}
    /\ UNCHANGED <<master_db, store, producer, flushing, stage, acked>>

Signal ==
    /\ CanStop /\ phase = "running" /\ ~stop /\ stop' = TRUE
    /\ UNCHANGED <<phase, master_db, starts, wasDone, normal, reported,
                   store, producer, flushing, stage, acked>>

Raised == ppc = "raised" \/ dpc = "raised"

\* Mutant: the flush loop does not end on the stop event.
waitsForFlush == ppc = "ended" /\ dpc = "ended" /\ ~master_db

\* Mutant: the run is torn down when the producer is through.
producerEnded == ppc = "ended"

(* The gather of the tasks: the first exception, or all results.  The      *)
(* flush loop is one of the tasks and ends on the stop event only, which   *)
(* nothing but a signal or the teardown sets.                              *)
gatherReturns == ppc = "ended" /\ dpc = "ended" /\ (master_db => stop /\ fpc = "idle")

GatherEnds ==
    /\ phase = "running" /\ (Raised \/ gatherReturns)
    /\ phase' = IF master_db THEN "flushing" ELSE "reporting"
    /\ stop' = TRUE /\ normal' = ~Raised
    /\ UNCHANGED <<master_db, starts, wasDone, reported, store, producer, flushing, stage, acked>>

\* After an exception other tasks are still running, the flush loop's thread
\* among them.
FinalFlush ==
    /\ phase = "flushing" /\ phase' = "reporting" /\ flushAll
    /\ UNCHANGED <<stop, master_db, starts, wasDone, normal, reported,
                   store, producer, stage, acked>>

\* upsert_stats commits the shared connection, then write_outputs reads it.
Report ==
    /\ phase = "reporting" /\ commit
    /\ reported' = Ended(mem) /\ phase' = "closing"
    /\ UNCHANGED <<stop, master_db, starts, wasDone, normal, producer, flushing, stage, acked>>

\* What a process leaves behind, closed or killed.
Gone ==
    /\ phase' = "idle" /\ rollback
    /\ NewProducer /\ ppc' = "off" /\ offset' = 0
    /\ dpc' = "off" /\ empties' = 0 /\ worker' = NoWorkers
    /\ fpc' = "idle" /\ rows' = {}
    /\ stop' = FALSE /\ wasDone' = FALSE
    /\ UNCHANGED <<outages, watermark, master, overtaken, master_db, starts, reported, acked>>

Close == phase = "closing" /\ Gone /\ UNCHANGED normal

Crash == CanCrash /\ Up /\ starts < MaxStarts /\ Gone /\ normal' = FALSE

Task(u) == Probed(u) \/ Acknowledged(u)
Stage   == StageStarts \/ Poll \/ ReadDone \/ CheckPending \/ Gathered
Process == GatherEnds \/ FinalFlush \/ Report \/ Close

Next ==
    \/ ProducerActs \/ FlushActs \/ Stage \/ (\E u \in Uids : Task(u))
    \/ Process \/ StartRun \/ Signal \/ Crash

\* The event loop runs what is ready, and network calls time out.  A task
\* that has been cut off by the end of the process is not awaited.
Fairness ==
    /\ WF_vars(ProducerActs) /\ WF_vars(FlushActs) /\ WF_vars(Stage)
    /\ \A u \in Uids : WF_vars(Task(u))
    /\ WF_vars(Process)

Spec == Init /\ [][Next]_vars /\ Fairness

-----------------------------------------------------------------------------

(* The offset on disk never covers a line whose record is not on disk,     *)
(* whoever commits or rolls back the producer's transaction and wherever a *)
(* crash falls: no line of the input is skipped.                           *)
NoLineSkipped ==
    \A i \in 1..disk.offset : File[i] = "bad" \/ disk.row[File[i]] # "ABSENT"

(* A producer that ends by itself has read the whole file and left nothing *)
(* to discover: the retry rounds drain what met a transient error.         *)
FinishedMeansDiscovered ==
    ppc = "ended" /\ ~stop /\ ~ceiling /\ Limit = 0 /\ MaxDiscoveryRetries > 0
      => /\ disk.offset = Len(File)
         /\ \A u \in Uids : mem.row[u] # "DISCOVERING"

(* A verdict whose commit has returned is on disk and stays there, although *)
(* the write may have fallen into the producer's transaction and be         *)
(* committed, or be undone, with it.                                        *)
AcknowledgedSurvives ==
    \A u \in acked : disk.row[u] \in Verified

(* In a run that did not find producer_done set by an earlier one, the     *)
(* verification stage leaves by itself only after the producer, and with   *)
(* nothing claimable left.                                                 *)
StagesEndInOrder ==
    dpc = "ended" /\ Up /\ ~stop /\ ~wasDone => ppc = "ended" /\ Claimable = {}

(* The outputs of a run that ended without an exception list every record  *)
(* that has ended.                                                         *)
ReportComplete ==
    phase = "idle" /\ normal => reported = Ended(disk)

(* After such a run the master database has every record that has ended,   *)
(* but for those that had not when a flush copied a later row.             *)
MasterMissesOnlyOvertaken ==
    phase = "idle" /\ normal /\ master_db
      => withEmail(Ended(disk)) \subseteq master \cup overtaken

(* A run ends: by itself without a flush loop, and with one when it is     *)
(* told to stop.  (Without the signal it would not: see gatherReturns.)    *)
RunEnds == (phase = "running" /\ (stop \/ ~master_db)) ~> (phase = "idle")

=============================================================================
