------------------------------ MODULE Producer ------------------------------
(***************************************************************************)
(* The producer (pipeline/producer.py): reads the input in chunks, finds   *)
(* out about the records of a chunk concurrently, writes the chunk and the *)
(* offset in one transaction, and in the end goes over the records whose   *)
(* discovery met a transient error.                                        *)
(*                                                                         *)
(* What a record's discovery comes to is chosen here; how the paid search  *)
(* behind it behaves is in SerperClient.  ppc is the await the producer    *)
(* is in.                                                                  *)
(***************************************************************************)
EXTENDS Store, SequencesExt

CONSTANTS
    File,                  (* the lines of the input: a unique_id or "bad"    *)
    ChunkSize,
    Limit,                 (* --limit, 0 for none                             *)
    MaxDiscoveryRetries,
    Found,                 (* what discovery may come to, "halt" included     *)
    MaxOutages,            (* bound: records that meet a transient error      *)
    CanHitCeiling, InsertMayFail

ASSUME ProducerAssumption ==
    /\ File \in Seq(Uids \cup {"bad"}) /\ "bad" \notin Uids
    /\ ChunkSize \in Nat \ {0} /\ Limit \in Nat /\ MaxDiscoveryRetries \in Nat
    /\ Found \subseteq Discovery \cup {"halt"} /\ MaxOutages \in Nat
    /\ {CanHitCeiling, InsertMayFail} \subseteq BOOLEAN

VARIABLES
    ppc,
    offset, read,       \* the line reached, and the lines of this chunk
    batch, next,        \* results of the chunk, and the one to be written
    total,              \* total_processed
    ceiling,            \* cost_tracker.ceiling_reached()
    round, retried,     \* the retry loop
    outages

producer == <<ppc, offset, read, batch, next, total, ceiling, round, retried, outages>>

ProducerPC == {"off", "read", "discover", "insert", "checkpoint", "commit",
               "retryFetch", "retryDiscover", "retryWrite", "finish", "ended", "raised"}

Result == [uid : Uids, state : Discovery \cup {"none"}]

ProducerTypeOK ==
    /\ ppc \in ProducerPC
    /\ {offset, read, total, next, round, outages} \subseteq Nat
    /\ batch \in Seq(Result)
    /\ {ceiling, retried} \subseteq BOOLEAN

ProducerInit ==
    /\ ppc = "off" /\ offset = 0 /\ read = 0 /\ batch = <<>> /\ next = 0 /\ total = 0
    /\ ceiling = FALSE /\ round = 1 /\ retried = FALSE /\ outages = 0

goTo(pc) == ppc' = pc

-----------------------------------------------------------------------------
(* Reading and discovering                                                 *)

resumeAt == offset' = mem.offset

NewProducer ==
    /\ total' = 0 /\ ceiling' = FALSE /\ round' = 1 /\ retried' = FALSE
    /\ batch' = <<>> /\ next' = 0 /\ read' = 0

\* A new ProducerWorker on the checkpoint of the last one.
ProducerStarts ==
    /\ ppc = "off" /\ goTo("read") /\ resumeAt
    /\ NewProducer
    /\ UNCHANGED <<outages, store>>

\* A set of rows as the list a query returns them in.
asBatch(S) == SetToSeq({[uid |-> u, state |-> "none"] : u \in S})

parse(lines) ==
    LET good    == {i \in DOMAIN lines : lines[i] # "bad"}
        upTo(i) == Cardinality({j \in good : j <= i})
    IN  [k \in 1..Cardinality(good) |->
           [uid |-> lines[CHOOSE i \in good : upTo(i) = k], state |-> "none"]]

chunkLines ==
    LET size == IF Limit > 0 THEN Min({ChunkSize, Limit - total}) ELSE ChunkSize
    IN  SubSeq(File, offset + 1, Min({offset + size, Len(File)}))

\* The retry loop is skipped on a stop, or when it has no rounds.
leaveLoop(stop) ==
    goTo(IF ~stop /\ MaxDiscoveryRetries > 0 THEN "retryFetch" ELSE "finish")

ReadChunk(stop) ==
    /\ ppc = "read"
    /\ IF stop \/ chunkLines = <<>>
       THEN leaveLoop(stop) /\ UNCHANGED <<batch, read>>
       ELSE goTo("discover") /\ batch' = parse(chunkLines) /\ read' = Len(chunkLines)
    /\ UNCHANGED <<offset, next, total, ceiling, round, retried, outages, store>>

(* _process_record for every record of the batch; one of them may raise    *)
(* PipelineHaltError (a rejected key), and the gather with it.             *)
Discover ==
    /\ ppc \in {"discover", "retryDiscover"}
    /\ \E found \in [DOMAIN batch -> Found] :
         LET transient == Cardinality({i \in DOMAIN batch : found[i] = "DISCOVERING"})
             raises    == \E i \in DOMAIN batch : found[i] = "halt"
         IN  /\ outages + transient <= MaxOutages
             /\ outages' = outages + transient
             /\ batch' = IF raises THEN batch
                         ELSE [i \in DOMAIN batch |-> [batch[i] EXCEPT !.state = found[i]]]
             /\ goTo(IF raises THEN "raised"
                     ELSE IF ppc = "discover" THEN "insert" ELSE "retryWrite")
    /\ ceiling' \in {ceiling, CanHitCeiling}
    /\ next' = 0
    /\ UNCHANGED <<offset, read, total, round, retried, store>>

-----------------------------------------------------------------------------
(* Writing a chunk: insert_records_batch                                   *)

\* Each execute is awaited, so others run between BEGIN, the rows, the
\* checkpoint and the commit.
InsertRecord ==
    /\ ppc = "insert"
    /\ IF next = 0 THEN begin
       ELSE execute(insertRecord(batch[next].uid, batch[next].state))
    /\ next' = next + 1
    /\ goTo(IF next = Len(batch) THEN "checkpoint" ELSE "insert")
    /\ UNCHANGED <<offset, read, batch, total, ceiling, round, retried, outages>>

\* Mutant: the line that ends the loop is counted, too.
offsetPastChunk == offset + read + 1

newOffset == offset + read

SaveOffset ==
    /\ ppc = "checkpoint" /\ goTo("commit")
    /\ execute([mem EXCEPT !.offset = newOffset])
    /\ UNCHANGED <<offset, read, batch, next, total, ceiling, round, retried, outages>>

CommitChunk(stop) ==
    /\ ppc = "commit" /\ commit
    /\ offset' = newOffset /\ total' = total + Len(batch)
    /\ IF ceiling \/ (Limit > 0 /\ total' >= Limit) THEN leaveLoop(stop) ELSE goTo("read")
    /\ batch' = <<>> /\ read' = 0 /\ next' = 0
    /\ UNCHANGED <<ceiling, round, retried, outages>>

\* An execute fails (disk full, a constraint): rollback, and the producer raises.
InsertFails ==
    /\ InsertMayFail /\ ppc \in {"insert", "checkpoint", "commit"} /\ next > 0
    /\ rollback /\ goTo("raised")
    /\ UNCHANGED <<offset, read, batch, next, total, ceiling, round, retried, outages>>

-----------------------------------------------------------------------------
(* _run_discovery_retries                                                  *)

\* Mutant: "done" is announced as soon as the file has been read.
RetryFetchNothing ==
    /\ ppc = "retryFetch" /\ goTo("finish")
    /\ UNCHANGED <<offset, read, batch, next, total, ceiling, round, retried, outages, store>>

\* A round drains everything pending; it ends with a query that finds nothing.
\* The stop event is not looked at.
RetryFetch ==
    /\ ppc = "retryFetch"
    /\ LET pending == {u \in Uids : mem.row[u] = "DISCOVERING"}
           again   == retried /\ round < MaxDiscoveryRetries
       IN  IF pending = {}
           THEN /\ goTo(IF again THEN "retryFetch" ELSE "finish")
                /\ round' = IF again THEN round + 1 ELSE round
                /\ retried' = FALSE /\ UNCHANGED batch
           ELSE /\ \E S \in kSubset(Min({ChunkSize, Cardinality(pending)}), pending) :
                     batch' = asBatch(S)
                /\ goTo("retryDiscover") /\ retried' = TRUE /\ UNCHANGED round
    /\ UNCHANGED <<offset, read, next, total, ceiling, outages, store>>

\* update_record_discovery, one record after the other; a reached ceiling
\* ends the retries.
RetryWrite ==
    /\ ppc = "retryWrite"
    /\ execute(updateRecord(batch[next + 1].uid, batch[next + 1].state))
    /\ IF next + 1 < Len(batch) THEN next' = next + 1 /\ UNCHANGED <<ppc, batch>>
       ELSE /\ goTo(IF ceiling THEN "finish" ELSE "retryFetch")
            /\ next' = 0 /\ batch' = <<>>
    /\ UNCHANGED <<offset, read, total, ceiling, round, retried, outages>>

\* The checkpoint is set whatever ended the loops, and never reset.
ProducerEnds ==
    /\ ppc = "finish" /\ goTo("ended")
    /\ execute([mem EXCEPT !.done = TRUE])
    /\ UNCHANGED <<offset, read, batch, next, total, ceiling, round, retried, outages>>

\* upsert_producer_heartbeat: its commit commits whatever transaction is open.
Heartbeat(stop) ==
    /\ inTx /\ ~stop /\ ppc \notin {"off", "ended"}
    /\ commit
    /\ UNCHANGED producer

ProducerStep(stop) ==
    \/ ReadChunk(stop) \/ Discover \/ InsertRecord \/ SaveOffset \/ CommitChunk(stop)
    \/ InsertFails \/ RetryFetch \/ RetryWrite \/ ProducerEnds

=============================================================================
