---------------------------- MODULE MasterFlush ----------------------------
(***************************************************************************)
(* The flush into the master database (pipeline/ops/master_db.py): a       *)
(* thread with connections of its own that copies the records that have    *)
(* ended since the last time, remembered as the highest rowid copied.      *)
(***************************************************************************)
EXTENDS Store, SequencesExt

CONSTANTS
    RowOrder,       (* unique_ids in the order of their rowids              *)
    FlushEvery      (* flush_every                                          *)

ASSUME FlushAssumption ==
    /\ RowOrder \in Seq(Uids) /\ ToSet(RowOrder) = Uids /\ IsInjective(RowOrder)
    /\ FlushEvery \in Nat \ {0}

VARIABLES
    watermark,      \* ingest_checkpoints.last_rowid
    master,         \* the records in verified_emails
    fpc, rows,      \* the flush under way and what it has selected
    overtaken       \* history: not copied when a later row was

flushing == <<watermark, master, fpc, rows, overtaken>>

FlushTypeOK ==
    /\ watermark \in 0..Len(RowOrder)
    /\ fpc \in {"idle", "write"}
    /\ {master, rows, overtaken} \subseteq SUBSET Uids

FlushInit ==
    /\ watermark = 0 /\ master = {} /\ fpc = "idle" /\ rows = {} /\ overtaken = {}

rowid(u) == CHOOSE i \in DOMAIN RowOrder : RowOrder[i] = u

\* Mutant: the watermark moves to the last row of the table.
highestRowid(S) == Max({watermark} \cup {rowid(u) : u \in {x \in Uids : disk.row[x] # "ABSENT"}})

\* Mutant: the watermark is where the next flush starts.
nextRowid(S) == 1 + (IF S = {} THEN watermark ELSE Max({rowid(u) : u \in S}))

\* Records without an address move the watermark, too.  A flush that another
\* one has overtaken moves it back.
newLastRowid(S) == IF S = {} THEN watermark ELSE Max({rowid(u) : u \in S})

\* Other connections see what has been committed.
newlyTerminal == {u \in Uids : rowid(u) > watermark /\ disk.row[u] \in Settled}

\* Nobody without an address has been validated; discovery may have found none.
withEmail(S) == {u \in S : disk.row[u] # "DISCOVERY_FAILED"}

\* The count and the selection; what ends in between only adds to both.
FlushSelects ==
    /\ fpc = "idle" /\ Cardinality(newlyTerminal) >= FlushEvery
    /\ fpc' = "write" /\ rows' = newlyTerminal
    /\ UNCHANGED <<watermark, master, overtaken>>

\* One transaction on the master database: the copies and the watermark.
upsert(S) ==
    /\ watermark' = newLastRowid(S)
    /\ master' = master \cup withEmail(S)
    /\ overtaken' = overtaken \cup
         {u \in Uids \ S : \E v \in S : rowid(u) < rowid(v)}

\* An error is logged and the next flush tries again.
FlushWrites ==
    /\ fpc = "write" /\ fpc' = "idle" /\ rows' = {}
    /\ upsert(rows) \/ UNCHANGED <<watermark, master, overtaken>>

\* flush_every = 0: whatever there is.
flushAll == upsert(newlyTerminal) /\ UNCHANGED <<fpc, rows>>

=============================================================================
