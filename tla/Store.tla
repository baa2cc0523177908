-------------------------------- MODULE Store --------------------------------
(***************************************************************************)
(* The shared connection (pipeline/db/schema.py, init_db): autocommit, one *)
(* connection for every coroutine of the process.  While the producer has  *)
(* a transaction open, whatever another coroutine executes is inside that  *)
(* transaction, and whatever another coroutine commits, commits it.        *)
(*                                                                         *)
(* mem is what the connection sees, disk what survives a crash and what    *)
(* other connections (the master flush) read.  A record is its state; the  *)
(* Dispatcher and ZuhalDispatcher modules say how the two verification     *)
(* stages move it, here a single stage stands for both.                    *)
(***************************************************************************)
EXTENDS Naturals, Sequences, FiniteSets

CONSTANT Uids           (* unique_id                                       *)

VARIABLES mem, disk, inTx

store == <<mem, disk, inTx>>

Discovery == {"DISCOVERED", "DISCOVERING", "DISCOVERY_FAILED"}
Settled   == {"VALIDATED", "VALIDATION_FAILED", "DISCOVERY_FAILED"}

Database == [row    : [Uids -> Discovery \cup Settled \cup {"ABSENT", "VALIDATING"}],
             offset : Nat,              \* checkpoint producer_offset
             done   : BOOLEAN]          \* checkpoint producer_done

EmptyDatabase == [row |-> [u \in Uids |-> "ABSENT"], offset |-> 0, done |-> FALSE]

StoreInit == mem = EmptyDatabase /\ disk = EmptyDatabase /\ inTx = FALSE

execute(d) == mem' = d /\ disk' = (IF inTx THEN disk ELSE d) /\ UNCHANGED inTx

begin == inTx' = TRUE /\ UNCHANGED <<mem, disk>>

commit == disk' = mem /\ inTx' = FALSE /\ UNCHANGED mem

\* Also what is left of an open transaction when the connection goes away.
rollback == mem' = disk /\ inTx' = FALSE /\ UNCHANGED disk

\* UPDATE ... WHERE unique_id = ?: nothing happens to a row that is not there.
updateRecord(u, s) == IF mem.row[u] = "ABSENT" THEN mem ELSE [mem EXCEPT !.row[u] = s]

\* INSERT OR IGNORE: a second row with the same unique_id is dropped.
insertRecord(u, s) == IF mem.row[u] = "ABSENT" THEN [mem EXCEPT !.row[u] = s] ELSE mem

=============================================================================
