--------------------------- MODULE PipelineProofs ---------------------------
(***************************************************************************)
(* The safety properties of a run and of the next one, for every input     *)
(* file, chunk size and limit, and every number of runs, kills, signals    *)
(* and failing inserts.                                                    *)
(***************************************************************************)
EXTENDS Pipeline, FiniteSetTheorems, TLAPS

Writing == {"insert", "checkpoint", "commit"}
Chunk   == {"discover"} \cup Writing
Retries == {"retryFetch", "retryDiscover", "retryWrite"}

TypeInv ==
    /\ mem \in Database /\ disk \in Database /\ inTx \in BOOLEAN
    /\ ppc \in ProducerPC /\ batch \in Seq(Result)
    /\ offset \in Nat /\ read \in Nat /\ next \in Nat /\ total \in Nat
    /\ ceiling \in BOOLEAN /\ stop \in BOOLEAN
    /\ worker \in [Uids -> {"none", "probing", "writing", "undone", "halted"}]
    /\ watermark \in 0..Len(RowOrder)
    /\ master \in SUBSET Uids /\ rows \in SUBSET Uids /\ overtaken \in SUBSET Uids

\* Outside a transaction connection and disk agree, and only a producer that
\* writes a chunk has one; what has ended on disk has ended for the connection.
StoreInv ==
    /\ inTx => ppc \in Writing
    /\ ~inTx => mem = disk
    /\ disk.done => mem.done
    /\ \A u \in Uids : disk.row[u] \in Settled => mem.row[u] = disk.row[u] \/ mem.row[u] \in Verified
    /\ \A u \in Uids : disk.row[u] = "DISCOVERY_FAILED" => mem.row[u] = disk.row[u]

covered(d, n) ==
    n <= Len(File) /\ \A i \in 1..n : File[i] = "bad" \/ d.row[File[i]] # "ABSENT"

isWritten(j) == ppc \in {"checkpoint", "commit"} \/ (ppc = "insert" /\ j < next)

\* The lines before the chunk are in the table, those of the chunk in the
\* batch, and what has been inserted of the batch is in the table again.
LinesInv ==
    /\ covered(disk, disk.offset) /\ covered(mem, mem.offset)
    /\ ppc \in {"read"} \cup Chunk => covered(mem, offset)
    /\ ppc \in {"read", "ended", "finish"} \cup Chunk \cup Retries =>
         mem.offset = IF ppc = "commit" THEN newOffset ELSE offset
    /\ ppc \in Chunk =>
         /\ newOffset <= Len(File)
         /\ \A i \in (offset + 1)..newOffset :
              File[i] = "bad" \/ \E j \in DOMAIN batch : batch[j].uid = File[i]
    /\ ppc = "insert" => next <= Len(batch)
    /\ ppc \in Writing => \A j \in DOMAIN batch :
         /\ batch[j].state \in Discovery
         /\ isWritten(j) => mem.row[batch[j].uid] # "ABSENT"

\* A task's row is neither undiscovered nor gone, unless the producer has been
\* rolled back; what a retry is about to write is nobody else's.
RowsInv ==
    /\ \A u \in Uids : worker[u] = "probing" =>
         /\ mem.row[u] # "DISCOVERY_FAILED"
         /\ ppc # "raised" => mem.row[u] \notin {"DISCOVERING", "ABSENT"}
    /\ \A u \in Uids : worker[u] = "writing" => mem.row[u] \in Verified
    /\ acked \subseteq Uids /\ AcknowledgedSurvives
    /\ ppc \in {"retryDiscover", "retryWrite"} =>
         /\ \A i \in DOMAIN batch : i > (IF ppc = "retryWrite" THEN next ELSE 0) =>
              mem.row[batch[i].uid] = "DISCOVERING"
         /\ \A i, j \in DOMAIN batch : i # j => batch[i].uid # batch[j].uid
         /\ batch # <<>>
    /\ ppc = "retryWrite" =>
         next < Len(batch) /\ \A i \in DOMAIN batch : batch[i].state \in Discovery

\* What ends which stage.
StageInv ==
    /\ dpc # "gather" => worker = NoWorkers
    /\ ~Up => dpc = "off" /\ ppc = "off" /\ ~inTx
    /\ Up /\ ~wasDone /\ mem.done => ppc = "ended"
    /\ Up /\ ~stop /\ ~wasDone /\ dpc \in {"pending", "ended"} => ppc = "ended"
    /\ StagesEndInOrder

allRead == Limit = 0 /\ MaxDiscoveryRetries > 0 /\ ~stop /\ ~ceiling

\* A producer that nothing has cut short has read everything before its
\* retries, and discovered everything before it finishes.
FinishInv ==
    /\ ceiling => CanHitCeiling
    /\ allRead /\ ppc \in {"finish", "ended"} \cup Retries => offset = Len(File)
    /\ allRead /\ ppc \in {"finish", "ended"} => \A u \in Uids : mem.row[u] # "DISCOVERING"

\* What a flush has passed over was overtaken or has no address.
MasterInv ==
    \A u \in Uids : rowid(u) <= watermark =>
        u \in master \cup overtaken \/ disk.row[u] = "DISCOVERY_FAILED"

\* The teardown of a run that ended without an exception finds nothing running.
TeardownInv ==
    /\ phase \in {"flushing", "reporting", "closing"} => stop
    /\ phase = "running" => ~normal
    /\ phase \in {"flushing", "reporting", "closing"} /\ normal =>
         ppc = "ended" /\ dpc = "ended" /\ (master_db => fpc = "idle")
    /\ phase = "flushing" => master_db
    /\ phase \in {"reporting", "closing", "idle"} /\ normal /\ master_db =>
         withEmail(Ended(disk)) \subseteq master \cup overtaken
    /\ phase \in {"closing", "idle"} /\ normal => reported = Ended(disk)

PipelineInv ==
    /\ TypeInv /\ StoreInv /\ LinesInv /\ RowsInv /\ StageInv /\ FinishInv
    /\ MasterInv /\ TeardownInv

-----------------------------------------------------------------------------
(* Numbers, lines and batches                                              *)

(* The smaller of two numbers.                                             *)
LEMMA MinOfTwo ==
    ASSUME NEW a \in Int, NEW b \in Int
    PROVE  Min({a, b}) = IF a <= b THEN a ELSE b
<1> DEFINE m == IF a <= b THEN a ELSE b
<1>1. m \in {a, b} /\ \A y \in {a, b} : m <= y
  OBVIOUS
<1>2. \A x \in {a, b} : (\A y \in {a, b} : x <= y) => x = m
  OBVIOUS
<1> QED
  BY <1>1, <1>2 DEF Min

(* The largest of some numbers up to n.                                    *)
LEMMA MaxOfSome ==
    ASSUME NEW n \in Nat, NEW S \in SUBSET (1..n), S # {}
    PROVE  Max(S) \in S /\ \A x \in S : x <= Max(S)
<1> DEFINE Bounds == {b \in Nat : \A x \in S : x <= b}
<1>1. Bounds \subseteq Nat /\ n \in Bounds
  OBVIOUS
<1>2. PICK m \in Bounds : \A k \in Bounds : ~ (<<k, m>> \in OpToRel(<, Nat))
  <2>1. Bounds # {}
    BY <1>1
  <2> HIDE DEF Bounds
  <2> QED
    BY <1>1, <2>1, NatLessThanWellFounded, WFMin, Zenon
<1>3. \A k \in Bounds : ~ (k < m)
  BY <1>2 DEF OpToRel
<1>4. m \in S
  <2> SUFFICES ASSUME m \notin S PROVE FALSE
    OBVIOUS
  <2>1. \A x \in S : x \in 1..n /\ x <= m /\ x # m
    BY <1>2
  <2>2. m \in Nat /\ m >= 1
    <3>1. PICK x \in S : x \in 1..n /\ x <= m
      BY <2>1
    <3>2. m \in Nat
      BY <1>1
    <3> QED
      BY <3>1, <3>2
  <2>3. \A x \in S : x <= m - 1
    BY <2>1, <2>2
  <2>4. m - 1 \in Bounds
    BY <2>2, <2>3
  <2> QED
    BY <1>3, <2>2, <2>4
<1>5. \E x \in S : \A y \in S : x >= y
  BY <1>4
<1> QED
  BY <1>5 DEF Max

(* parse keeps every line that is not bad.                                 *)
LEMMA ParseFacts ==
    ASSUME NEW lines \in Seq(Uids \cup {"bad"})
    PROVE  /\ parse(lines) \in Seq(Result)
           /\ \A i \in 1..Len(lines) :
                lines[i] = "bad" \/ \E j \in DOMAIN parse(lines) : parse(lines)[j].uid = lines[i]
<1> DEFINE good    == {i \in DOMAIN lines : lines[i] # "bad"}
           upTo(i) == Cardinality({j \in good : j <= i})
           n       == Cardinality(good)
           at(k)   == CHOOSE i \in good : upTo(i) = k
<1>0. /\ Len(lines) \in Nat /\ DOMAIN lines = 1..Len(lines)
      /\ good \subseteq 1..Len(lines) /\ \A i \in good : lines[i] \in Uids
  OBVIOUS
<1>1. IsFiniteSet(good) /\ n \in Nat
  <2>1. IsFiniteSet(1..Len(lines))
    BY <1>0, FS_Interval
  <2> QED
    BY <1>0, <2>1, FS_Subset, FS_CardinalityType
<1>2. \A i \in good : upTo(i) \in 1..n
  <2> TAKE i \in good
  <2> DEFINE G == {j \in good : j <= i}
  <2>1. G \subseteq good /\ i \in G
    BY <1>0
  <2> HIDE DEF good, G
  <2>2. IsFiniteSet(G) /\ Cardinality(G) \in Nat /\ Cardinality(G) <= Cardinality(good)
    BY <1>1, <2>1, FS_Subset, FS_CardinalityType
  <2>3. Cardinality(G) # 0
    BY <2>1, <2>2, FS_EmptySet
  <2> QED
    BY <1>1, <2>2, <2>3 DEF G
<1>3. \A i, j \in good : i < j => upTo(i) < upTo(j)
  <2> TAKE i, j \in good
  <2> HAVE i < j
  <2> DEFINE G == {k \in good : k <= i}
             H == {k \in good : k <= j}
  <2>1. G \subseteq H /\ G # H /\ H \subseteq good
    BY <1>0
  <2> HIDE DEF good, G, H
  <2> QED
    BY <1>1, <2>1, FS_Subset, FS_CardinalityType DEF G, H
<1>4. \A i, j \in good : upTo(i) = upTo(j) => i = j
  <2> HIDE DEF upTo
  <2>1. \A i, j \in good : i < j \/ j < i \/ i = j
    BY <1>0
  <2>2. \A i \in good : upTo(i) \in Nat
    BY <1>1, <1>2
  <2> QED
    BY <1>3, <2>1, <2>2
<1>5. \A i \in good : at(upTo(i)) = i
  <2> HIDE DEF upTo, good
  <2> QED
    BY <1>4
<1>6. \A k \in 1..n : \E i \in good : upTo(i) = k
  <2> DEFINE f == [i \in good |-> upTo(i)]
             Im == {upTo(i) : i \in good}
  <2>1. f \in Bijection(good, Im)
    <3> HIDE DEF upTo, good
    <3> QED
      BY <1>4 DEF Bijection, Injection, Surjection, IsInjective
  <2>2. IsFiniteSet(Im) /\ Cardinality(Im) = n
    <3> HIDE DEF upTo, good, Im, f
    <3> QED
      BY <1>1, <2>1, FS_Bijection DEF ExistsBijection
  <2>3. Im \subseteq 1..n
    <3> HIDE DEF upTo, good, n
    <3> QED
      BY <1>2
  <2>4. IsFiniteSet(1..n) /\ Cardinality(1..n) = n
    <3> HIDE DEF n
    <3> QED
      BY <1>1, FS_Interval
  <2>5. Im = 1..n
    <3> HIDE DEF Im, n
    <3> QED
      BY <1>1, <2>2, <2>3, <2>4, FS_Subset
  <2> HIDE DEF upTo, good, n
  <2> QED
    BY <2>5
<1>7. \A k \in 1..n : at(k) \in good
  <2> HIDE DEF upTo, good, n
  <2> QED
    BY <1>6
<1>8. parse(lines) = [k \in 1..n |-> [uid |-> lines[at(k)], state |-> "none"]]
  BY DEF parse
<1>9. parse(lines) \in Seq(Result)
  <2>1. \A k \in 1..n : [uid |-> lines[at(k)], state |-> "none"] \in Result
    <3> HIDE DEF at, good, n
    <3> QED
      BY <1>0, <1>7 DEF Result
  <2> HIDE DEF at, n
  <2> QED
    BY <1>1, <1>8, <2>1
<1>10. ASSUME NEW i \in 1..Len(lines), lines[i] # "bad"
       PROVE  \E j \in DOMAIN parse(lines) : parse(lines)[j].uid = lines[i]
  <2>1. i \in good
    BY <1>0, <1>10
  <2>2. upTo(i) \in 1..n /\ at(upTo(i)) = i
    BY <1>2, <1>5, <2>1
  <2> DEFINE k == upTo(i)
  <2> HIDE DEF at, good, n, upTo
  <2>3. parse(lines)[k].uid = lines[at(k)]
    BY <1>8, <2>2
  <2> QED
    BY <1>8, <2>2, <2>3
<1> QED
  BY <1>9, <1>10

(* Finitely many records.                                                  *)
LEMMA UidsFinite == IsFiniteSet(Uids)
<1>1. Uids = {RowOrder[i] : i \in DOMAIN RowOrder} /\ RowOrder \in Seq(Uids)
  BY FlushAssumption DEF ToSet
<1>2. Len(RowOrder) \in Nat /\ DOMAIN RowOrder = 1..Len(RowOrder)
  BY <1>1
<1>3. IsFiniteSet(1..Len(RowOrder))
  BY <1>2, FS_Interval
<1>4. RowOrder \in Surjection(1..Len(RowOrder), Uids)
  BY <1>1, <1>2 DEF Surjection
<1> QED
  BY <1>3, <1>4, FS_Surjection

(* A batch of pending rows has each of them once.                          *)
LEMMA BatchFacts ==
    ASSUME NEW S \in SUBSET Uids, S # {}
    PROVE  /\ asBatch(S) \in Seq(Result) /\ asBatch(S) # <<>>
           /\ \A i \in DOMAIN asBatch(S) : asBatch(S)[i].uid \in S
           /\ \A i, j \in DOMAIN asBatch(S) : i # j => asBatch(S)[i].uid # asBatch(S)[j].uid
<1> DEFINE T == {[uid |-> u, state |-> "none"] : u \in S}
           n == Cardinality(T)
<1>1. IsFiniteSet(Uids)
  BY UidsFinite
<1>2. IsFiniteSet(T) /\ T # {}
  <2> DEFINE f == [u \in S |-> [uid |-> u, state |-> "none"]]
  <2>1. IsFiniteSet(S)
    BY <1>1, FS_Subset
  <2>2. f \in Surjection(S, T)
    BY DEF Surjection
  <2> HIDE DEF f, T
  <2>3. IsFiniteSet(T)
    BY <2>1, <2>2, FS_Surjection
  <2> QED
    BY <2>3 DEF T
<1>3. n \in Nat /\ n # 0
  BY <1>2, FS_CardinalityType, FS_EmptySet
<1>4. \E f \in [1..n -> T] : IsInjective(f)
  <2>1. PICK m \in Nat : ExistsBijection(1..m, T)
    BY <1>2, FS_NatBijection
  <2>2. m = n
    <3> HIDE DEF T
    <3> QED
      BY <1>2, <2>1, FS_CountingElements
  <2>3. PICK f : f \in Bijection(1..n, T)
    BY <2>1, <2>2 DEF ExistsBijection
  <2> HIDE DEF T, n
  <2> QED
    BY <2>3 DEF Bijection, Injection, IsInjective
<1>5. asBatch(S) \in [1..n -> T] /\ IsInjective(asBatch(S))
  <2> HIDE DEF n
  <2>1. asBatch(S) = CHOOSE f \in [1..n -> T] : IsInjective(f)
    BY DEF asBatch, SetToSeq, n
  <2> QED
    BY <1>4, <2>1
<1>6. \A t \in T : t \in Result /\ t.uid \in S
  BY DEF Result
<1>7. \A t, v \in T : t.uid = v.uid => t = v
  OBVIOUS
<1> DEFINE b == asBatch(S)
<1> HIDE DEF T, n, b
<1>8. b \in [1..n -> T] /\ \A i, j \in 1..n : b[i] = b[j] => i = j
  BY <1>5 DEF IsInjective, b
<1>9. b \in Seq(Result) /\ Len(b) = n
  BY <1>3, <1>6, <1>8
<1> QED
  BY <1>3, <1>6, <1>7, <1>8, <1>9 DEF b

(* A chunk is the next lines of the file, and empty at its end.            *)
LEMMA ChunkFacts ==
    ASSUME offset \in Nat, offset <= Len(File), total \in Nat
    PROVE  /\ chunkLines \in Seq(Uids \cup {"bad"})
           /\ offset + Len(chunkLines) <= Len(File)
           /\ \A i \in 1..Len(chunkLines) : chunkLines[i] = File[offset + i]
           /\ Limit = 0 /\ chunkLines = <<>> => offset = Len(File)
<1> DEFINE size == IF Limit > 0 THEN Min({ChunkSize, Limit - total}) ELSE ChunkSize
           m    == Min({offset + size, Len(File)})
<1>0. /\ File \in Seq(Uids \cup {"bad"}) /\ Len(File) \in Nat
      /\ ChunkSize \in Nat /\ ChunkSize >= 1 /\ Limit \in Nat
  BY ProducerAssumption
<1>1. size \in Int /\ (Limit = 0 => size >= 1)
  <2>1. Min({ChunkSize, Limit - total}) = IF ChunkSize <= Limit - total THEN ChunkSize ELSE Limit - total
    BY <1>0, MinOfTwo
  <2> QED
    BY <1>0, <2>1
<1>2. m = IF offset + size <= Len(File) THEN offset + size ELSE Len(File)
  <2> HIDE DEF size
  <2> QED
    BY <1>0, <1>1, MinOfTwo
<1>3. chunkLines = SubSeq(File, offset + 1, m)
  BY DEF chunkLines
<1> HIDE DEF size, m
<1>4. m \in Int /\ m <= Len(File)
  BY <1>0, <1>1, <1>2
<1>5. CASE m <= offset
  <2>1. chunkLines = <<>>
    BY <1>0, <1>3, <1>4, <1>5
  <2> QED
    BY <1>0, <1>1, <1>2, <1>5, <2>1
<1>6. CASE m > offset
  <2>1. /\ chunkLines \in Seq(Uids \cup {"bad"}) /\ Len(chunkLines) = m - offset
        /\ \A i \in 1..(m - offset) : chunkLines[i] = File[offset + i]
    BY <1>0, <1>3, <1>4, <1>6
  <2> QED
    BY <1>0, <1>4, <1>6, <2>1
<1> QED
  BY <1>4, <1>5, <1>6

(* A round of the retries takes at least one of the rows that are pending. *)
LEMMA SomePending ==
    ASSUME NEW P \in SUBSET Uids, P # {}, NEW S \in kSubset(Min({ChunkSize, Cardinality(P)}), P)
    PROVE  S \in SUBSET P /\ S # {}
<1>1. IsFiniteSet(P)
  BY UidsFinite, FS_Subset
<1>2. Cardinality(P) \in Nat /\ Cardinality(P) # 0
  BY <1>1, FS_CardinalityType, FS_EmptySet
<1>3. ChunkSize \in Nat /\ ChunkSize # 0
  BY ProducerAssumption
<1>4. Min({ChunkSize, Cardinality(P)}) # 0
  BY <1>2, <1>3, MinOfTwo
<1>5. S \in SUBSET P /\ Cardinality(S) = Min({ChunkSize, Cardinality(P)})
  BY DEF kSubset
<1> QED
  BY <1>4, <1>5, FS_EmptySet

(* Every record has a rowid, and no two of them the same.                  *)
LEMMA RowidFacts ==
    /\ \A u \in Uids : rowid(u) \in 1..Len(RowOrder)
    /\ \A u, v \in Uids : rowid(u) = rowid(v) => u = v
<1>1. RowOrder \in Seq(Uids) /\ Uids = {RowOrder[i] : i \in DOMAIN RowOrder}
  BY FlushAssumption DEF ToSet
<1>2. \A u \in Uids : rowid(u) \in DOMAIN RowOrder /\ RowOrder[rowid(u)] = u
  BY <1>1 DEF rowid
<1> QED
  BY <1>1, <1>2

-----------------------------------------------------------------------------
(* What a step does to the database                                        *)

\* How an execute may change the row of u.
rowMoves(u) ==
    \/ mem'.row[u] = mem.row[u]
    \/ mem.row[u] = "ABSENT" /\ mem'.row[u] \in Discovery /\ InsertRecord
    \/ mem.row[u] = "DISCOVERING" /\ mem'.row[u] \in Discovery
       /\ RetryWrite /\ u = batch[next + 1].uid
    \/ {mem.row[u], mem'.row[u]} \subseteq {"VALIDATING", "DISCOVERED"}
    \/ worker[u] = "probing" /\ mem.row[u] # "ABSENT" /\ mem'.row[u] \in Verified

Executes ==
    /\ execute(mem') /\ mem' \in Database
    /\ \A u \in Uids : rowMoves(u)
    /\ mem'.offset = mem.offset \/ (ppc = "checkpoint" /\ mem'.offset = newOffset /\ ppc' = "commit")
    /\ mem'.done = mem.done \/ (ppc = "finish" /\ ppc' = "ended")

StoreStep ==
    \/ UNCHANGED store
    \/ commit
    \/ rollback /\ (ppc' = "raised" \/ (ppc' = "off" /\ worker' = NoWorkers))
    \/ begin /\ ppc' \in Writing
    \/ Executes

(* A step of the producer is one of the ways to write.                     *)
LEMMA ProducerStore ==
    ASSUME TypeInv, LinesInv, RowsInv, ProducerActs
    PROVE  StoreStep
<1> USE DEF StoreStep, TypeInv
<1>1. CASE ProducerStarts
  BY <1>1 DEF ProducerStarts
<1>2. CASE ReadChunk(stop)
  BY <1>2 DEF ReadChunk
<1>3. CASE Discover
  BY <1>3 DEF Discover
<1>4. CASE InsertRecord
  <2>1. CASE next = 0
    BY <1>4, <2>1 DEF InsertRecord, goTo, Writing
  <2>2. CASE next # 0
    <3>1. execute(insertRecord(batch[next].uid, batch[next].state)) /\ ppc = "insert"
      BY <1>4, <2>2 DEF InsertRecord
    <3>2. next \in DOMAIN batch
      BY <2>2, <3>1 DEF LinesInv
    <3>3. batch[next].uid \in Uids /\ batch[next].state \in Discovery
      <4>1. batch[next] \in Result
        BY <3>2
      <4>2. batch[next].state \in Discovery
        BY <3>1, <3>2 DEF LinesInv, Writing
      <4> QED
        BY <4>1, <4>2 DEF Result
    <3>4. CASE mem.row[batch[next].uid] = "ABSENT"
      <4>1. mem' = [mem EXCEPT !.row[batch[next].uid] = batch[next].state]
        BY <3>1, <3>4 DEF execute, insertRecord
      <4>2. /\ mem' \in Database /\ mem'.offset = mem.offset /\ mem'.done = mem.done
            /\ mem'.row[batch[next].uid] \in Discovery
            /\ \A v \in Uids \ {batch[next].uid} : mem'.row[v] = mem.row[v]
        BY <3>3, <4>1 DEF Database
      <4>3. execute(mem')
        BY <3>1 DEF execute
      <4> QED
        BY <1>4, <3>1, <3>4, <4>2, <4>3 DEF Executes, rowMoves
    <3>5. CASE mem.row[batch[next].uid] # "ABSENT"
      BY <3>1, <3>5 DEF execute, insertRecord, Executes, rowMoves
    <3> QED
      BY <3>4, <3>5
  <2> QED
    BY <2>1, <2>2
<1>5. CASE SaveOffset
  <2>1. /\ execute([mem EXCEPT !.offset = newOffset]) /\ ppc = "checkpoint" /\ ppc' = "commit"
    BY <1>5 DEF SaveOffset, goTo
  <2>2. newOffset \in Nat
    BY DEF newOffset
  <2>3. /\ mem' = [mem EXCEPT !.offset = newOffset] /\ execute(mem')
    BY <2>1 DEF execute
  <2>4. mem' \in Database /\ mem'.row = mem.row /\ mem'.offset = newOffset /\ mem'.done = mem.done
    BY <2>2, <2>3 DEF Database
  <2> QED
    BY <2>1, <2>3, <2>4 DEF Executes, rowMoves
<1>6. CASE CommitChunk(stop)
  BY <1>6 DEF CommitChunk
<1>7. CASE InsertFails
  BY <1>7 DEF InsertFails, goTo
<1>8. CASE RetryFetch
  BY <1>8 DEF RetryFetch
<1>9. CASE RetryWrite
  <2> DEFINE b == batch[next + 1]
  <2>1. execute(updateRecord(b.uid, b.state)) /\ ppc = "retryWrite"
    BY <1>9 DEF RetryWrite
  <2>2. next + 1 \in DOMAIN batch /\ next + 1 > next
    BY <2>1 DEF RowsInv
  <2>3. b.uid \in Uids /\ b.state \in Discovery /\ mem.row[b.uid] = "DISCOVERING"
    <3>1. b \in Result
      BY <2>2
    <3>2. b.state \in Discovery /\ mem.row[b.uid] = "DISCOVERING"
      BY <2>1, <2>2 DEF RowsInv
    <3> QED
      BY <3>1, <3>2 DEF Result
  <2>4. mem' = [mem EXCEPT !.row[b.uid] = b.state] /\ execute(mem')
    BY <2>1, <2>3 DEF execute, updateRecord
  <2>5. /\ mem' \in Database /\ mem'.offset = mem.offset /\ mem'.done = mem.done
        /\ mem'.row[b.uid] \in Discovery /\ \A v \in Uids \ {b.uid} : mem'.row[v] = mem.row[v]
    BY <2>3, <2>4 DEF Database
  <2> QED
    BY <1>9, <2>1, <2>3, <2>4, <2>5 DEF Executes, rowMoves
<1>10. CASE ProducerEnds
  <2>1. /\ execute([mem EXCEPT !.done = TRUE]) /\ ppc = "finish" /\ ppc' = "ended"
    BY <1>10 DEF ProducerEnds, goTo
  <2>2. /\ mem' = [mem EXCEPT !.done = TRUE] /\ execute(mem')
    BY <2>1 DEF execute
  <2>3. mem' \in Database /\ mem'.row = mem.row /\ mem'.offset = mem.offset
    BY <2>2 DEF Database
  <2> QED
    BY <2>1, <2>2, <2>3 DEF Executes, rowMoves
<1>11. CASE Heartbeat(stop)
  BY <1>11 DEF Heartbeat
<1> QED
  BY <1>1, <1>2, <1>3, <1>4, <1>5, <1>6, <1>7, <1>8, <1>9, <1>10, <1>11
     DEF ProducerActs, ProducerStep

(* So is every other step.                                                 *)
LEMMA StoreSteps ==
    ASSUME TypeInv, LinesInv, RowsInv, [Next]_vars
    PROVE  StoreStep
<1> USE DEF StoreStep, TypeInv, stage, process
<1>1. CASE ProducerActs
  BY <1>1, ProducerStore
<1>2. CASE StageStarts
  <2>1. mem' = [mem EXCEPT !.row = [u \in Uids |->
                  IF mem.row[u] = "VALIDATING" THEN "DISCOVERED" ELSE mem.row[u]]] /\ execute(mem')
    BY <1>2 DEF StageStarts, execute, Database
  <2>2. mem' \in Database /\ mem'.offset = mem.offset /\ mem'.done = mem.done
    BY <2>1 DEF Database, Discovery
  <2>3. \A u \in Uids : rowMoves(u)
    BY <2>1 DEF Database, rowMoves
  <2> QED
    BY <2>1, <2>2, <2>3 DEF Executes
<1>3. CASE Poll
  <2>1. CASE UNCHANGED store
    BY <2>1
  <2>2. ASSUME NEW S \in SUBSET Claimable,
               execute([mem EXCEPT !.row = [u \in Uids |->
                          IF u \in S THEN "VALIDATING" ELSE mem.row[u]]])
        PROVE  Executes
    <3>1. mem' = [mem EXCEPT !.row = [u \in Uids |->
                    IF u \in S THEN "VALIDATING" ELSE mem.row[u]]] /\ execute(mem')
      BY <2>2 DEF execute
    <3>2. mem' \in Database /\ mem'.offset = mem.offset /\ mem'.done = mem.done
      BY <3>1 DEF Database
    <3>3. \A u \in Uids : rowMoves(u)
      BY <3>1 DEF Database, rowMoves, Claimable
    <3> QED
      BY <3>1, <3>2, <3>3 DEF Executes
  <2>3. \A k : kSubset(k, Claimable) \subseteq SUBSET Claimable
    BY DEF kSubset
  <2> QED
    BY <1>3, <2>1, <2>2, <2>3 DEF Poll
<1>4. CASE ReadDone \/ CheckPending \/ Gathered
  BY <1>4 DEF ReadDone, CheckPending, Gathered
<1>5. ASSUME NEW u \in Uids, Probed(u) PROVE StoreStep
  <2>1. CASE UNCHANGED store
    BY <2>1
  <2>2. ASSUME NEW s \in Verified, execute(updateRecord(u, s)) PROVE Executes
    <3>0. worker[u] = "probing" /\ s \in Settled
      BY <1>5 DEF Probed, Verified, Settled
    <3>1. CASE mem.row[u] = "ABSENT"
      BY <2>2, <3>1 DEF execute, updateRecord, Executes, rowMoves
    <3>2. CASE mem.row[u] # "ABSENT"
      <4>1. mem' = [mem EXCEPT !.row[u] = s] /\ execute(mem')
        BY <2>2, <3>2 DEF execute, updateRecord
      <4>2. /\ mem' \in Database /\ mem'.offset = mem.offset /\ mem'.done = mem.done
            /\ mem'.row[u] = s /\ \A v \in Uids \ {u} : mem'.row[v] = mem.row[v]
        BY <3>0, <4>1 DEF Database
      <4> QED
        BY <3>0, <3>2, <4>1, <4>2 DEF Executes, rowMoves
    <3> QED
      BY <3>1, <3>2
  <2> QED
    BY <1>5, <2>1, <2>2 DEF Probed
<1>6. ASSUME NEW u \in Uids, Acknowledged(u) PROVE StoreStep
  BY <1>6 DEF Acknowledged, commitVerdict
<1>7. CASE FlushActs \/ GatherEnds \/ FinalFlush \/ StartRun \/ Signal
  BY <1>7 DEF FlushActs, GatherEnds, FinalFlush, StartRun, Signal
<1>8. CASE Report
  BY <1>8 DEF Report
<1>9. CASE Close \/ Crash
  BY <1>9 DEF Close, Crash, Gone
<1>10. CASE UNCHANGED vars
  BY <1>10 DEF vars
<1> QED
  BY <1>1, <1>2, <1>3, <1>4, <1>5, <1>6, <1>7, <1>8, <1>9, <1>10 DEF Next, Stage, Task, Process

-----------------------------------------------------------------------------
(* Types and the database                                                  *)

(* Every step keeps the types.                                             *)
LEMMA TypesStep ==
    ASSUME TypeInv, LinesInv, RowsInv, [Next]_vars
    PROVE  TypeInv'
<1> USE DEF TypeInv, stage, process, store, ProducerPC
<1>1. mem' \in Database /\ disk' \in Database /\ inTx' \in BOOLEAN
  BY StoreSteps DEF StoreStep, commit, rollback, begin, Executes, execute
<1>0. <<>> \in Seq(Result)
  OBVIOUS
<1>2. CASE UNCHANGED <<producer, stop, worker, flushing>>
  BY <1>1, <1>2 DEF producer, flushing
<1>3. CASE ProducerActs
  <2>0. worker' \in [Uids -> {"none", "probing", "writing", "undone", "halted"}]
    BY <1>3 DEF ProducerActs
  <2> SUFFICES /\ ppc' \in ProducerPC /\ batch' \in Seq(Result)
               /\ offset' \in Nat /\ read' \in Nat /\ next' \in Nat /\ total' \in Nat
               /\ ceiling' \in BOOLEAN
    BY <1>1, <1>3, <2>0 DEF ProducerActs, flushing
  <2> USE DEF goTo
  <2>1. CASE ProducerStarts
    <3>1. mem.offset \in Nat
      BY DEF Database
    <3> QED
      BY <1>0, <2>1, <3>1 DEF ProducerStarts, resumeAt, NewProducer
  <2>2. CASE ReadChunk(stop)
    <3>1. CASE ppc' = "discover" /\ batch' = parse(chunkLines) /\ read' = Len(chunkLines)
      <4>1. chunkLines \in Seq(Uids \cup {"bad"})
        BY <2>2, ChunkFacts DEF ReadChunk, LinesInv, covered
      <4>2. parse(chunkLines) \in Seq(Result) /\ Len(chunkLines) \in Nat
        BY <4>1, ParseFacts
      <4> QED
        BY <2>2, <3>1, <4>2 DEF ReadChunk
    <3>2. CASE leaveLoop(stop) /\ UNCHANGED <<batch, read>>
      BY <2>2, <3>2 DEF ReadChunk, leaveLoop
    <3> QED
      BY <2>2, <3>1, <3>2 DEF ReadChunk
  <2>3. CASE Discover
    <3>1. PICK found \in [DOMAIN batch -> Found] :
            LET raises == \E i \in DOMAIN batch : found[i] = "halt"
            IN  /\ batch' = IF raises THEN batch
                            ELSE [i \in DOMAIN batch |-> [batch[i] EXCEPT !.state = found[i]]]
                /\ ppc' = IF raises THEN "raised"
                          ELSE IF ppc = "discover" THEN "insert" ELSE "retryWrite"
      BY <2>3 DEF Discover
    <3>2. ASSUME ~ \E i \in DOMAIN batch : found[i] = "halt"
          PROVE  \A i \in DOMAIN batch : [batch[i] EXCEPT !.state = found[i]] \in Result
      <4> TAKE i \in DOMAIN batch
      <4>1. found[i] \in Discovery /\ batch[i] \in Result
        BY <3>2, ProducerAssumption
      <4> QED
        BY <4>1 DEF Result
    <3>3. batch' \in Seq(Result)
      BY <3>1, <3>2
    <3>4. ceiling' \in BOOLEAN
      BY <2>3, ProducerAssumption DEF Discover
    <3> QED
      BY <2>3, <3>1, <3>3, <3>4 DEF Discover
  <2>4. CASE InsertRecord
    BY <2>4 DEF InsertRecord
  <2>5. CASE SaveOffset
    BY <2>5 DEF SaveOffset
  <2>6. CASE CommitChunk(stop)
    BY <2>6 DEF CommitChunk, leaveLoop, newOffset
  <2>7. CASE InsertFails
    BY <2>7 DEF InsertFails
  <2>8. CASE RetryFetch
    <3> DEFINE P == {u \in Uids : mem.row[u] = "DISCOVERING"}
    <3>1. CASE UNCHANGED batch
      BY <2>8, <3>1 DEF RetryFetch
    <3>2. ASSUME P # {}, NEW S \in kSubset(Min({ChunkSize, Cardinality(P)}), P),
                 batch' = asBatch(S)
          PROVE  batch' \in Seq(Result)
      <4>1. S \in SUBSET P /\ S # {}
        <5> HIDE DEF P
        <5>1. P \in SUBSET Uids
          BY DEF P
        <5> QED
          BY <3>2, <5>1, SomePending
      <4> QED
        BY <3>2, <4>1, BatchFacts
    <3> QED
      BY <2>8, <3>1, <3>2 DEF RetryFetch
  <2>9. CASE RetryWrite
    <3>1. UNCHANGED <<offset, read, total, ceiling>>
      BY <2>9 DEF RetryWrite
    <3>2. \/ next' = next + 1 /\ UNCHANGED <<ppc, batch>>
          \/ ppc' \in {"finish", "retryFetch"} /\ next' = 0 /\ batch' = <<>>
      BY <2>9 DEF RetryWrite
    <3>3. CASE next' = next + 1 /\ UNCHANGED <<ppc, batch>>
      BY <3>1, <3>3
    <3>4. CASE ppc' \in {"finish", "retryFetch"} /\ next' = 0 /\ batch' = <<>>
      <4>1. ppc' \in ProducerPC
        BY <3>4
      <4>2. batch' \in Seq(Result)
        BY <1>0, <3>4, Zenon
      <4> QED
        BY <3>1, <3>4, <4>1, <4>2
    <3> QED
      BY <3>2, <3>3, <3>4
  <2>10. CASE ProducerEnds
    BY <2>10 DEF ProducerEnds
  <2>11. CASE Heartbeat(stop)
    BY <2>11 DEF Heartbeat, producer
  <2> QED
    BY <1>3, <2>1, <2>2, <2>3, <2>4, <2>5, <2>6, <2>7, <2>8, <2>9, <2>10, <2>11
       DEF ProducerActs, ProducerStep
<1>4. ASSUME NEW S \in SUBSET Uids, upsert(S) PROVE watermark' \in 0..Len(RowOrder)
  <2>1. \A u \in Uids : rowid(u) \in 1..Len(RowOrder)
    BY RowidFacts
  <2>2. CASE S = {}
    BY <1>4, <2>2 DEF upsert, newLastRowid
  <2>3. CASE S # {}
    <3> DEFINE I == {rowid(u) : u \in S}
    <3>1. I \in SUBSET (1..Len(RowOrder)) /\ I # {} /\ Len(RowOrder) \in Nat
      BY <2>1, <2>3, FlushAssumption
    <3>2. watermark' = Max(I)
      BY <1>4, <2>3 DEF upsert, newLastRowid
    <3>3. Max(I) \in I
      <4> HIDE DEF I
      <4> QED
        BY <3>1, MaxOfSome
    <3> QED
      BY <3>1, <3>2, <3>3
  <2> QED
    BY <2>2, <2>3
<1>5. CASE FlushActs
  <2>1. CASE FlushSelects
    BY <1>1, <1>5, <2>1 DEF FlushActs, FlushSelects, newlyTerminal, producer
  <2>2. CASE FlushWrites
    <3>1. CASE upsert(rows)
      <4>1. watermark' \in 0..Len(RowOrder)
        BY <1>4, <3>1
      <4>2. master' \in SUBSET Uids /\ overtaken' \in SUBSET Uids
        BY <3>1 DEF upsert, withEmail
      <4> QED
        BY <1>1, <1>5, <2>2, <4>1, <4>2 DEF FlushActs, FlushWrites, producer
    <3>2. CASE UNCHANGED <<watermark, master, overtaken>>
      BY <1>1, <1>5, <2>2, <3>2 DEF FlushActs, FlushWrites, producer
    <3> QED
      BY <2>2, <3>1, <3>2 DEF FlushWrites
  <2> QED
    BY <1>5, <2>1, <2>2 DEF FlushActs
<1>6. CASE FinalFlush
  <2>1. watermark' \in 0..Len(RowOrder)
    BY <1>4, <1>6 DEF FinalFlush, flushAll, newlyTerminal
  <2>2. master' \in SUBSET Uids /\ overtaken' \in SUBSET Uids
    BY <1>6 DEF FinalFlush, flushAll, upsert, withEmail, newlyTerminal
  <2> QED
    BY <1>1, <1>6, <2>1, <2>2 DEF FinalFlush, flushAll, producer
<1>7. CASE StageStarts \/ ReadDone \/ CheckPending
  BY <1>1, <1>2, <1>7 DEF StageStarts, ReadDone, CheckPending
<1>8. CASE Poll \/ Gathered
  BY <1>1, <1>8 DEF Poll, Gathered, NoWorkers, producer, flushing
<1>9. ASSUME NEW u \in Uids, Task(u) PROVE TypeInv'
  BY <1>1, <1>9 DEF Task, Probed, Acknowledged, producer, flushing
<1>10. CASE GatherEnds \/ StartRun \/ Signal \/ Report
  BY <1>1, <1>10 DEF GatherEnds, StartRun, Signal, Report, producer, flushing
<1>11. CASE Close \/ Crash
  <2>1. Gone
    BY <1>11 DEF Close, Crash
  <2>2. /\ ppc' = "off" /\ offset' = 0 /\ read' = 0 /\ next' = 0 /\ total' = 0
        /\ ceiling' = FALSE /\ stop' = FALSE /\ batch' = <<>> /\ rows' = {}
    BY <2>1 DEF Gone, NewProducer
  <2>3. worker' = NoWorkers /\ UNCHANGED <<watermark, master, overtaken>>
    BY <2>1 DEF Gone
  <2>4. worker' \in [Uids -> {"none", "probing", "writing", "undone", "halted"}]
    BY <2>3 DEF NoWorkers
  <2> QED
    BY <1>0, <1>1, <2>2, <2>3, <2>4
<1>12. CASE UNCHANGED vars
  BY <1>1, <1>2, <1>12 DEF vars
<1> QED
  BY <1>3, <1>5, <1>6, <1>7, <1>8, <1>9, <1>10, <1>11, <1>12 DEF Next, Stage, Process

(* A write leaves a row in the table, an undiscovered one undiscovered and *)
(* a verified one verified.                                                *)
LEMMA RowsKeep ==
    ASSUME TypeInv, RowsInv, Executes, NEW u \in Uids
    PROVE  /\ mem.row[u] # "ABSENT" => mem'.row[u] # "ABSENT"
           /\ mem.row[u] = "DISCOVERY_FAILED" => mem'.row[u] = "DISCOVERY_FAILED"
           /\ mem.row[u] \in Verified => mem'.row[u] \in Verified
<1>1. rowMoves(u)
  BY DEF Executes
<1>2. worker[u] = "probing" => mem.row[u] # "DISCOVERY_FAILED"
  BY DEF RowsInv
<1> QED
  BY <1>1, <1>2 DEF rowMoves, Verified, Discovery

(* Only the producer moves the producer, until the process is gone.        *)
LEMMA OthersMove ==
    ASSUME [Next]_vars
    PROVE  ProducerActs \/ UNCHANGED producer \/ Gone
<1> USE DEF stage, process
<1>1. CASE FlushActs \/ Stage \/ Process \/ StartRun \/ Signal
  BY <1>1 DEF FlushActs, Stage, StageStarts, Poll, ReadDone, CheckPending, Gathered,
              Process, GatherEnds, FinalFlush, Report, Close, StartRun, Signal
<1>2. ASSUME NEW u \in Uids, Task(u) PROVE UNCHANGED producer
  BY <1>2 DEF Task, Probed, Acknowledged
<1>3. CASE Crash
  BY <1>3 DEF Crash
<1>4. CASE UNCHANGED vars
  BY <1>4 DEF vars
<1> QED
  BY <1>1, <1>2, <1>3, <1>4 DEF Next

(* A producer that writes goes on writing unless its transaction ends.     *)
LEMMA WritingStep ==
    ASSUME TypeInv, LinesInv, [Next]_vars, ppc \in Writing
    PROVE  ppc' \in Writing \/ ~inTx'
<1>1. CASE ProducerActs
  BY <1>1 DEF ProducerActs, ProducerStarts, ProducerStep, ReadChunk, Discover, InsertRecord,
              SaveOffset, CommitChunk, InsertFails, RetryFetch, RetryWrite, ProducerEnds,
              Heartbeat, producer, goTo, Writing, commit, rollback
<1>2. CASE UNCHANGED producer
  BY <1>2 DEF producer
<1>3. CASE Gone
  BY <1>3 DEF Gone, rollback
<1> QED
  BY <1>1, <1>2, <1>3, OthersMove

(* The database stays in order.                                            *)
LEMMA StoreInvStep ==
    ASSUME TypeInv, StoreInv, LinesInv, RowsInv, [Next]_vars
    PROVE  StoreInv'
<1>1. StoreStep
  BY StoreSteps
<1>2. CASE UNCHANGED store
  BY <1>2, WritingStep DEF StoreInv, store
<1>3. CASE commit \/ (rollback /\ ppc' \in {"raised", "off"})
  BY <1>3 DEF StoreInv, commit, rollback
<1>4. CASE begin /\ ppc' \in Writing
  BY <1>4 DEF StoreInv, begin
<1>5. CASE Executes
  <2>1. execute(mem')
    BY <1>5 DEF Executes
  <2>2. CASE ~inTx
    BY <2>1, <2>2 DEF StoreInv, execute
  <2>3. CASE inTx
    <3>1. ppc \in Writing /\ disk' = disk /\ inTx' /\ ppc' \in Writing
      BY <2>1, <2>3, WritingStep DEF StoreInv, execute, TypeInv
    <3>2. mem'.done = mem.done
      BY <1>5, <3>1 DEF Executes, Writing
    <3>3. ASSUME NEW u \in Uids
          PROVE  /\ disk.row[u] \in Settled => mem'.row[u] = disk.row[u] \/ mem'.row[u] \in Verified
                 /\ disk.row[u] = "DISCOVERY_FAILED" => mem'.row[u] = disk.row[u]
      BY <1>5, RowsKeep DEF StoreInv, Settled, Verified
    <3> QED
      BY <3>1, <3>2, <3>3 DEF StoreInv
  <2> QED
    BY <2>2, <2>3
<1> QED
  BY <1>1, <1>2, <1>3, <1>4, <1>5 DEF StoreStep

-----------------------------------------------------------------------------
(* The lines of the input                                                  *)

(* What is in the table stays there, but for a rollback.                   *)
LEMMA CoveredKeeps ==
    ASSUME TypeInv, LinesInv, RowsInv, StoreStep, ppc' \notin {"raised", "off"}
    PROVE  /\ \A u \in Uids : mem.row[u] # "ABSENT" => mem'.row[u] # "ABSENT"
           /\ \A n \in Nat : n <= Len(File) /\ covered(mem, n) => covered(mem', n)
<1>1. \A u \in Uids : mem.row[u] # "ABSENT" => mem'.row[u] # "ABSENT"
  <2>1. CASE UNCHANGED mem
    BY <2>1
  <2>2. CASE Executes
    BY <2>2, RowsKeep
  <2> QED
    BY <2>1, <2>2 DEF StoreStep, store, commit, begin
<1>2. \A i \in 1..Len(File) : File[i] = "bad" \/ File[i] \in Uids
  BY ProducerAssumption
<1>3. Len(File) \in Nat
  BY ProducerAssumption
<1> QED
  BY <1>1, <1>2, <1>3 DEF covered

(* The offsets never run ahead of the records.                             *)
LEMMA OffsetsStep ==
    ASSUME TypeInv, StoreInv, LinesInv, RowsInv, [Next]_vars
    PROVE  covered(disk', disk'.offset) /\ covered(mem', mem'.offset)
<1>1. StoreStep
  BY StoreSteps
<1>2. CASE UNCHANGED <<mem, disk>>
  BY <1>2 DEF LinesInv
<1>3. CASE commit \/ rollback
  BY <1>3 DEF LinesInv, commit, rollback
<1>4. CASE Executes
  <2>0. ppc' \notin {"raised", "off"} \/ mem'.offset = mem.offset
    BY <1>4 DEF Executes
  <2>1. \A u \in Uids : mem.row[u] # "ABSENT" => mem'.row[u] # "ABSENT"
    BY <1>4, RowsKeep
  <2>2. \A i \in 1..Len(File) : File[i] = "bad" \/ File[i] \in Uids
    BY ProducerAssumption
  <2>3. \A n \in Nat : covered(mem, n) => covered(mem', n)
    BY <2>1, <2>2, ProducerAssumption DEF covered
  <2>4. mem.offset \in Nat
    BY DEF TypeInv, Database
  <2>5. CASE mem'.offset = mem.offset
    <3>1. covered(mem', mem'.offset)
      BY <2>3, <2>4, <2>5 DEF LinesInv
    <3> QED
      BY <1>4, <3>1 DEF Executes, execute, LinesInv
  <2>6. CASE ppc = "checkpoint" /\ mem'.offset = newOffset
    <3>1. covered(mem, offset) /\ newOffset <= Len(File)
      BY <2>6 DEF LinesInv, Chunk, Writing
    <3>2. \A i \in (offset + 1)..newOffset : File[i] = "bad" \/ mem.row[File[i]] # "ABSENT"
      BY <2>6 DEF LinesInv, Chunk, Writing, isWritten
    <3>3. offset \in Nat /\ newOffset \in Nat /\ newOffset >= offset
      BY DEF TypeInv, newOffset
    <3>4. \A i \in 1..newOffset : i \in 1..offset \/ i \in (offset + 1)..newOffset
      BY <3>3
    <3>5. covered(mem, newOffset)
      BY <3>1, <3>2, <3>4 DEF covered
    <3>6. covered(mem', mem'.offset)
      BY <2>3, <2>6, <3>3, <3>5
    <3> QED
      BY <1>4, <3>6 DEF Executes, execute, LinesInv
  <2> QED
    BY <1>4, <2>5, <2>6 DEF Executes
<1> QED
  BY <1>1, <1>2, <1>3, <1>4 DEF StoreStep, store, begin

(* The chunk stays what the file says it is.                               *)
LEMMA LinesStep ==
    ASSUME TypeInv, StoreInv, LinesInv, RowsInv, [Next]_vars
    PROVE  LinesInv'
<1>1. covered(disk', disk'.offset) /\ covered(mem', mem'.offset)
  BY OffsetsStep
<1>2. StoreStep /\ TypeInv'
  BY StoreSteps, TypesStep
<1>3. \/ mem'.offset = mem.offset
      \/ ppc = "checkpoint" /\ mem'.offset = newOffset /\ ppc' = "commit"
      \/ ppc' \in {"raised", "off"}
  BY <1>2 DEF StoreStep, store, commit, begin, Executes
<1>4. ASSUME ppc' \notin {"raised", "off"}
      PROVE  /\ \A u \in Uids : mem.row[u] # "ABSENT" => mem'.row[u] # "ABSENT"
             /\ covered(mem, offset) => covered(mem', offset)
  BY <1>2, <1>4, CoveredKeeps DEF covered, TypeInv
<1>5. ASSUME NEW j \in DOMAIN batch PROVE batch[j].uid \in Uids
  <2>1. batch[j] \in Result
    BY DEF TypeInv
  <2> QED
    BY <2>1 DEF Result
<1>6. CASE ppc' \in {"raised", "off"}
  BY <1>1, <1>6 DEF LinesInv, Chunk, Writing, Retries
<1> USE DEF Chunk, Writing, Retries, goTo
<1>7. CASE UNCHANGED producer
  <2>1. CASE ppc \in {"raised", "off"}
    BY <1>6, <1>7, <2>1 DEF producer
  <2>2. CASE ppc \notin {"raised", "off"}
    <3>1. mem'.offset = mem.offset
      BY <1>3, <1>7, <2>2 DEF producer
    <3>2. \A u \in Uids : mem.row[u] # "ABSENT" => mem'.row[u] # "ABSENT"
      BY <1>4, <1>7, <2>2 DEF producer
    <3>3. covered(mem, offset) => covered(mem', offset)
      BY <1>4, <1>7, <2>2 DEF producer
    <3> QED
      BY <1>1, <1>5, <1>7, <3>1, <3>2, <3>3 DEF LinesInv, producer, newOffset, isWritten
  <2> QED
    BY <2>1, <2>2
<1>8. CASE ProducerStarts
  BY <1>1, <1>8 DEF LinesInv, ProducerStarts, resumeAt, store
<1>9. CASE ReadChunk(stop)
  <2>1. ppc = "read" /\ UNCHANGED <<offset, next, mem>>
    BY <1>9 DEF ReadChunk, store
  <2>2. covered(mem, offset) /\ mem.offset = offset
    BY <2>1 DEF LinesInv
  <2>3. CASE leaveLoop(stop)
    BY <1>1, <2>1, <2>2, <2>3 DEF LinesInv, leaveLoop
  <2>4. CASE ppc' = "discover" /\ batch' = parse(chunkLines) /\ read' = Len(chunkLines)
    <3>1. offset <= Len(File) /\ offset \in Nat /\ total \in Nat
      BY <2>2 DEF covered, TypeInv
    <3>2. /\ chunkLines \in Seq(Uids \cup {"bad"}) /\ newOffset' <= Len(File)
          /\ \A i \in 1..Len(chunkLines) : chunkLines[i] = File[offset + i]
      BY <2>1, <2>4, <3>1, ChunkFacts DEF newOffset
    <3>3. \A i \in 1..Len(chunkLines) :
            chunkLines[i] = "bad" \/ \E j \in DOMAIN batch' : batch'[j].uid = chunkLines[i]
      BY <2>4, <3>2, ParseFacts
    <3>4. Len(chunkLines) \in Nat
      BY <3>2
    <3>5. ASSUME NEW i \in (offset' + 1)..newOffset'
          PROVE  File[i] = "bad" \/ \E j \in DOMAIN batch' : batch'[j].uid = File[i]
      <4>1. i - offset \in 1..Len(chunkLines) /\ offset + (i - offset) = i
        BY <2>1, <2>4, <3>1, <3>4 DEF newOffset
      <4> QED
        BY <3>2, <3>3, <4>1
    <3> QED
      BY <1>1, <2>1, <2>2, <2>4, <3>2, <3>5 DEF LinesInv
  <2> QED
    BY <1>9, <2>3, <2>4 DEF ReadChunk
<1>10. CASE Discover
  <2> SUFFICES ASSUME ppc' \notin {"raised", "off"} PROVE LinesInv'
    BY <1>6
  <2>1. PICK found \in [DOMAIN batch -> Found] :
          /\ ~ \E i \in DOMAIN batch : found[i] = "halt"
          /\ batch' = [i \in DOMAIN batch |-> [batch[i] EXCEPT !.state = found[i]]]
          /\ ppc' = IF ppc = "discover" THEN "insert" ELSE "retryWrite"
    BY <1>10 DEF Discover
  <2>2. ppc \in {"discover", "retryDiscover"} /\ next' = 0 /\ UNCHANGED <<offset, read, mem>>
    BY <1>10 DEF Discover, store
  <2>3. \A i \in DOMAIN batch : batch[i] \in Result
    BY DEF TypeInv
  <2>4. DOMAIN batch' = DOMAIN batch /\ \A i \in DOMAIN batch :
          batch'[i].uid = batch[i].uid /\ batch'[i].state \in Discovery
    <3>1. \A i \in DOMAIN batch : found[i] \in Discovery
      BY <2>1, ProducerAssumption
    <3> QED
      BY <2>1, <2>3, <3>1 DEF Result
  <2>5. Len(batch') \in Nat
    BY <1>2 DEF TypeInv
  <2>6. newOffset' = newOffset
    BY <2>2 DEF newOffset
  <2>7. next' <= Len(batch')
    BY <2>2, <2>5
  <2>8. \A j \in DOMAIN batch' : ~ isWritten(j)' \/ ppc' = "retryWrite"
    <3>1. \A j \in DOMAIN batch' : j >= 1 /\ j \in Nat
      BY <1>2 DEF TypeInv
    <3> QED
      BY <2>1, <2>2, <3>1 DEF isWritten
  <2>9. CASE ppc = "discover"
    <3>1. ppc' = "insert" /\ mem' = mem /\ offset' = offset /\ newOffset' = newOffset
      BY <2>1, <2>2, <2>6, <2>9
    <3>2. covered(mem', offset') /\ mem'.offset = offset' /\ newOffset' <= Len(File)
      BY <2>9, <3>1 DEF LinesInv
    <3>3. ASSUME NEW i \in (offset' + 1)..newOffset', File[i] # "bad"
          PROVE  \E j \in DOMAIN batch' : batch'[j].uid = File[i]
      <4>1. \E j \in DOMAIN batch : batch[j].uid = File[i]
        BY <2>9, <3>1, <3>3 DEF LinesInv
      <4> QED
        BY <2>4, <4>1
    <3>4. \A j \in DOMAIN batch' : batch'[j].state \in Discovery /\ ~ isWritten(j)'
      BY <2>4, <2>8, <3>1
    <3> QED
      BY <1>1, <2>7, <3>1, <3>2, <3>3, <3>4 DEF LinesInv
  <2>10. CASE ppc = "retryDiscover"
    BY <1>1, <2>1, <2>2, <2>10 DEF LinesInv
  <2> QED
    BY <2>2, <2>9, <2>10
<1>11. CASE InsertRecord
  <2>1. /\ ppc = "insert" /\ UNCHANGED <<offset, read, batch>> /\ next' = next + 1
        /\ ppc' = IF next = Len(batch) THEN "checkpoint" ELSE "insert"
    BY <1>11 DEF InsertRecord
  <2>2. /\ mem'.offset = mem.offset /\ covered(mem', offset)
        /\ \A u \in Uids : mem.row[u] # "ABSENT" => mem'.row[u] # "ABSENT"
    BY <1>3, <1>4, <2>1 DEF LinesInv
  <2>3. next # 0 => mem'.row[batch[next].uid] # "ABSENT"
    <3> SUFFICES ASSUME next # 0 PROVE mem'.row[batch[next].uid] # "ABSENT"
      OBVIOUS
    <3>1. next \in DOMAIN batch
      BY <2>1 DEF LinesInv, TypeInv
    <3>2. batch[next].uid \in Uids /\ batch[next].state \in Discovery
      BY <1>5, <2>1, <3>1 DEF LinesInv
    <3>3. mem' = insertRecord(batch[next].uid, batch[next].state)
      BY <1>11 DEF InsertRecord, execute
    <3> QED
      BY <3>2, <3>3 DEF insertRecord, TypeInv, Database, Discovery
  <2>4. ASSUME NEW j \in DOMAIN batch, isWritten(j)'
        PROVE  mem'.row[batch[j].uid] # "ABSENT"
    <3>1. j \in 1..Len(batch) /\ Len(batch) \in Nat /\ next \in Nat /\ next <= Len(batch)
      BY <2>1 DEF LinesInv, TypeInv
    <3>2. j <= next
      BY <2>1, <2>4, <3>1 DEF isWritten
    <3>3. CASE j = next
      BY <2>3, <3>1, <3>3
    <3>4. CASE j < next
      BY <1>5, <2>1, <2>2, <3>4 DEF LinesInv, isWritten
    <3> QED
      BY <3>1, <3>2, <3>3, <3>4
  <2>5. next' <= Len(batch) \/ ppc' = "checkpoint"
    BY <2>1 DEF LinesInv, TypeInv
  <2> QED
    BY <1>1, <2>1, <2>2, <2>4, <2>5 DEF LinesInv, newOffset
<1>12. CASE SaveOffset
  <2>1. /\ ppc = "checkpoint" /\ ppc' = "commit" /\ UNCHANGED <<offset, read, batch, next>>
        /\ mem'.offset = newOffset
    BY <1>12 DEF SaveOffset, execute, TypeInv, Database
  <2>2. /\ covered(mem', offset)
        /\ \A u \in Uids : mem.row[u] # "ABSENT" => mem'.row[u] # "ABSENT"
    BY <1>4, <2>1 DEF LinesInv
  <2> QED
    BY <1>1, <1>5, <2>1, <2>2 DEF LinesInv, newOffset, isWritten
<1>13. CASE CommitChunk(stop)
  <2>1. ppc = "commit" /\ offset' = newOffset /\ mem' = mem
    BY <1>13 DEF CommitChunk, commit
  <2>2. ppc' \in {"read", "retryFetch", "finish"}
    BY <1>13 DEF CommitChunk, leaveLoop
  <2>3. mem'.offset = offset' /\ covered(mem', offset')
    BY <1>1, <2>1 DEF LinesInv
  <2> QED
    BY <1>1, <2>2, <2>3 DEF LinesInv
<1>14. CASE InsertFails
  BY <1>6, <1>14 DEF InsertFails
<1>15. CASE RetryFetch \/ RetryWrite \/ ProducerEnds
  <2>1. /\ ppc \in Retries \cup {"finish"} /\ ppc' \in Retries \cup {"finish", "ended"}
        /\ UNCHANGED offset
    BY <1>15 DEF RetryFetch, RetryWrite, ProducerEnds
  <2>2. mem'.offset = mem.offset
    BY <1>3, <2>1
  <2> QED
    BY <1>1, <2>1, <2>2 DEF LinesInv
<1>16. CASE Heartbeat(stop)
  BY <1>7, <1>16 DEF Heartbeat
<1>17. CASE Gone
  BY <1>6, <1>17 DEF Gone
<1>18. CASE ProducerActs
  BY <1>8, <1>9, <1>10, <1>11, <1>12, <1>13, <1>14, <1>15, <1>16, <1>18
     DEF ProducerActs, ProducerStep
<1> QED
  BY <1>7, <1>17, <1>18, OthersMove

-----------------------------------------------------------------------------
(* The records of the tasks and of the retries                             *)

(* Where a task, a verdict under way and an acknowledgement come from.     *)
LEMMA WorkersMove ==
    ASSUME TypeInv, [Next]_vars, NEW u \in Uids
    PROVE  /\ worker'[u] = "probing" => worker[u] = "probing" \/ mem'.row[u] = "VALIDATING"
           /\ worker'[u] = "writing" => worker[u] = "writing" \/ mem'.row[u] \in Verified
           /\ u \in acked' => u \in acked \/ (worker[u] = "writing" /\ commit)
<1> USE DEF TypeInv
<1>1. CASE UNCHANGED <<worker, acked>>
  BY <1>1
<1>2. CASE ProducerActs
  BY <1>2 DEF ProducerActs
<1>3. CASE FlushActs \/ GatherEnds \/ FinalFlush \/ Report \/ StartRun \/ Signal
  BY <1>1, <1>3 DEF FlushActs, GatherEnds, FinalFlush, Report, StartRun, Signal, stage
<1>4. CASE StageStarts \/ ReadDone \/ CheckPending
  BY <1>1, <1>4 DEF StageStarts, ReadDone, CheckPending
<1>5. CASE Poll
  <2>1. CASE UNCHANGED worker
    BY <1>5, <2>1 DEF Poll
  <2>2. ASSUME NEW S \in SUBSET Claimable,
               execute([mem EXCEPT !.row = [x \in Uids |->
                          IF x \in S THEN "VALIDATING" ELSE mem.row[x]]]),
               worker' = [x \in Uids |-> IF x \in S THEN "probing" ELSE "none"]
        PROVE  /\ worker'[u] # "writing"
               /\ worker'[u] = "probing" => mem'.row[u] = "VALIDATING"
    <3>1. mem' = [mem EXCEPT !.row = [x \in Uids |->
                    IF x \in S THEN "VALIDATING" ELSE mem.row[x]]]
      BY <2>2 DEF execute
    <3> QED
      BY <2>2, <3>1 DEF Database
  <2>3. \A k : kSubset(k, Claimable) \subseteq SUBSET Claimable
    BY DEF kSubset
  <2> QED
    BY <1>5, <2>1, <2>2, <2>3 DEF Poll
<1>6. CASE Gathered
  BY <1>6 DEF Gathered, NoWorkers
<1>7. ASSUME NEW v \in Uids, Probed(v)
      PROVE  /\ UNCHANGED acked
             /\ worker'[u] = "probing" => worker[u] = "probing"
             /\ worker'[u] = "writing" => worker[u] = "writing" \/ mem'.row[u] \in Verified
  <2>1. CASE \E s \in Verified : execute(updateRecord(v, s))
    <3>1. PICK s \in Verified : mem' = updateRecord(v, s)
      BY <2>1 DEF execute
    <3>2. mem.row[v] # "ABSENT" => mem'.row[v] \in Verified
      BY <3>1 DEF updateRecord, Database
    <3> QED
      BY <1>7, <3>2 DEF Probed
  <2>2. CASE ~ \E s \in Verified : execute(updateRecord(v, s))
    BY <1>7, <2>2 DEF Probed
  <2> QED
    BY <2>1, <2>2
<1>8. ASSUME NEW v \in Uids, Acknowledged(v)
      PROVE  /\ worker'[u] \in {"probing", "writing"} => worker'[u] = worker[u]
             /\ u \in acked' => u \in acked \/ (worker[u] = "writing" /\ commit)
  BY <1>8 DEF Acknowledged, commitVerdict
<1>9. CASE Close \/ Crash
  BY <1>9 DEF Close, Crash, Gone, NoWorkers
<1>10. CASE UNCHANGED vars
  BY <1>1, <1>10 DEF vars, stage
<1> QED
  BY <1>2, <1>3, <1>4, <1>5, <1>6, <1>7, <1>8, <1>9, <1>10 DEF Next, Stage, Task, Process

(* A producer that has raised does nothing more in its process.            *)
LEMMA RaisedStays ==
    ASSUME [Next]_vars, ppc = "raised"
    PROVE  ppc' = "raised" \/ worker' = NoWorkers
<1>1. CASE ProducerActs
  BY <1>1 DEF ProducerActs, ProducerStarts, ProducerStep, ReadChunk, Discover, InsertRecord,
              SaveOffset, CommitChunk, InsertFails, RetryFetch, RetryWrite, ProducerEnds,
              Heartbeat, producer
<1>2. CASE UNCHANGED producer \/ Gone
  BY <1>2 DEF producer, Gone
<1> QED
  BY <1>1, <1>2, OthersMove

(* A rollback that changes anything is the producer's or ends the process. *)
LEMMA RollbackBy ==
    ASSUME TypeInv, StoreInv, [Next]_vars, rollback, ppc' \in {"raised", "off"}
    PROVE  UNCHANGED mem \/ ProducerActs \/ worker' = NoWorkers
<1>1. CASE UNCHANGED producer
  <2>1. ~inTx
    BY <1>1 DEF producer, StoreInv, Writing
  <2> QED
    BY <2>1 DEF StoreInv, rollback
<1> QED
  BY <1>1, OthersMove DEF Gone

(* The rows of the tasks.                                                  *)
LEMMA TaskRowsStep ==
    ASSUME TypeInv, StoreInv, LinesInv, RowsInv, [Next]_vars, NEW u \in Uids
    PROVE  /\ worker'[u] = "probing" =>
                /\ mem'.row[u] # "DISCOVERY_FAILED"
                /\ ppc' # "raised" => mem'.row[u] \notin {"DISCOVERING", "ABSENT"}
           /\ worker'[u] = "writing" => mem'.row[u] \in Verified
           /\ u \in acked' => disk'.row[u] \in Verified
<1>1. StoreStep
  BY StoreSteps
<1>2. worker' = NoWorkers => worker'[u] = "none"
  BY DEF NoWorkers
<1>3. ASSUME worker'[u] = "probing"
      PROVE  /\ mem'.row[u] # "DISCOVERY_FAILED"
             /\ ppc' # "raised" => mem'.row[u] \notin {"DISCOVERING", "ABSENT"}
  <2>1. CASE mem'.row[u] = "VALIDATING"
    BY <2>1
  <2>2. CASE worker[u] = "probing"
    <3>0. /\ mem.row[u] # "DISCOVERY_FAILED"
          /\ ppc # "raised" => mem.row[u] \notin {"DISCOVERING", "ABSENT"}
          /\ ppc = "raised" => ppc' = "raised"
      BY <1>2, <1>3, <2>2, RaisedStays DEF RowsInv
    <3>1. CASE UNCHANGED mem
      BY <3>0, <3>1
    <3>2. CASE rollback
      BY <1>1, <1>2, <1>3, <2>2, <3>0, <3>2, RollbackBy DEF StoreInv, rollback, RowsInv, StoreStep, Executes, execute, begin, commit, store
    <3>3. CASE Executes
      <4>1. rowMoves(u)
        BY <3>3 DEF Executes
      <4>2. CASE ppc = "raised"
        BY <3>0, <4>1, <4>2 DEF rowMoves, InsertRecord, RetryWrite, Verified
      <4>3. CASE ppc # "raised"
        BY <3>0, <4>1, <4>3 DEF rowMoves, Verified
      <4> QED
        BY <4>2, <4>3
    <3> QED
      BY <1>1, <3>1, <3>2, <3>3 DEF StoreStep, store, commit, begin
  <2> QED
    BY <1>3, <2>1, <2>2, WorkersMove
<1>4. ASSUME worker'[u] = "writing" PROVE mem'.row[u] \in Verified
  <2>1. CASE worker[u] = "writing"
    <3>0. mem.row[u] \in Verified
      BY <2>1 DEF RowsInv
    <3>1. CASE UNCHANGED mem
      BY <3>0, <3>1
    <3>2. CASE rollback /\ ppc' \in {"raised", "off"}
      <4>1. UNCHANGED mem \/ ProducerActs
        BY <1>2, <1>4, <3>2, RollbackBy
      <4>2. CASE ProducerActs
        BY <1>4, <3>0, <4>2 DEF ProducerActs
      <4> QED
        BY <3>1, <4>1, <4>2
    <3>3. CASE Executes
      BY <3>0, <3>3, RowsKeep
    <3> QED
      BY <1>1, <3>1, <3>2, <3>3 DEF StoreStep, store, commit, begin
  <2> QED
    BY <1>4, <2>1, WorkersMove
<1>5. ASSUME u \in acked' PROVE disk'.row[u] \in Verified
  <2>1. CASE worker[u] = "writing" /\ commit
    BY <2>1 DEF RowsInv, commit
  <2>2. CASE u \in acked
    <3>0. disk.row[u] \in Verified
      BY <2>2 DEF RowsInv, AcknowledgedSurvives
    <3>1. mem.row[u] \in Verified
      BY <3>0 DEF StoreInv, Verified, Settled
    <3>2. CASE Executes
      <4>1. mem'.row[u] \in Verified
        BY <3>1, <3>2, RowsKeep
      <4> QED
        BY <3>0, <3>2, <4>1 DEF Executes, execute
    <3> QED
      BY <1>1, <3>0, <3>1, <3>2 DEF StoreStep, store, commit, begin, rollback
  <2> QED
    BY <1>5, <2>1, <2>2, WorkersMove
<1> QED
  BY <1>3, <1>4, <1>5

(* Nobody but the retries touches a row that waits for its retry.          *)
LEMMA PendingKeeps ==
    ASSUME TypeInv, LinesInv, RowsInv, [Next]_vars, UNCHANGED producer, ppc \notin {"raised", "off"},
           NEW u \in Uids, mem.row[u] = "DISCOVERING"
    PROVE  mem'.row[u] = "DISCOVERING"
<1>1. StoreStep
  BY StoreSteps
<1>2. CASE Executes
  <2>1. rowMoves(u) /\ worker[u] # "probing"
    BY <1>2 DEF Executes, RowsInv
  <2>2. ~ RetryWrite
    BY DEF RetryWrite, producer, goTo, TypeInv
  <2> QED
    BY <2>1, <2>2 DEF rowMoves
<1> QED
  BY <1>1, <1>2 DEF StoreStep, store, commit, begin, producer

(* The batch of a retry.                                                   *)
LEMMA RetryRowsStep ==
    ASSUME TypeInv, StoreInv, LinesInv, RowsInv, [Next]_vars,
           ppc' \in {"retryDiscover", "retryWrite"}
    PROVE  /\ \A i \in DOMAIN batch' : i > (IF ppc' = "retryWrite" THEN next' ELSE 0) =>
                mem'.row[batch'[i].uid] = "DISCOVERING"
           /\ \A i, j \in DOMAIN batch' : i # j => batch'[i].uid # batch'[j].uid
           /\ batch' # <<>>
           /\ ppc' = "retryWrite" =>
                next' < Len(batch') /\ \A i \in DOMAIN batch' : batch'[i].state \in Discovery
<1>1. ASSUME NEW i \in DOMAIN batch PROVE batch[i].uid \in Uids /\ batch[i] \in Result
  <2>1. batch[i] \in Result
    BY DEF TypeInv
  <2> QED
    BY <2>1 DEF Result
<1>2. CASE UNCHANGED producer
  <2>1. ppc \in {"retryDiscover", "retryWrite"} /\ UNCHANGED <<ppc, batch, next>>
    BY <1>2 DEF producer
  <2>2. \A u \in Uids : mem.row[u] = "DISCOVERING" => mem'.row[u] = "DISCOVERING"
    BY <1>2, <2>1, PendingKeeps
  <2> QED
    BY <1>1, <2>1, <2>2 DEF RowsInv
<1>3. CASE RetryFetch
  <2> DEFINE P == {u \in Uids : mem.row[u] = "DISCOVERING"}
  <2>1. P # {} /\ mem' = mem /\ ppc' = "retryDiscover"
        /\ \E S \in kSubset(Min({ChunkSize, Cardinality(P)}), P) : batch' = asBatch(S)
    BY <1>3 DEF RetryFetch, goTo, store
  <2>2. PICK S \in SUBSET P : S # {} /\ batch' = asBatch(S)
    <3> HIDE DEF P
    <3>1. P \in SUBSET Uids
      BY DEF P
    <3> QED
      BY <2>1, <3>1, SomePending
  <2>3. S \in SUBSET Uids /\ S # {}
    BY <2>2
  <2>4. /\ batch' # <<>>
        /\ \A i \in DOMAIN batch' : batch'[i].uid \in S
        /\ \A i, j \in DOMAIN batch' : i # j => batch'[i].uid # batch'[j].uid
    BY <2>2, <2>3, BatchFacts
  <2> QED
    BY <2>1, <2>2, <2>4
<1>4. CASE Discover
  <2>1. PICK found \in [DOMAIN batch -> Found] :
          /\ ~ \E i \in DOMAIN batch : found[i] = "halt"
          /\ batch' = [i \in DOMAIN batch |-> [batch[i] EXCEPT !.state = found[i]]]
    BY <1>4 DEF Discover, goTo
  <2>2. ppc = "retryDiscover" /\ next' = 0 /\ mem' = mem
    BY <1>4 DEF Discover, store, goTo
  <2>3. DOMAIN batch' = DOMAIN batch /\ \A i \in DOMAIN batch :
          batch'[i].uid = batch[i].uid /\ batch'[i].state \in Discovery
    <3>1. \A i \in DOMAIN batch : found[i] \in Discovery
      BY <2>1, ProducerAssumption
    <3> QED
      BY <1>1, <2>1, <3>1 DEF Result
  <2>4. batch # <<>> /\ batch \in Seq(Result) /\ batch' \in Seq(Result)
    BY <2>2, TypesStep DEF RowsInv, TypeInv
  <2>5. Len(batch') = Len(batch) /\ Len(batch) \in Nat /\ Len(batch) # 0
    BY <2>3, <2>4
  <2>6. batch' # <<>> /\ next' < Len(batch')
    BY <2>2, <2>4, <2>5
  <2> QED
    BY <2>2, <2>3, <2>6 DEF RowsInv
<1>5. CASE RetryWrite
  <2>1. /\ ppc = "retryWrite" /\ ppc' = "retryWrite" /\ next + 1 < Len(batch)
        /\ next' = next + 1 /\ UNCHANGED batch
    BY <1>5 DEF RetryWrite, goTo
  <2>2. /\ next + 1 \in DOMAIN batch /\ next \in Nat
        /\ mem' = updateRecord(batch[next + 1].uid, batch[next + 1].state)
    BY <1>5, <2>1 DEF RetryWrite, execute, TypeInv
  <2>3. ASSUME NEW u \in Uids, u # batch[next + 1].uid PROVE mem'.row[u] = mem.row[u]
    BY <1>1, <2>2, <2>3 DEF updateRecord, TypeInv, Database
  <2>4. ASSUME NEW i \in DOMAIN batch, i > next + 1
        PROVE  mem'.row[batch[i].uid] = "DISCOVERING"
    <3>1. i # next + 1 /\ i > next
      BY <2>2, <2>4 DEF TypeInv
    <3>2. batch[i].uid # batch[next + 1].uid /\ mem.row[batch[i].uid] = "DISCOVERING"
      BY <2>1, <2>2, <3>1 DEF RowsInv
    <3> QED
      BY <1>1, <2>3, <3>2
  <2> QED
    BY <2>1, <2>4 DEF RowsInv
<1>6. CASE ProducerActs
  BY <1>2, <1>3, <1>4, <1>5, <1>6
     DEF ProducerActs, ProducerStarts, ProducerStep, ReadChunk, InsertRecord, SaveOffset,
         CommitChunk, InsertFails, ProducerEnds, Heartbeat, goTo, leaveLoop
<1> QED
  BY <1>2, <1>6, OthersMove DEF Gone

(* The rows are where the tasks and the retries have them.                 *)
LEMMA RowsStep ==
    ASSUME TypeInv, StoreInv, LinesInv, RowsInv, [Next]_vars
    PROVE  RowsInv'
<1>1. acked' \subseteq Uids
  <2>1. ASSUME NEW u \in Uids, Task(u) PROVE acked' \subseteq acked \cup {u}
    BY <2>1 DEF Task, Probed, Acknowledged
  <2>2. CASE UNCHANGED acked
    BY <2>2 DEF RowsInv
  <2> QED
    BY <2>1, <2>2 DEF RowsInv, Next, ProducerActs, FlushActs, Stage, StageStarts, Poll, ReadDone,
       CheckPending, Gathered, Process, GatherEnds, FinalFlush, Report, Close, Crash, Gone,
       StartRun, Signal, vars
<1>2. AcknowledgedSurvives'
  BY <1>1, TaskRowsStep DEF AcknowledgedSurvives
<1>3. \A u \in Uids :
        /\ worker'[u] = "probing" =>
             /\ mem'.row[u] # "DISCOVERY_FAILED"
             /\ ppc' # "raised" => mem'.row[u] \notin {"DISCOVERING", "ABSENT"}
        /\ worker'[u] = "writing" => mem'.row[u] \in Verified
  BY TaskRowsStep
<1> QED
  BY <1>1, <1>2, <1>3, RetryRowsStep DEF RowsInv

-----------------------------------------------------------------------------
(* The stages and their ends                                               *)

(* A producer that has ended takes no further step.                        *)
LEMMA EndedStays ==
    ASSUME ppc = "ended"
    PROVE  ~ ProducerActs
BY DEF ProducerActs, ProducerStarts, ProducerStep, ReadChunk, Discover, InsertRecord, SaveOffset,
       CommitChunk, InsertFails, RetryFetch, RetryWrite, ProducerEnds, Heartbeat

(* The stop event stays set until the process is gone.                     *)
LEMMA StopStays ==
    ASSUME [Next]_vars, stop
    PROVE  stop' \/ Gone
<1> USE DEF process
<1>1. ASSUME NEW u \in Uids, Task(u) PROVE UNCHANGED stop
  BY <1>1 DEF Task, Probed, Acknowledged
<1>2. CASE UNCHANGED stop
  BY <1>2
<1> QED
  BY <1>1, <1>2 DEF Next, ProducerActs, FlushActs, Stage, StageStarts, Poll, ReadDone,
     CheckPending, Gathered, Process, GatherEnds, FinalFlush, Report, Close, Crash,
     StartRun, Signal, vars

(* producer_done is set by the producer that ends.                         *)
LEMMA DoneBy ==
    ASSUME TypeInv, StoreInv, LinesInv, RowsInv, [Next]_vars, mem'.done
    PROVE  mem.done \/ ppc' = "ended"
BY StoreSteps DEF StoreStep, Executes, store, commit, begin, rollback, StoreInv

(* The stages end one after the other.                                     *)
LEMMA StageStep ==
    ASSUME TypeInv, StoreInv, LinesInv, RowsInv, StageInv, [Next]_vars
    PROVE  StageInv'
<1> USE DEF StageInv, StagesEndInOrder, Up, process
<1>1. CASE ProducerActs
  <2>1. ppc # "ended"
    BY <1>1, EndedStays
  <2>2. Up /\ UNCHANGED <<dpc, phase, stop, wasDone>>
    BY <1>1 DEF ProducerActs
  <2>3. worker = NoWorkers => worker' = NoWorkers
    BY <1>1 DEF ProducerActs, NoWorkers
  <2> QED
    BY <2>1, <2>2, <2>3, DoneBy
<1>2. CASE FlushActs
  BY <1>2 DEF FlushActs, store, producer, stage, Claimable
<1>3. CASE StageStarts
  BY <1>3, DoneBy DEF StageStarts, producer
<1>4. CASE Poll
  BY <1>4, DoneBy DEF Poll, producer
<1>5. CASE ReadDone
  BY <1>5 DEF ReadDone, producer, store
<1>6. CASE CheckPending
  BY <1>6 DEF CheckPending, producer, store, Claimable
<1>7. CASE Gathered
  BY <1>7 DEF Gathered, producer, store
<1>8. ASSUME NEW u \in Uids, Task(u) PROVE StageInv'
  <2>1. Up /\ worker[u] # "none" /\ UNCHANGED <<dpc, producer, process>>
    BY <1>8 DEF Task, Probed, Acknowledged
  <2>2. dpc = "gather"
    BY <2>1 DEF NoWorkers
  <2> QED
    BY <2>1, <2>2, DoneBy DEF producer
<1>9. CASE GatherEnds \/ FinalFlush \/ Signal
  BY <1>9 DEF GatherEnds, FinalFlush, Signal, store, producer, stage, Claimable
<1>10. CASE Report
  BY <1>10 DEF Report, commit, producer, stage, Claimable
<1>11. CASE StartRun
  BY <1>11 DEF StartRun, store, producer, stage
<1>12. CASE Close \/ Crash
  BY <1>12 DEF Close, Crash, Gone, rollback
<1>13. CASE UNCHANGED vars
  BY <1>13 DEF vars, store, producer, stage, Claimable
<1> QED
  BY <1>1, <1>2, <1>3, <1>4, <1>5, <1>6, <1>7, <1>8, <1>9, <1>10, <1>11, <1>12, <1>13
     DEF Next, Stage, Process

(* A producer that is left alone reads and discovers everything.           *)
LEMMA FinishStep ==
    ASSUME TypeInv, StoreInv, LinesInv, RowsInv, FinishInv, [Next]_vars
    PROVE  FinishInv'
<1>1. CASE Gone
  BY <1>1 DEF Gone, NewProducer, FinishInv, Retries
<1>2. CASE UNCHANGED producer /\ (stop => stop')
  <2>1. UNCHANGED <<ppc, offset, ceiling>> /\ (allRead' => allRead)
    BY <1>2 DEF producer, allRead
  <2>2. ASSUME ppc \in {"finish", "ended"}, NEW u \in Uids, mem.row[u] # "DISCOVERING"
        PROVE  mem'.row[u] # "DISCOVERING"
    <3>1. CASE UNCHANGED mem
      BY <2>2, <3>1
    <3>2. CASE Executes
      BY <2>2, <3>2 DEF Executes, rowMoves, InsertRecord, RetryWrite, Verified
    <3> QED
      BY <2>1, <2>2, <3>1, <3>2, StoreSteps DEF StoreStep, store, commit, begin
  <2> QED
    BY <2>1, <2>2 DEF FinishInv
<1>3. CASE ProducerActs
  <2> USE DEF FinishInv, allRead, Retries, goTo
  <2>0. stop' = stop
    BY <1>3 DEF ProducerActs, process
  <2>1. CASE ProducerStarts
    BY <2>1 DEF ProducerStarts, NewProducer
  <2>2. CASE ReadChunk(stop)
    <3>1. ppc = "read" /\ UNCHANGED <<offset, ceiling>>
      BY <2>2 DEF ReadChunk
    <3>2. CASE leaveLoop(stop) /\ (stop \/ chunkLines = <<>>)
      <4>1. allRead' => ppc' = "retryFetch" /\ chunkLines = <<>>
        BY <2>0, <3>1, <3>2 DEF leaveLoop
      <4>2. Limit = 0 /\ chunkLines = <<>> => offset = Len(File)
        BY <3>1, ChunkFacts DEF LinesInv, covered, TypeInv
      <4> QED
        BY <3>1, <4>1, <4>2
    <3>3. CASE ppc' = "discover"
      BY <3>1, <3>3
    <3> QED
      BY <2>2, <3>2, <3>3 DEF ReadChunk
  <2>3. CASE Discover
    <3>1. /\ ppc' \in {"raised", "insert"} \/ (ppc = "retryDiscover" /\ ppc' = "retryWrite")
          /\ ceiling' \in {ceiling, CanHitCeiling} /\ UNCHANGED offset
      BY <2>3 DEF Discover
    <3> QED
      BY <2>0, <3>1
  <2>4. CASE InsertRecord \/ SaveOffset \/ InsertFails
    BY <2>4 DEF InsertRecord, SaveOffset, InsertFails
  <2>5. CASE CommitChunk(stop)
    <3>1. UNCHANGED ceiling
      BY <2>5 DEF CommitChunk
    <3>2. ppc' = "read" \/ ceiling \/ Limit > 0
      BY <2>5 DEF CommitChunk
    <3>3. ppc' \in {"read", "retryFetch", "finish"}
      BY <2>5 DEF CommitChunk, leaveLoop
    <3> QED
      BY <3>1, <3>2, <3>3
  <2>6. CASE RetryFetch
    <3>1. ppc = "retryFetch" /\ UNCHANGED <<offset, ceiling, mem>>
      BY <2>6 DEF RetryFetch, store
    <3>2. ppc' \in {"retryFetch", "retryDiscover", "finish"}
      BY <2>6 DEF RetryFetch
    <3>3. ppc' = "finish" => \A u \in Uids : mem.row[u] # "DISCOVERING"
      BY <2>6 DEF RetryFetch
    <3> QED
      BY <2>0, <3>1, <3>2, <3>3
  <2>7. CASE RetryWrite
    <3>1. ppc = "retryWrite" /\ UNCHANGED <<offset, ceiling>>
      BY <2>7 DEF RetryWrite
    <3>2. ppc' \in {"retryWrite", "retryFetch"} \/ (ceiling /\ ppc' = "finish")
      BY <2>7 DEF RetryWrite
    <3> QED
      BY <2>0, <3>1, <3>2
  <2>8. CASE ProducerEnds
    <3>1. ppc = "finish" /\ UNCHANGED <<offset, ceiling>>
      BY <2>8 DEF ProducerEnds
    <3>2. mem'.row = mem.row
      BY <2>8 DEF ProducerEnds, execute, TypeInv, Database
    <3> QED
      BY <2>0, <3>1, <3>2
  <2>9. CASE Heartbeat(stop)
    BY <1>2, <2>0, <2>9 DEF Heartbeat
  <2> QED
    BY <1>3, <2>1, <2>2, <2>3, <2>4, <2>5, <2>6, <2>7, <2>8, <2>9
       DEF ProducerActs, ProducerStep
<1> QED
  BY <1>1, <1>2, <1>3, OthersMove, StopStays

-----------------------------------------------------------------------------
(* The master database and the end of a run                                *)

(* After a write of the flush.                                             *)
LEMMA UpsertFacts ==
    ASSUME TypeInv, MasterInv, NEW S \in SUBSET Uids, upsert(S), UNCHANGED disk
    PROVE  MasterInv'
<1>1. CASE S = {}
  BY <1>1 DEF upsert, newLastRowid, MasterInv
<1>2. CASE S # {}
  <2> DEFINE I == {rowid(u) : u \in S}
  <2>1. I \in SUBSET (1..Len(RowOrder)) /\ I # {} /\ Len(RowOrder) \in Nat
    BY <1>2, RowidFacts, FlushAssumption
  <2>2. watermark' = Max(I)
    BY <1>2 DEF upsert, newLastRowid
  <2>3. Max(I) \in I
    <3> HIDE DEF I
    <3> QED
      BY <2>1, MaxOfSome
  <2>4. PICK v \in S : watermark' = rowid(v)
    BY <2>2, <2>3
  <2> SUFFICES ASSUME NEW u \in Uids, rowid(u) <= rowid(v)
               PROVE  u \in master' \cup overtaken' \/ disk'.row[u] = "DISCOVERY_FAILED"
    BY <2>4 DEF MasterInv
  <2>5. CASE u \in S
    BY <2>5 DEF upsert, withEmail
  <2>6. CASE u \notin S
    <3>1. rowid(u) < rowid(v)
      <4>1. rowid(u) \in 1..Len(RowOrder) /\ rowid(v) \in 1..Len(RowOrder) /\ Len(RowOrder) \in Nat
        BY <2>1, RowidFacts
      <4>2. rowid(u) # rowid(v)
        BY <2>6, RowidFacts
      <4> QED
        BY <4>1, <4>2
    <3> QED
      BY <2>6, <3>1 DEF upsert
  <2> QED
    BY <2>5, <2>6
<1> QED
  BY <1>1, <1>2

(* What the flush has passed over stays accounted for.                     *)
LEMMA MasterStep ==
    ASSUME TypeInv, StoreInv, LinesInv, RowsInv, MasterInv, [Next]_vars
    PROVE  MasterInv'
<1>1. CASE UNCHANGED <<watermark, master, overtaken>>
  <2>1. ASSUME NEW u \in Uids, disk.row[u] = "DISCOVERY_FAILED"
        PROVE  disk'.row[u] = "DISCOVERY_FAILED"
    <3>1. mem.row[u] = "DISCOVERY_FAILED"
      BY <2>1 DEF StoreInv
    <3>2. CASE Executes
      BY <2>1, <3>1, <3>2, RowsKeep DEF Executes, execute
    <3> QED
      BY <2>1, <3>1, <3>2, StoreSteps DEF StoreStep, store, commit, begin, rollback
  <2> QED
    BY <1>1, <2>1 DEF MasterInv
<1>2. CASE FlushActs
  <2>1. UNCHANGED disk /\ rows \in SUBSET Uids
    BY <1>2 DEF FlushActs, store, TypeInv
  <2>2. upsert(rows) \/ UNCHANGED <<watermark, master, overtaken>>
    BY <1>2 DEF FlushActs, FlushSelects, FlushWrites
  <2> QED
    BY <1>1, <2>1, <2>2, UpsertFacts
<1>3. CASE FinalFlush
  <2>1. upsert(newlyTerminal) /\ UNCHANGED disk /\ newlyTerminal \in SUBSET Uids
    BY <1>3 DEF FinalFlush, flushAll, store, newlyTerminal
  <2> QED
    BY <2>1, UpsertFacts
<1>4. ASSUME NEW u \in Uids, Task(u) PROVE UNCHANGED <<watermark, master, overtaken>>
  BY <1>4 DEF Task, Probed, Acknowledged, flushing
<1> QED
  BY <1>1, <1>2, <1>3, <1>4 DEF Next, ProducerActs, Stage, StageStarts, Poll, ReadDone,
     CheckPending, Gathered, Process, GatherEnds, Report, Close, Crash, Gone, StartRun,
     Signal, vars, flushing

(* The end of a run reports and flushes what there is.                     *)
LEMMA TeardownStep ==
    ASSUME TypeInv, StoreInv, LinesInv, RowsInv, StageInv, MasterInv, TeardownInv, [Next]_vars
    PROVE  TeardownInv'
<1> DEFINE Torn == phase \in {"flushing", "reporting", "closing"} /\ normal
<1> USE DEF process, Up
<1>1. CASE UNCHANGED <<process, disk, master, overtaken, ppc, dpc, fpc>>
  BY <1>1 DEF TeardownInv, withEmail, Ended
<1>2. ASSUME Up, UNCHANGED process, ~Torn
      PROVE  TeardownInv'
  BY <1>2 DEF TeardownInv
<1>3. CASE ProducerActs
  <2>1. ~Torn /\ Up /\ UNCHANGED process
    BY <1>3, EndedStays DEF TeardownInv, ProducerActs
  <2> QED
    BY <1>2, <2>1
<1>4. CASE FlushActs
  <2>1. ~Torn /\ Up /\ UNCHANGED process
    BY <1>4 DEF TeardownInv, FlushActs, FlushSelects, FlushWrites
  <2> QED
    BY <1>2, <2>1
<1>5. CASE Stage
  <2>1. ~Torn /\ Up /\ UNCHANGED process
    BY <1>5 DEF TeardownInv, Stage, StageStarts, Poll, ReadDone, CheckPending, Gathered
  <2> QED
    BY <1>2, <2>1
<1>6. ASSUME NEW u \in Uids, Task(u) PROVE TeardownInv'
  <2>1. Up /\ UNCHANGED process /\ worker[u] # "none"
    BY <1>6 DEF Task, Probed, Acknowledged
  <2>2. dpc = "gather"
    BY <2>1 DEF StageInv, NoWorkers
  <2>3. ~Torn
    BY <2>2 DEF TeardownInv
  <2> QED
    BY <1>2, <2>1, <2>3
<1>7. CASE GatherEnds
  <2>1. /\ phase' = (IF master_db THEN "flushing" ELSE "reporting") /\ stop' /\ normal' = ~Raised
        /\ UNCHANGED <<master_db, ppc, dpc, fpc>>
    BY <1>7 DEF GatherEnds, producer, stage, flushing
  <2>2. normal' => ppc = "ended" /\ dpc = "ended" /\ (master_db => fpc = "idle")
    BY <1>7 DEF GatherEnds, gatherReturns
  <2> QED
    BY <2>1, <2>2 DEF TeardownInv
<1>8. CASE FinalFlush
  <2>1. /\ phase = "flushing" /\ phase' = "reporting" /\ upsert(newlyTerminal)
        /\ UNCHANGED <<stop, normal, master_db, disk, ppc, dpc, fpc>>
    BY <1>8 DEF FinalFlush, flushAll, store, producer, stage
  <2>2. ASSUME NEW u \in withEmail(Ended(disk)) PROVE u \in master' \cup overtaken'
    <3>1. u \in Uids /\ disk.row[u] \in Settled /\ disk.row[u] # "DISCOVERY_FAILED"
      BY <2>2 DEF withEmail, Ended
    <3>2. CASE rowid(u) <= watermark
      BY <2>1, <3>1, <3>2 DEF MasterInv, upsert
    <3>3. CASE ~ (rowid(u) <= watermark)
      <4>1. rowid(u) > watermark
        BY <3>1, <3>3, RowidFacts, FlushAssumption DEF TypeInv
      <4> QED
        BY <2>1, <3>1, <4>1 DEF upsert, withEmail, newlyTerminal
    <3> QED
      BY <3>2, <3>3
  <2>3. withEmail(Ended(disk))' = withEmail(Ended(disk))
    BY <2>1 DEF withEmail, Ended
  <2> QED
    BY <2>1, <2>2, <2>3 DEF TeardownInv
<1>9. CASE Report
  <2>1. /\ phase = "reporting" /\ phase' = "closing" /\ disk' = mem /\ reported' = Ended(mem)
        /\ UNCHANGED <<stop, normal, master_db, master, overtaken, ppc, dpc, fpc>>
    BY <1>9 DEF Report, commit, producer, stage, flushing
  <2>2. normal => mem = disk
    BY <2>1 DEF TeardownInv, StoreInv, Writing
  <2>3. normal => disk' = disk /\ reported' = Ended(disk)
    BY <2>1, <2>2
  <2> QED
    BY <2>1, <2>3 DEF TeardownInv, withEmail, Ended
<1>10. CASE StartRun
  BY <1>10 DEF StartRun, TeardownInv
<1>11. CASE Signal
  BY <1>11 DEF Signal, TeardownInv, store, producer, flushing, stage
<1>12. CASE Close
  <2>1. /\ phase = "closing" /\ phase' = "idle"
        /\ UNCHANGED <<normal, disk, master, overtaken, master_db, reported>>
    BY <1>12 DEF Close, Gone, rollback
  <2> QED
    BY <2>1 DEF TeardownInv, withEmail, Ended
<1>13. CASE Crash
  BY <1>13 DEF Crash, Gone, TeardownInv
<1>14. CASE UNCHANGED vars
  BY <1>1, <1>14 DEF vars, store, producer, flushing, stage
<1> QED
  BY <1>3, <1>4, <1>5, <1>6, <1>7, <1>8, <1>9, <1>10, <1>11, <1>12, <1>13, <1>14
     DEF Next, Process

-----------------------------------------------------------------------------
(* The invariant and what follows from it                                  *)

(* The invariant holds at first.                                           *)
LEMMA PipelineInit == Init => PipelineInv
<1> SUFFICES ASSUME Init PROVE PipelineInv
  OBVIOUS
<1> USE DEF Init, StoreInit, ProducerInit, FlushInit
<1>1. EmptyDatabase \in Database
  BY DEF EmptyDatabase, Database
<1>2. <<>> \in Seq(Result)
  OBVIOUS
<1>3. 0 \in 0..Len(RowOrder)
  BY FlushAssumption
<1>4. NoWorkers \in [Uids -> {"none", "probing", "writing", "undone", "halted"}]
  BY DEF NoWorkers
<1>5. TypeInv
  BY <1>1, <1>2, <1>3, <1>4 DEF TypeInv, ProducerPC
<1>6. StoreInv
  BY DEF StoreInv, EmptyDatabase, Settled
<1>7. LinesInv
  <2>1. covered(EmptyDatabase, 0) /\ EmptyDatabase.offset = 0
    BY ProducerAssumption DEF covered, EmptyDatabase
  <2> QED
    BY <2>1 DEF LinesInv, Chunk, Writing, Retries
<1>8. RowsInv
  BY DEF RowsInv, NoWorkers, AcknowledgedSurvives
<1>9. StageInv
  BY DEF StageInv, StagesEndInOrder, Up
<1>10. FinishInv
  BY DEF FinishInv, Retries
<1>11. MasterInv
  BY RowidFacts DEF MasterInv
<1>12. TeardownInv
  BY DEF TeardownInv
<1> QED
  BY <1>5, <1>6, <1>7, <1>8, <1>9, <1>10, <1>11, <1>12 DEF PipelineInv

(* And every step keeps it.                                                *)
LEMMA PipelineStep == PipelineInv /\ [Next]_vars => PipelineInv'
BY TypesStep, StoreInvStep, LinesStep, RowsStep, StageStep, FinishStep, MasterStep, TeardownStep
   DEF PipelineInv

(* It is an invariant of every run and of those after it.                  *)
LEMMA PipelineAlways == Spec => []PipelineInv
BY PipelineInit, PipelineStep, PTL DEF Spec

(* What it says of the offset, the verdicts and the ends.                  *)
LEMMA PipelineImplies ==
    ASSUME PipelineInv
    PROVE  /\ NoLineSkipped /\ AcknowledgedSurvives /\ StagesEndInOrder
           /\ FinishedMeansDiscovered /\ ReportComplete /\ MasterMissesOnlyOvertaken
<1> USE DEF PipelineInv
<1>1. NoLineSkipped
  BY DEF LinesInv, covered, NoLineSkipped
<1>2. AcknowledgedSurvives /\ StagesEndInOrder
  BY DEF RowsInv, StageInv
<1>3. FinishedMeansDiscovered
  <2> SUFFICES ASSUME ppc = "ended", ~stop, ~ceiling, Limit = 0, MaxDiscoveryRetries > 0
               PROVE  disk.offset = Len(File) /\ \A u \in Uids : mem.row[u] # "DISCOVERING"
    BY DEF FinishedMeansDiscovered
  <2>1. offset = Len(File) /\ \A u \in Uids : mem.row[u] # "DISCOVERING"
    BY DEF FinishInv, allRead
  <2>2. mem.offset = offset
    BY DEF LinesInv
  <2>3. mem = disk
    BY DEF StoreInv, Writing
  <2> QED
    BY <2>1, <2>2, <2>3
<1>4. ReportComplete /\ MasterMissesOnlyOvertaken
  BY DEF TeardownInv, ReportComplete, MasterMissesOnlyOvertaken
<1> QED
  BY <1>1, <1>2, <1>3, <1>4

(* The offset on disk never covers a line whose record is not on disk,     *)
(* whoever ends the producer's transaction and wherever the process dies.  *)
THEOREM LinesTheorem == Spec => []NoLineSkipped
BY PipelineAlways, PipelineImplies, PTL

(* A verdict whose commit has returned stays on disk, although it may have *)
(* been written inside the producer's transaction.                         *)
THEOREM AcknowledgedTheorem == Spec => []AcknowledgedSurvives
BY PipelineAlways, PipelineImplies, PTL

(* The verification stage leaves by itself only after the producer, with   *)
(* nothing claimable left, unless an earlier run has set producer_done.    *)
THEOREM StagesTheorem == Spec => []StagesEndInOrder
BY PipelineAlways, PipelineImplies, PTL

(* A producer that ends by itself has read the file and discovered all.    *)
THEOREM FinishedTheorem == Spec => []FinishedMeansDiscovered
BY PipelineAlways, PipelineImplies, PTL

(* The outputs of a run that ended normally list every record that ended.  *)
THEOREM ReportTheorem == Spec => []ReportComplete
BY PipelineAlways, PipelineImplies, PTL

(* After such a run the master database lacks only records that a flush    *)
(* has overtaken.                                                          *)
THEOREM MasterTheorem == Spec => []MasterMissesOnlyOvertaken
BY PipelineAlways, PipelineImplies, PTL

=============================================================================
