--------------------------- MODULE ServicesProofs ---------------------------
(***************************************************************************)
(* Theorems about the services around the pipeline, each about one of them *)
(* by itself: the rate limiter, the paid search and the single Zuhal calls *)
(* for any number of callers, the supervisor and its workers for any       *)
(* fleet, the pass-off watcher for any result files.                       *)
(***************************************************************************)
EXTENDS SerperClient, ZuhalClient, FleetSupervisor, Passoff, FiniteSetTheorems, TLAPS

-----------------------------------------------------------------------------
(* The rate limiter                                                        *)

(* The smaller of two numbers, which refill and the clock cap with.        *)
LEMMA MinOfTwo ==
    ASSUME NEW a \in Int, NEW b \in Int
    PROVE  Min({a, b}) = IF a <= b THEN a ELSE b
<1> DEFINE m == IF a <= b THEN a ELSE b
<1>1. m \in {a, b} /\ \A y \in {a, b} : m <= y
  OBVIOUS
<1>2. \A x \in {a, b} : (\A y \in {a, b} : x <= y) => x = m
  OBVIOUS
<1> QED
  BY <1>1, <1>2 DEF Min

\* The promised bucket is the real one, refilled up to now: both hold the
\* same, however long ago the last refill was.
BucketInv ==
    /\ tokens \in 0..Capacity /\ elapsed \in 0..Capacity
    /\ sleep \in {"no", "sleeping", "over"}
    /\ allowed = Min({Capacity, tokens + elapsed})
    /\ sleep = "over" => elapsed >= 1

(* The strengthening of RateHeld holds initially.                          *)
LEMMA BucketInvInit == BucketInit => BucketInv
<1> SUFFICES ASSUME BucketInit PROVE BucketInv
  OBVIOUS
<1>1. Capacity \in Nat /\ InitialTokens \in 0..Capacity
  BY BucketAssumption
<1>2. Min({Capacity, InitialTokens + 0}) = InitialTokens
  BY <1>1, MinOfTwo
<1> QED
  BY <1>1, <1>2 DEF BucketInit, BucketInv

(* Every step of the limiter keeps it.                                     *)
LEMMA BucketInvStep == BucketInv /\ [BucketNext]_bucket => BucketInv'
<1> SUFFICES ASSUME BucketInv, [BucketNext]_bucket PROVE BucketInv'
  OBVIOUS
<1> USE DEF BucketInv
<1>0. Capacity \in Nat /\ Capacity >= 1
  BY BucketAssumption
<1>1. /\ tokens + elapsed \in Int
      /\ allowed = IF Capacity <= tokens + elapsed THEN Capacity ELSE tokens + elapsed
  BY <1>0, MinOfTwo
<1>2. ASSUME NEW c \in Callers, Ask(c) PROVE BucketInv'
  BY <1>2 DEF Ask
<1>3. ASSUME NEW c \in Callers, Granted(c) PROVE BucketInv'
  <2>1. tokens + elapsed >= 1
    BY <1>0, <1>3 DEF Granted
  <2>2. tokens' = allowed - 1 /\ elapsed' = 0 /\ sleep' = "no" /\ allowed' = allowed - 1
    BY <1>3 DEF Granted, refill
  <2>3. tokens' \in 0..Capacity
    BY <1>0, <1>1, <2>1, <2>2
  <2>4. Min({Capacity, tokens' + 0}) = tokens'
    BY <1>0, <2>3, MinOfTwo
  <2> QED
    BY <1>0, <2>2, <2>3, <2>4
<1>4. CASE FallsAsleep
  <2>1. tokens' = allowed /\ elapsed' = 0 /\ sleep' = "sleeping" /\ allowed' = allowed
    BY <1>0, <1>1, <1>4 DEF FallsAsleep, refill
  <2>2. allowed \in 0..Capacity
    BY <1>0, <1>1
  <2>3. Min({Capacity, allowed + 0}) = allowed
    BY <1>0, <2>2, MinOfTwo
  <2> QED
    BY <1>0, <2>1, <2>2, <2>3
<1>5. CASE Tick
  <2>1. /\ elapsed' = IF elapsed + 1 <= Capacity THEN elapsed + 1 ELSE Capacity
        /\ tokens' = tokens
    BY <1>0, <1>5, MinOfTwo DEF Tick
  <2>2. allowed' = IF allowed + 1 <= Capacity THEN allowed + 1 ELSE Capacity
    BY <1>0, <1>1, <1>5, MinOfTwo DEF Tick
  <2>3. tokens' + elapsed' \in Int
    BY <1>0, <2>1
  <2>4. Min({Capacity, tokens' + elapsed'}) =
          IF Capacity <= tokens' + elapsed' THEN Capacity ELSE tokens' + elapsed'
    BY <1>0, <2>3, MinOfTwo
  <2>5. allowed' = Min({Capacity, tokens' + elapsed'})
    BY <1>0, <1>1, <2>1, <2>2, <2>4
  <2>6. sleep' \in {"no", "sleeping", "over"} /\ elapsed' >= 1
    BY <1>0, <1>5, <2>1 DEF Tick
  <2> QED
    BY <1>0, <2>1, <2>5, <2>6
<1>6. CASE UNCHANGED bucket
  BY <1>6 DEF bucket
<1> QED
  BY <1>2, <1>3, <1>4, <1>5, <1>6 DEF BucketNext

(* RateHeld (TokenBucket.acquire): however many tasks share the limiter,   *)
(* the rate is kept.                                                       *)
THEOREM RateTheorem == BucketSpec => []RateHeld
<1>1. BucketInv => RateHeld
  <2> SUFFICES ASSUME BucketInv PROVE RateHeld
    OBVIOUS
  <2>1. Capacity \in Nat
    BY BucketAssumption
  <2> QED
    BY <2>1, MinOfTwo DEF BucketInv, RateHeld
<1> QED
  BY <1>1, BucketInvInit, BucketInvStep, PTL DEF BucketSpec

-----------------------------------------------------------------------------
(* Single Zuhal calls                                                      *)

ZuhalClientInv ==
    /\ zpc \in [Verifiers -> {"new"} \cup Running \cup Outcome]
    /\ answers \in [Verifiers -> SUBSET AllStatuses]
    /\ RateLimitNeverBurns

(* Only an answer makes a call end in an error, and never a 429.           *)
LEMMA ZuhalClientInvStep ==
    ZuhalClientInv /\ [ZuhalClientNext]_zuhalClient => ZuhalClientInv'
<1> SUFFICES ASSUME ZuhalClientInv, [ZuhalClientNext]_zuhalClient PROVE ZuhalClientInv'
  OBVIOUS
<1> USE DEF ZuhalClientInv, RateLimitNeverBurns, Running, Outcome, becomes
<1>1. ASSUME NEW v \in Verifiers, Validate(v) PROVE ZuhalClientInv'
  BY <1>1 DEF Validate
<1>2. ASSUME NEW v \in Verifiers, Attempt(v) PROVE ZuhalClientInv'
  BY <1>2 DEF Attempt
<1>3. ASSUME NEW v \in Verifiers, NEW s \in Statuses, Answer(v, s) PROVE ZuhalClientInv'
  <2>1. s \in AllStatuses
    BY ZuhalClientAssumption
  <2>2. PICK pc \in {"verdict", "circuit", "backoff"} \cup {failure(s)} :
          zpc' = [zpc EXCEPT ![v] = pc]
    BY <1>3 DEF Answer
  <2>3. failure(s) \in Outcome /\ (failure(s) = "error" => s # "429")
    BY <2>1 DEF failure, AllStatuses
  <2>4. answers' = [answers EXCEPT ![v] = @ \cup {s}]
    BY <1>3 DEF Answer
  <2>5. pc \in Running \cup Outcome /\ (pc = "error" => s # "429")
    BY <2>2, <2>3
  <2> QED
    BY <2>1, <2>2, <2>4, <2>5
<1>4. CASE TimeoutOver
  BY <1>4 DEF TimeoutOver
<1>5. CASE UNCHANGED zuhalClient
  BY <1>5 DEF zuhalClient
<1> QED
  BY <1>1, <1>2, <1>3, <1>4, <1>5 DEF ZuhalClientNext, Call

(* RateLimitNeverBurns (ZuhalClient._validate_inner): for any number of    *)
(* callers and whatever the breaker does, 429s alone never fail a record.  *)
THEOREM RateLimitTheorem == ZuhalClientSpec => []RateLimitNeverBurns
<1>1. ZuhalClientInit => ZuhalClientInv
  BY DEF ZuhalClientInit, ZuhalClientInv, RateLimitNeverBurns
<1>2. ZuhalClientInv => RateLimitNeverBurns
  BY DEF ZuhalClientInv
<1> QED
  BY <1>1, <1>2, ZuhalClientInvStep, PTL DEF ZuhalClientSpec

-----------------------------------------------------------------------------
(* The paid search                                                         *)

\* Calls with an answer of their own that has not been charged for.
Open == {c \in Callers : own[c] = "answer" /\ spc[c] # "done"}

SpcStates == {"new", "lookup", "token", "search", "backoff", "store", "mark", "done", "raised"}

SerperTypes ==
    /\ spc \in [Callers -> SpcStates] /\ query \in [Callers -> Queries]
    /\ own \in [Callers -> {"none", "hit", "answer"}]
    /\ charged \in Nat /\ _fallback_calls \in Nat /\ searches \in Nat

\* A fallback follows an answer, and a hit of the producer's returns at once.
CallsInv ==
    /\ \A c \in Callers : spc[c] \in {"new", "lookup"} => query[c] = "primary"
    /\ \A c \in Callers : query[c] # "primary" => own[c] = "answer"
    /\ \A c \in Callers \ Hinted : own[c] = "hit" => spc[c] = "done"

\* An open call has a search to its name that nothing has been charged for.
SerperInv ==
    /\ SerperTypes /\ CallsInv
    /\ IsFiniteSet(Open) /\ IsFiniteSet(Unearned)
    /\ charged + _fallback_calls + Cardinality(Open) <= searches + Cardinality(Unearned)

SerperKept == SerperInv /\ last_was_cache_hit \in BOOLEAN

bit(b) == IF b THEN 1 ELSE 0

(* A set that one element enters or leaves.                                *)
LEMMA OneMoves ==
    ASSUME NEW S, NEW T, NEW c, IsFiniteSet(S), S \ {c} = T \ {c}
    PROVE  /\ IsFiniteSet(T) /\ Cardinality(S) \in Nat /\ Cardinality(T) \in Nat
           /\ Cardinality(T) + bit(c \in S) = Cardinality(S) + bit(c \in T)
<1> DEFINE R == S \ {c}
<1>1. IsFiniteSet(R) /\ c \notin R
  BY FS_Subset
<1>2. IsFiniteSet(R \cup {c}) /\ Cardinality(R \cup {c}) = Cardinality(R) + 1
  BY <1>1, FS_AddElement
<1>3. (S = R \/ S = R \cup {c}) /\ (T = R \/ T = R \cup {c})
  OBVIOUS
<1>4. (c \in S) = (S = R \cup {c}) /\ (c \in T) = (T = R \cup {c})
  BY <1>3
<1>5. Cardinality(R) \in Nat
  BY <1>1, FS_CardinalityType
<1> HIDE DEF R
<1>6. Cardinality(S) = Cardinality(R) + bit(c \in S) /\ Cardinality(T) = Cardinality(R) + bit(c \in T)
  BY <1>1, <1>2, <1>3, <1>4, <1>5 DEF bit
<1>7. IsFiniteSet(T)
  BY <1>1, <1>2, <1>3
<1>8. bit(c \in S) \in 0..1 /\ bit(c \in T) \in 0..1
  BY DEF bit
<1> QED
  BY <1>5, <1>6, <1>7, <1>8

(* A step of one call keeps the account when what it charges, and the      *)
(* answer it opens, are paid for by the search it made or by its own end.  *)
LEMMA OneCall ==
    ASSUME SerperInv, NEW c \in Callers, SerperTypes', CallsInv',
           Open \ {c} = Open' \ {c}, Unearned \ {c} = Unearned' \ {c},
           charged' + _fallback_calls' + bit(c \in Open') + searches + bit(c \in Unearned)
             <= charged + _fallback_calls + bit(c \in Open) + searches' + bit(c \in Unearned')
    PROVE  SerperInv'
<1> DEFINE a == charged'  b == _fallback_calls'  s == searches'
           n == Cardinality(Open)  m == Cardinality(Open')
           u == Cardinality(Unearned)  v == Cardinality(Unearned')
           i == bit(c \in Open)  j == bit(c \in Open')
           k == bit(c \in Unearned)  l == bit(c \in Unearned')
<1>1. IsFiniteSet(Open') /\ n \in Nat /\ m \in Nat /\ m + i = n + j
  <2> HIDE DEF Open
  <2> QED
    BY OneMoves DEF SerperInv
<1>2. IsFiniteSet(Unearned') /\ u \in Nat /\ v \in Nat /\ v + k = u + l
  <2> HIDE DEF Unearned
  <2> QED
    BY OneMoves DEF SerperInv
<1>3. /\ a \in Nat /\ b \in Nat /\ s \in Nat
      /\ charged \in Nat /\ _fallback_calls \in Nat /\ searches \in Nat
  BY DEF SerperInv, SerperTypes
<1>4. i \in 0..1 /\ j \in 0..1 /\ k \in 0..1 /\ l \in 0..1
  BY DEF bit
<1>5. /\ a + b + j + searches + k <= charged + _fallback_calls + i + s + l
      /\ charged + _fallback_calls + n <= searches + u
  BY DEF SerperInv
<1> HIDE DEF a, b, s, n, m, u, v, i, j, k, l
<1>6. a + b + m <= s + v
  BY <1>1, <1>2, <1>3, <1>4, <1>5
<1> QED
  BY <1>1, <1>2, <1>6 DEF SerperInv, a, b, s, m, v

(* A step that ends no call and gives none an answer.                      *)
LEMMA NothingCharged ==
    ASSUME SerperInv, NEW c \in Callers, NEW pc \in SpcStates \ {"done"}, spc[c] # "done",
           pc \in {"new", "lookup"} => query[c] = "primary",
           spc' = [spc EXCEPT ![c] = pc],
           UNCHANGED <<query, own, charged, _fallback_calls, searches>>
    PROVE  SerperInv'
<1> USE DEF SerperInv, SerperTypes, CallsInv
<1>1. Open' = Open /\ Unearned' = Unearned
  BY DEF Open, Unearned
<1>2. SerperTypes' /\ CallsInv'
  BY DEF SpcStates
<1> QED
  BY <1>1, <1>2

(* The end of a call: the charge is for its answer, or it had none.        *)
LEMMA Charges ==
    ASSUME SerperInv, NEW c \in Callers, NEW hit \in BOOLEAN, spc[c] # "done", charge_costs(hit),
           c \in Hinted \/ own[c] # "hit",
           spc' = [spc EXCEPT ![c] = "done"], UNCHANGED <<query, own, searches>>
    PROVE  SerperInv'
<1>1. SerperTypes /\ CallsInv
  BY DEF SerperInv
<1>2. SerperTypes' /\ CallsInv'
  BY <1>1 DEF SerperTypes, CallsInv, charge_costs, SpcStates
<1>3. Open \ {c} = Open' \ {c} /\ Unearned \ {c} = Unearned' \ {c}
  BY <1>1 DEF Open, Unearned, SerperTypes
<1>4. /\ (c \in Open) = (own[c] = "answer") /\ c \notin Open'
      /\ c \notin Unearned /\ (c \in Unearned') = (own[c] # "answer")
  BY <1>1 DEF Open, Unearned, SerperTypes
<1>5. /\ bit(c \in Open) + bit(c \in Unearned') = 1
      /\ bit(c \in Open') = 0 /\ bit(c \in Unearned) = 0
  BY <1>4 DEF bit
<1> DEFINE a == charged'  b == _fallback_calls'  i == bit(c \in Open)  l == bit(c \in Unearned')
<1>6. a <= charged + 1 + _fallback_calls /\ b = 0 /\ a \in Nat /\ searches' = searches
  BY <1>1, <1>2 DEF charge_costs, SerperTypes
<1>7. i \in 0..1 /\ l \in 0..1
  BY DEF bit
<1>8. i + l = 1
  BY <1>5
<1> HIDE DEF a, b, i, l
<1>9. a + b + 0 + searches + 0 <= charged + _fallback_calls + i + searches + l
  BY <1>1, <1>6, <1>7, <1>8 DEF SerperTypes
<1>10. charged' + _fallback_calls' + bit(c \in Open') + searches + bit(c \in Unearned)
         <= charged + _fallback_calls + bit(c \in Open) + searches' + bit(c \in Unearned')
  BY <1>5, <1>6, <1>9 DEF a, b, i, l
<1> HIDE DEF bit
<1> QED
  BY <1>2, <1>3, <1>10, OneCall

(* What is back in the caller without a hit is charged, or waits for it.   *)
LEMMA ReturnKeeps ==
    ASSUME SerperInv, NEW c \in Callers, NEW hit \in BOOLEAN, spc[c] \notin {"done", "lookup"},
           Returns(c, hit), UNCHANGED <<query, own, searches>>
    PROVE  SerperInv'
<1>1. CASE c \in Hinted
  BY <1>1, NothingCharged DEF Returns, SpcStates
<1>2. CASE c \notin Hinted
  <2>1. own[c] # "hit"
    BY <1>2 DEF SerperInv, CallsInv
  <2> QED
    BY <1>2, <2>1, Charges DEF Returns
<1> QED
  BY <1>1, <1>2

(* A hit of the producer's is free; the dispatcher's waits for its charge. *)
LEMMA HitKeeps ==
    ASSUME SerperInv, NEW c \in Callers, spc[c] = "lookup", Returns(c, TRUE),
           own' = [own EXCEPT ![c] = "hit"], UNCHANGED <<query, searches>>
    PROVE  SerperInv'
<1>1. SerperTypes /\ CallsInv
  BY DEF SerperInv
<1>2. PICK pc \in {"mark", "done"} :
        spc' = [spc EXCEPT ![c] = pc] /\ (c \in Hinted <=> pc = "mark")
  <2>1. CASE c \in Hinted
    BY <2>1 DEF Returns
  <2>2. CASE c \notin Hinted
    BY <2>2 DEF Returns
  <2> QED
    BY <2>1, <2>2
<1>3. charged' + _fallback_calls' <= charged + _fallback_calls /\ charged' \in Nat /\ _fallback_calls' \in Nat
  BY <1>1 DEF Returns, charge_costs, SerperTypes
<1>4. SerperTypes' /\ CallsInv'
  BY <1>1, <1>2, <1>3 DEF SerperTypes, CallsInv, SpcStates
<1>5. Open \ {c} = Open' \ {c} /\ Unearned \ {c} = Unearned' \ {c}
  BY <1>1, <1>2 DEF Open, Unearned, SerperTypes
<1>6. c \notin Open' /\ c \notin Unearned /\ c \notin Unearned'
  BY <1>1, <1>2 DEF Open, Unearned, SerperTypes
<1>7. bit(c \in Open') = 0 /\ bit(c \in Unearned) = 0 /\ bit(c \in Unearned') = 0
  BY <1>6 DEF bit
<1> DEFINE a == charged'  b == _fallback_calls'  i == bit(c \in Open)
<1>8. i \in 0..1 /\ a \in Nat /\ b \in Nat /\ a + b <= charged + _fallback_calls
  BY <1>3 DEF bit
<1> HIDE DEF a, b, i
<1>9. a + b + 0 + searches + 0 <= charged + _fallback_calls + i + searches + 0
  BY <1>1, <1>8 DEF SerperTypes
<1>10. charged' + _fallback_calls' + bit(c \in Open') + searches + bit(c \in Unearned)
         <= charged + _fallback_calls + bit(c \in Open) + searches' + bit(c \in Unearned')
  BY <1>7, <1>9 DEF a, b, i
<1> HIDE DEF bit
<1> QED
  BY <1>4, <1>5, <1>10, OneCall

(* An answer is one search more, for the call or for a fallback of it.     *)
LEMMA FoundKeeps ==
    ASSUME SerperInv, NEW c \in Callers, spc[c] = "search", NEW found, Found(c, found)
    PROVE  SerperInv'
<1>1. SerperTypes /\ CallsInv
  BY DEF SerperInv
<1> DEFINE next == fallbackAfter(c, query[c], better(c, found))
           k == IF query[c] \in {"site", "short"} THEN 1 ELSE 0
<1>2. next \in {"none", "site", "agent", "short"}
  BY DEF fallbackAfter
<1> HIDE DEF next
<1>3. /\ searches' = searches + 1 /\ charged' = charged /\ _fallback_calls' = _fallback_calls + k
      /\ own' = [own EXCEPT ![c] = "answer"]
      /\ \/ next # "none" /\ spc' = [spc EXCEPT ![c] = "token"] /\ query' = [query EXCEPT ![c] = next]
         \/ next = "none" /\ spc' = [spc EXCEPT ![c] = "store"] /\ query' = query
  BY DEF Found, next
<1>4. SerperTypes'
  <2>1. searches' \in Nat /\ _fallback_calls' \in Nat /\ charged' \in Nat
    BY <1>1, <1>3 DEF SerperTypes
  <2>2. spc' \in [Callers -> SpcStates] /\ query' \in [Callers -> Queries]
    BY <1>1, <1>2, <1>3 DEF SerperTypes, SpcStates, Queries
  <2>3. own' \in [Callers -> {"none", "hit", "answer"}]
    BY <1>1, <1>3 DEF SerperTypes
  <2> QED
    BY <2>1, <2>2, <2>3 DEF SerperTypes
<1>5. CallsInv'
  <2>1. spc'[c] \in {"token", "store"} /\ own'[c] = "answer"
    BY <1>1, <1>3 DEF SerperTypes
  <2>2. \A d \in Callers \ {c} : spc'[d] = spc[d] /\ query'[d] = query[d] /\ own'[d] = own[d]
    BY <1>1, <1>3 DEF SerperTypes
  <2> QED
    BY <1>1, <2>1, <2>2 DEF CallsInv
<1>6. Open \ {c} = Open' \ {c} /\ Unearned \ {c} = Unearned' \ {c}
  BY <1>1, <1>3 DEF Open, Unearned, SerperTypes
<1>7. c \in Open' /\ c \notin Unearned /\ c \notin Unearned' /\ (query[c] # "primary" => c \in Open)
  BY <1>1, <1>3 DEF Open, Unearned, SerperTypes, CallsInv
<1>8. bit(c \in Open') = 1 /\ bit(c \in Unearned) = 0 /\ bit(c \in Unearned') = 0
  BY <1>7 DEF bit
<1> DEFINE b == _fallback_calls'  i == bit(c \in Open)
<1>9. i \in 0..1 /\ k \in 0..1 /\ b = _fallback_calls + k /\ k <= i
  BY <1>3, <1>7 DEF bit
<1> HIDE DEF b, i, k
<1>10. charged + b + 1 + searches + 0 <= charged + _fallback_calls + i + (searches + 1) + 0
  BY <1>1, <1>9 DEF SerperTypes
<1>11. charged' + _fallback_calls' + bit(c \in Open') + searches + bit(c \in Unearned)
         <= charged + _fallback_calls + bit(c \in Open) + searches' + bit(c \in Unearned')
  BY <1>3, <1>8, <1>10 DEF b, i
<1> HIDE DEF bit
<1> QED
  BY <1>4, <1>5, <1>6, <1>11, OneCall

(* Every step of a call keeps the account.                                 *)
LEMMA SerperInvStep == SerperKept /\ [SerperNext]_serper => SerperKept'
<1> SUFFICES ASSUME SerperInv, last_was_cache_hit \in BOOLEAN, [SerperNext]_serper
             PROVE  SerperInv' /\ last_was_cache_hit' \in BOOLEAN
  BY DEF SerperKept
<1>0. SerperTypes /\ CallsInv
  BY DEF SerperInv
<1> DEFINE Kept == SerperInv' /\ last_was_cache_hit' \in BOOLEAN
<1>1. ASSUME NEW c \in Callers, Enter(c) PROVE Kept
  <2>1. CASE _credits_exhausted
    <3>1. Returns(c, FALSE) /\ spc[c] = "new" /\ UNCHANGED <<query, own, searches>>
      BY <1>1, <2>1 DEF Enter
    <3> QED
      BY <3>1, ReturnKeeps DEF Returns
  <2>2. CASE ~_credits_exhausted
    <3>1. /\ spc' = [spc EXCEPT ![c] = "lookup"] /\ spc[c] = "new" /\ last_was_cache_hit' = last_was_cache_hit
          /\ UNCHANGED <<query, own, charged, _fallback_calls, searches>>
      BY <1>1, <2>2 DEF Enter
    <3>2. query[c] = "primary"
      BY <1>0, <3>1 DEF CallsInv
    <3> QED
      BY <3>1, <3>2, NothingCharged DEF SpcStates
  <2> QED
    BY <2>1, <2>2
<1>2. ASSUME NEW c \in Callers, Lookup(c) PROVE Kept
  <2>1. CASE UseCache /\ Key[c] \in cache
    <3>1. /\ Returns(c, TRUE) /\ spc[c] = "lookup" /\ own' = [own EXCEPT ![c] = "hit"]
          /\ UNCHANGED <<query, searches>>
      BY <1>2, <2>1 DEF Lookup
    <3> QED
      BY <3>1, HitKeeps DEF Returns
  <2>2. CASE ~(UseCache /\ Key[c] \in cache)
    <3>1. /\ spc' = [spc EXCEPT ![c] = "token"] /\ spc[c] = "lookup" /\ last_was_cache_hit' = FALSE
          /\ UNCHANGED <<query, own, charged, _fallback_calls, searches>>
      BY <1>2, <2>2 DEF Lookup
    <3> QED
      BY <3>1, NothingCharged DEF SpcStates
  <2> QED
    BY <2>1, <2>2
<1>3. ASSUME NEW c \in Callers, Acquired(c) \/ Retries(c) PROVE Kept
  <2>1. /\ spc[c] \in {"token", "backoff"} /\ spc' = [spc EXCEPT ![c] = "search"]
        /\ UNCHANGED <<query, own, charged, _fallback_calls, searches, last_was_cache_hit>>
    BY <1>3 DEF Acquired, Retries, serperFields, serperMoney
  <2> QED
    BY <2>1, NothingCharged DEF SpcStates
<1>4. ASSUME NEW c \in Callers, spc[c] = "search", NEW found, Found(c, found) PROVE Kept
  BY <1>4, FoundKeeps DEF Found
<1>5. ASSUME NEW c \in Callers, spc[c] = "search", NEW why, Fails(c, why) PROVE Kept
  <2>1. PICK pc \in {"backoff", "mark", "raised"} : spc' = [spc EXCEPT ![c] = pc]
    BY <1>5 DEF Fails
  <2>2. UNCHANGED <<query, own, charged, _fallback_calls, searches, last_was_cache_hit>>
    BY <1>5 DEF Fails, serperFields, serperMoney
  <2> QED
    BY <1>5, <2>1, <2>2, NothingCharged DEF SpcStates
<1>6. ASSUME NEW c \in Callers, spc[c] = "search", CreditsOut(c) PROVE Kept
  <2>1. Returns(c, last_was_cache_hit) /\ UNCHANGED <<query, own, searches>>
    BY <1>6 DEF CreditsOut
  <2> QED
    BY <1>6, <2>1, ReturnKeeps DEF Returns
<1>7. ASSUME NEW c \in Callers, Store(c) PROVE Kept
  <2>1. Returns(c, last_was_cache_hit) /\ spc[c] = "store" /\ UNCHANGED <<query, own, searches>>
    BY <1>7 DEF Store
  <2> QED
    BY <2>1, ReturnKeeps DEF Returns
<1>8. ASSUME NEW c \in Callers, Marked(c) PROVE Kept
  <2>1. /\ spc[c] = "mark" /\ spc' = [spc EXCEPT ![c] = "done"] /\ charge_costs(last_was_cache_hit)
        /\ UNCHANGED <<query, own, searches, last_was_cache_hit>>
    BY <1>8 DEF Marked
  <2>2. c \in Hinted \/ own[c] # "hit"
    BY <1>0, <2>1 DEF CallsInv
  <2> QED
    BY <2>1, <2>2, Charges
<1>9. CASE LimiterStep \/ UNCHANGED serper
  <2>1. UNCHANGED <<spc, query, own, charged, _fallback_calls, searches, last_was_cache_hit>>
    BY <1>9 DEF LimiterStep, serper, serperFields, serperMoney
  <2>2. Open' = Open /\ Unearned' = Unearned
    BY <2>1 DEF Open, Unearned
  <2> QED
    BY <1>0, <2>1, <2>2 DEF SerperInv, SerperTypes, CallsInv
<1>10. ASSUME NEW c \in Callers, Answered(c) PROVE Kept
  BY <1>4, <1>5, <1>6, <1>10 DEF Answered
<1> QED
  BY <1>1, <1>2, <1>3, <1>7, <1>8, <1>9, <1>10 DEF SerperNext, Enrich

(* ChargesBounded (SerperClient.charge_costs, Producer._process_record,    *)
(* inject_serper_fallback): for any number of calls of both callers, and   *)
(* whatever hits, failures and fallbacks they meet, no more is charged     *)
(* beyond the searches than one for each call without an answer and for    *)
(* each hit of the dispatcher's.                                           *)
THEOREM ChargesTheorem == SerperSpec => []ChargesBounded
<1>1. SerperInit => SerperKept
  <2> SUFFICES ASSUME SerperInit PROVE SerperInv /\ last_was_cache_hit \in BOOLEAN
    BY DEF SerperKept
  <2>1. Open = {} /\ Unearned = {}
    BY DEF SerperInit, Open, Unearned
  <2>2. SerperTypes /\ CallsInv
    BY DEF SerperInit, SerperTypes, CallsInv, SpcStates, Queries
  <2>3. IsFiniteSet({}) /\ Cardinality({}) = 0
    BY FS_EmptySet
  <2>4. IsFiniteSet(Open) /\ Cardinality(Open) = 0 /\ IsFiniteSet(Unearned) /\ Cardinality(Unearned) = 0
    BY <2>1, <2>3
  <2>5. charged = 0 /\ _fallback_calls = 0 /\ searches = 0 /\ last_was_cache_hit = FALSE
    BY DEF SerperInit
  <2> HIDE DEF Open, Unearned
  <2>6. charged + _fallback_calls + Cardinality(Open) <= searches + Cardinality(Unearned)
    BY <2>4, <2>5
  <2> QED
    BY <2>2, <2>4, <2>5, <2>6 DEF SerperInv
<1>2. SerperKept => ChargesBounded
  <2> SUFFICES ASSUME SerperInv PROVE ChargesBounded
    BY DEF SerperKept
  <2> DEFINE n == Cardinality(Open)  u == Cardinality(Unearned)
  <2>1. n \in Nat /\ u \in Nat
    BY FS_CardinalityType DEF SerperInv
  <2>2. SerperTypes /\ charged + _fallback_calls + n <= searches + u
    BY DEF SerperInv
  <2> HIDE DEF n, u
  <2>3. charged + _fallback_calls <= searches + u
    BY <2>1, <2>2 DEF SerperTypes
  <2> QED
    BY <2>3 DEF ChargesBounded, u
<1> QED
  BY <1>1, <1>2, SerperInvStep, PTL DEF SerperSpec

-----------------------------------------------------------------------------
(* The supervisor of the fleet                                             *)

Providing == {"credit", "create", "active", "tunnel"}

\* Names that no server has had yet.
Unused == {Spawned[i] : i \in (_spawn_seq + 1) .. Len(Spawned)}

PoolInv ==
    /\ IsFiniteSet(pool) /\ pool \subseteq Names /\ pool \cap Unused = {}
    /\ PoolBounded /\ PoolHasServers

\* Where the supervisor is, and what it has in its hands there.
CycleInv ==
    /\ cpc \in Providing \cup {"idle", "stop", "delete"}
    /\ _spawn_seq \in 0..Len(Spawned) /\ goal \in ScaleMin..ScaleMax \cup {NoGoal}
    /\ cpc = "idle" => task = NoWorker
    /\ cpc \in {"active", "tunnel"} => _spawn_seq > 0 /\ newcomer \in servers \ pool
    /\ cpc \in {"stop", "delete"} => task \in Names \ pool
    /\ cpc \in Providing => task = NoWorker \/ task \in pool \cap Managed

\* A replacement keeps the size of the pool; growing and shrinking stop at the goal.
GoalInv ==
    /\ cpc \in Providing => (task # NoWorker <=> goal = NoGoal)
    /\ cpc \in Providing /\ goal # NoGoal => toVisit = {} /\ Cardinality(pool) < goal
    /\ goal # NoGoal /\ toVisit # {} =>
         /\ toVisit \subseteq removable
         /\ goal + Cardinality(toVisit) <= Cardinality(pool)

FleetInv == PoolInv /\ CycleInv /\ GoalInv

LEMMA FleetSettings ==
    /\ NoWorker \notin Names /\ InitialPool \subseteq Names /\ Managed \subseteq Names
    /\ IsFiniteSet(InitialPool) /\ Cardinality(InitialPool) \in ScaleMin..ScaleMax
    /\ ScaleMin \in Nat /\ ScaleMax \in Nat /\ ScaleMin <= ScaleMax
    /\ NoGoal \in Nat /\ NoGoal \notin ScaleMin..ScaleMax
    /\ Len(Spawned) \in Nat
    /\ \A i \in 1..Len(Spawned) : Spawned[i] \in Managed \ InitialPool
    /\ \A i, k \in 1..Len(Spawned) : Spawned[i] = Spawned[k] => i = k
<1>1. Spawned \in Seq(Managed \ InitialPool) /\ IsInjective(Spawned)
  BY SupervisorAssumption
<1>2. DOMAIN Spawned = 1..Len(Spawned) /\ Len(Spawned) \in Nat
      /\ \A i \in 1..Len(Spawned) : Spawned[i] \in Managed \ InitialPool
  BY <1>1
<1>3. \A i, k \in 1..Len(Spawned) : Spawned[i] = Spawned[k] => i = k
  BY <1>1, <1>2 DEF IsInjective
<1>4. ScaleMin \in Nat /\ ScaleMax \in Nat /\ ScaleMin <= ScaleMax
  BY SupervisorAssumption
<1>5. NoGoal \in Nat /\ NoGoal \notin ScaleMin..ScaleMax
  BY <1>4 DEF NoGoal
<1> QED
  BY <1>2, <1>3, <1>4, <1>5, FleetAssumption, SupervisorAssumption

(* The pool is counted.                                                    *)
LEMMA PoolCount ==
    ASSUME FleetInv
    PROVE  /\ Cardinality(pool) \in ScaleMin..ScaleMax /\ Cardinality(pool) \in Nat
           /\ _spawn_seq \in Nat /\ goal \in Nat
BY FleetSettings, FS_CardinalityType DEF FleetInv, PoolInv, CycleInv, PoolBounded

(* A step that leaves the pool and the account alone keeps the promises    *)
(* about them, unless a server is on its way.                              *)
LEMMA PoolKept ==
    ASSUME FleetInv, UNCHANGED <<pool, account, _spawn_seq>>,
           cpc' = cpc \/ (cpc \notin {"active", "tunnel"})
    PROVE  PoolInv'
<1>1. Unused' = Unused /\ newcomer' = newcomer /\ UNCHANGED <<pool, servers, inventory, strays>>
  BY DEF Unused, newcomer, account
<1>2. PoolBounded'
  BY <1>1 DEF FleetInv, PoolInv, PoolBounded
<1>3. PoolHasServers'
  <2>1. servers \subseteq inventory \cup strays
           \cup (IF cpc \in {"active", "tunnel"} THEN {newcomer} ELSE {})
    BY DEF FleetInv, PoolInv, PoolHasServers
  <2>2. pool \subseteq servers /\ InitialPool \ Managed \subseteq pool
    BY DEF FleetInv, PoolInv, PoolHasServers
  <2> QED
    BY <1>1, <2>1, <2>2 DEF PoolHasServers
<1> QED
  BY <1>1, <1>2, <1>3 DEF FleetInv, PoolInv

(* Looking at the pool and at the control file.                            *)
LEMMA LookingKeeps ==
    ASSUME FleetInv, Cycle \/ Look \/ ReadControl
    PROVE  FleetInv'
<1>1. UNCHANGED <<pool, account, _spawn_seq>> /\ cpc = "idle" /\ cpc' \in {"idle", "credit"}
  BY DEF Cycle, Look, ReadControl, fleet, fleetWorkers
<1>2. PoolInv'
  BY <1>1, PoolKept
<1>3. CASE Cycle
  <2>1. UNCHANGED <<cpc, task, goal, servers>> /\ goal = NoGoal
    BY <1>3 DEF Cycle, account
  <2> QED
    BY <1>1, <1>2, <2>1 DEF FleetInv, CycleInv, GoalInv, Providing
<1>4. CASE Look
  <2>1. goal = NoGoal /\ goal' = goal
    BY <1>4 DEF Look
  <2>2. \/ cpc' = "idle" /\ task' = task
        \/ cpc' = "credit" /\ task' \in pool \cap Managed
    BY <1>1, <1>4 DEF Look, degraded
  <2>3. cpc' = "credit" => task' # NoWorker
    BY <1>1, <2>2, FleetSettings
  <2> QED
    BY <1>1, <1>2, <2>1, <2>2, <2>3 DEF FleetInv, CycleInv, GoalInv, Providing
<1>5. CASE ReadControl
  <2>1. UNCHANGED <<cpc, task, toVisit>> /\ toVisit = {} /\ goal' \in ScaleMin..ScaleMax
    BY <1>5 DEF ReadControl
  <2> QED
    BY <1>1, <1>2, <2>1 DEF FleetInv, CycleInv, GoalInv, Providing
<1> QED
  BY <1>3, <1>4, <1>5

(* Scaling takes no more than is over the goal.                            *)
LEMMA ScaleKeeps ==
    ASSUME FleetInv, Scale
    PROVE  FleetInv'
<1>1. UNCHANGED <<pool, account, _spawn_seq, task>> /\ cpc = "idle" /\ goal # NoGoal /\ toVisit = {}
  BY DEF Scale, fleet, fleetWorkers
<1>2. PoolInv'
  BY <1>1, PoolKept
<1>3. CASE Cardinality(pool) < goal /\ cpc' = "credit" /\ UNCHANGED <<toVisit, goal>>
  BY <1>1, <1>2, <1>3 DEF FleetInv, CycleInv, GoalInv, Providing
<1>4. ASSUME NEW S \in SUBSET removable, Cardinality(pool) > goal, UNCHANGED <<cpc, goal>>, toVisit' = S,
             Cardinality(S) = Min({Cardinality(pool) - goal, Cardinality(removable)})
      PROVE  FleetInv'
  <2> DEFINE n == Cardinality(pool)  m == Cardinality(removable)
  <2>1. n \in Nat /\ goal \in Nat
    BY PoolCount
  <2>2. removable \in SUBSET pool /\ IsFiniteSet(pool)
    BY DEF removable, FleetInv, PoolInv
  <2>3. m \in Nat
    BY <2>2, FS_Subset, FS_CardinalityType
  <2>4. Cardinality(S) <= n - goal /\ Cardinality(S) \in Nat
    <3> HIDE DEF n, m
    <3>1. n - goal \in Int /\ m \in Int
      BY <2>1, <2>3
    <3>2. Min({n - goal, m}) = IF n - goal <= m THEN n - goal ELSE m
      BY <3>1, MinOfTwo
    <3>3. Cardinality(S) = Min({n - goal, m})
      BY <1>4 DEF n, m
    <3>4. n > goal
      BY <1>4 DEF n
    <3> QED
      BY <2>1, <2>3, <3>2, <3>3, <3>4
  <2>5. goal + Cardinality(S) <= n
    <3> DEFINE s == Cardinality(S)
    <3> HIDE DEF n, s
    <3> QED
      BY <2>1, <2>4 DEF s
  <2>6. removable' = removable
    BY <1>1 DEF removable
  <2> QED
    BY <1>1, <1>2, <1>4, <2>5, <2>6 DEF FleetInv, CycleInv, GoalInv, Providing
<1>5. CASE goal' = NoGoal /\ UNCHANGED <<cpc, toVisit>>
  BY <1>1, <1>2, <1>5 DEF FleetInv, CycleInv, GoalInv, Providing
<1> QED
  BY <1>3, <1>4, <1>5 DEF Scale

(* A worker that leaves is one too many, and one of those that may leave.  *)
LEMMA ShrinkKeeps ==
    ASSUME FleetInv, Shrink
    PROVE  FleetInv'
<1>1. PICK w \in toVisit : toVisit' = toVisit \ {w} /\ task' = w /\ pool' = pool \ {w}
  BY DEF Shrink
<1>2. cpc = "idle" /\ cpc' = "stop" /\ goal # NoGoal /\ UNCHANGED <<goal, _spawn_seq, servers, inventory, strays>>
  BY DEF Shrink, account
<1>3. toVisit \subseteq removable /\ goal + Cardinality(toVisit) <= Cardinality(pool)
  BY <1>1, <1>2 DEF FleetInv, GoalInv
<1>4. w \in pool /\ w \in Managed /\ w \in Names /\ w # NoWorker
  BY <1>1, <1>3, FleetSettings DEF removable
<1>5. IsFiniteSet(pool) /\ IsFiniteSet(toVisit)
  <2>1. toVisit \in SUBSET pool
    BY <1>3 DEF removable
  <2> QED
    BY <2>1, FS_Subset DEF FleetInv, PoolInv
<1>6. /\ IsFiniteSet(pool') /\ Cardinality(pool') = Cardinality(pool) - 1
      /\ Cardinality(toVisit') = Cardinality(toVisit) - 1
      /\ Cardinality(toVisit) \in Nat /\ Cardinality(toVisit') \in Nat
  <2>1. IsFiniteSet(pool \ {w}) /\ Cardinality(pool \ {w}) = Cardinality(pool) - 1
    BY <1>4, <1>5, FS_RemoveElement
  <2>2. IsFiniteSet(toVisit \ {w}) /\ Cardinality(toVisit \ {w}) = Cardinality(toVisit) - 1
    BY <1>1, <1>5, FS_RemoveElement
  <2> QED
    BY <1>1, <1>5, <2>1, <2>2, FS_CardinalityType
<1>7. Cardinality(pool') \in ScaleMin..ScaleMax /\ goal + Cardinality(toVisit') <= Cardinality(pool')
  <2> DEFINE n == Cardinality(pool)  m == Cardinality(pool')
             a == Cardinality(toVisit)  b == Cardinality(toVisit')
  <2>1. n \in ScaleMin..ScaleMax /\ goal \in ScaleMin..ScaleMax /\ ScaleMin \in Nat /\ ScaleMax \in Nat
    BY <1>2, PoolCount, FleetSettings DEF FleetInv, CycleInv
  <2>2. a \in Nat /\ b \in Nat /\ m = n - 1 /\ b = a - 1 /\ goal + a <= n
    BY <1>3, <1>6
  <2> HIDE DEF n, m, a, b
  <2>3. m \in ScaleMin..ScaleMax /\ goal + b <= m
    BY <2>1, <2>2
  <2> QED
    BY <2>3 DEF m, b
<1>8. PoolInv'
  <2>1. pool' \subseteq Names /\ Unused' = Unused /\ pool' \cap Unused = {}
    BY <1>1, <1>2 DEF FleetInv, PoolInv, Unused
  <2>2. pool \subseteq servers /\ InitialPool \ Managed \subseteq pool /\ servers \subseteq inventory \cup strays
    BY <1>2 DEF FleetInv, PoolInv, PoolHasServers
  <2>3. PoolHasServers'
    BY <1>1, <1>2, <1>4, <2>2 DEF PoolHasServers
  <2> QED
    BY <1>6, <1>7, <2>1, <2>3 DEF PoolInv, PoolBounded
<1>9. CycleInv'
  BY <1>1, <1>2, <1>4 DEF FleetInv, CycleInv, Providing
<1>10. toVisit' \subseteq removable'
  BY <1>1, <1>3 DEF removable
<1>11. GoalInv'
  BY <1>2, <1>7, <1>10 DEF GoalInv, Providing
<1> QED
  BY <1>8, <1>9, <1>11 DEF FleetInv

(* Where the supervisor is after a cycle that ended early.                 *)
LEMMA CycleOver ==
    ASSUME FleetInv, PoolInv', cycleEnds, _spawn_seq' \in 0..Len(Spawned)
    PROVE  FleetInv'
<1>1. cpc' = "idle" /\ task' = NoWorker /\ toVisit' = {} /\ goal' = NoGoal
  BY DEF cycleEnds
<1>2. CycleInv' /\ GoalInv'
  BY <1>1 DEF CycleInv, GoalInv, Providing
<1> QED
  BY <1>2 DEF FleetInv

LEMMA CheckCreditKeeps ==
    ASSUME FleetInv, CheckCredit
    PROVE  FleetInv'
<1>1. UNCHANGED <<pool, account, _spawn_seq, servers>> /\ cpc = "credit"
  BY DEF CheckCredit, account
<1>2. PoolInv'
  BY <1>1, PoolKept
<1>3. _spawn_seq' \in 0..Len(Spawned) /\ removable' = removable
  BY <1>1 DEF FleetInv, CycleInv, removable
<1>4. CASE cpc' = "create" /\ UNCHANGED <<task, toVisit, goal>>
  BY <1>1, <1>2, <1>3, <1>4 DEF FleetInv, CycleInv, GoalInv, Providing
<1>5. CASE /\ cpc' = "idle" /\ task' = NoWorker /\ UNCHANGED toVisit
           /\ goal' = IF task = NoWorker THEN NoGoal ELSE goal
  <2>1. goal' = NoGoal
    BY <1>1, <1>5 DEF FleetInv, GoalInv, Providing
  <2> QED
    BY <1>2, <1>3, <1>5, <2>1 DEF FleetInv, CycleInv, GoalInv, Providing
<1>6. CASE cycleEnds
  BY <1>2, <1>3, <1>6, CycleOver
<1> QED
  BY <1>4, <1>5, <1>6 DEF CheckCredit

(* A spawn that fails with the pool as it was.                             *)
LEMMA FailedSpawn ==
    ASSUME FleetInv, PoolInv', spawnFails, cpc \in Providing, _spawn_seq' \in 0..Len(Spawned)
    PROVE  FleetInv'
<1>1. CASE task # NoWorker /\ cpc' = "idle" /\ task' = NoWorker /\ UNCHANGED <<toVisit, goal>>
  <2>1. goal' = NoGoal
    BY <1>1 DEF FleetInv, GoalInv
  <2>2. CycleInv' /\ GoalInv'
    BY <1>1, <2>1 DEF CycleInv, GoalInv, Providing
  <2> QED
    BY <2>2 DEF FleetInv
<1>2. CASE cycleEnds
  BY <1>2, CycleOver
<1> QED
  BY <1>1, <1>2 DEF spawnFails

(* Only an unused name leaves the list of them.                            *)
LEMMA NextName ==
    ASSUME FleetInv, _spawn_seq < Len(Spawned), _spawn_seq' = _spawn_seq + 1
    PROVE  /\ _spawn_seq' \in 1..Len(Spawned) /\ newcomer' \in Unused /\ newcomer' \in Names
           /\ Unused' \subseteq Unused
<1>1. _spawn_seq \in Nat /\ Len(Spawned) \in Nat
  BY PoolCount, FleetSettings
<1> DEFINE k == _spawn_seq'
<1>2. k \in 1..Len(Spawned) /\ k = _spawn_seq + 1
  BY <1>1
<1>3. newcomer' = Spawned[k] /\ Unused' = {Spawned[i] : i \in (k + 1)..Len(Spawned)}
  BY DEF newcomer, Unused
<1> HIDE DEF k
<1>4. k \in (_spawn_seq + 1)..Len(Spawned) /\ (k + 1)..Len(Spawned) \subseteq (_spawn_seq + 1)..Len(Spawned)
  BY <1>1, <1>2
<1>5. Spawned[k] \in Managed
  BY <1>2, FleetSettings
<1> QED
  BY <1>2, <1>3, <1>4, <1>5, FleetSettings DEF Unused, k

LEMMA CreateServerKeeps ==
    ASSUME FleetInv, CreateServer
    PROVE  FleetInv'
<1>1. cpc = "create" /\ _spawn_seq < Len(Spawned) /\ _spawn_seq' = _spawn_seq + 1
      /\ UNCHANGED <<pool, inventory>> /\ newcomer' = Spawned[_spawn_seq']
  BY DEF CreateServer, newcomer
<1>2. /\ _spawn_seq' \in 1..Len(Spawned) /\ newcomer' \in Unused /\ newcomer' \in Names
      /\ Unused' \subseteq Unused
  BY <1>1, NextName
<1>3. /\ IsFiniteSet(pool) /\ pool \subseteq Names /\ pool \cap Unused = {} /\ PoolBounded
      /\ pool \subseteq servers /\ InitialPool \ Managed \subseteq pool /\ servers \subseteq inventory \cup strays
  BY <1>1 DEF FleetInv, PoolInv, PoolHasServers
<1>4. pool' \cap Unused' = {} /\ PoolBounded' /\ newcomer' \notin pool
  BY <1>1, <1>2, <1>3 DEF PoolBounded
<1>5. _spawn_seq' \in 0..Len(Spawned) /\ _spawn_seq' > 0 /\ removable' = removable
  BY <1>1, <1>2, FleetSettings DEF removable
<1>6. CASE /\ cpc' = "active" /\ servers' = servers \cup {newcomer'}
           /\ UNCHANGED <<task, toVisit, goal, strays>>
  <2>1. PoolInv'
    BY <1>1, <1>3, <1>4, <1>6 DEF PoolInv, PoolHasServers
  <2>2. CycleInv'
    BY <1>1, <1>4, <1>5, <1>6 DEF FleetInv, CycleInv, Providing
  <2>3. GoalInv'
    BY <1>1, <1>5, <1>6 DEF FleetInv, GoalInv, Providing
  <2> QED
    BY <2>1, <2>2, <2>3 DEF FleetInv
<1>7. CASE /\ spawnFails
           /\ \/ UNCHANGED <<servers, strays>>
              \/ servers' = servers \cup {newcomer'} /\ strays' = strays \cup {newcomer'}
  <2>1. servers \subseteq servers' /\ servers' \subseteq inventory' \cup strays'
    BY <1>1, <1>3, <1>7
  <2>2. PoolInv'
    BY <1>1, <1>3, <1>4, <2>1 DEF PoolInv, PoolHasServers
  <2> QED
    BY <1>1, <1>5, <1>7, <2>2, FailedSpawn DEF Providing
<1> QED
  BY <1>1, <1>6, <1>7 DEF CreateServer

LEMMA WaitActiveKeeps ==
    ASSUME FleetInv, WaitActive
    PROVE  FleetInv'
<1>1. cpc = "active" /\ UNCHANGED <<_spawn_seq, pool, servers, inventory>>
  BY DEF WaitActive
<1>2. newcomer' = newcomer /\ Unused' = Unused /\ removable' = removable /\ _spawn_seq' \in 0..Len(Spawned)
  BY <1>1 DEF newcomer, Unused, removable, FleetInv, CycleInv
<1>3. /\ IsFiniteSet(pool) /\ pool \subseteq Names /\ pool \cap Unused = {} /\ PoolBounded
      /\ pool \subseteq servers /\ InitialPool \ Managed \subseteq pool
      /\ servers \subseteq inventory \cup strays \cup {newcomer}
  BY <1>1 DEF FleetInv, PoolInv, PoolHasServers
<1>4. PoolBounded'
  BY <1>1, <1>3 DEF PoolBounded
<1>5. CASE cpc' = "tunnel" /\ UNCHANGED <<task, toVisit, goal, strays>>
  <2>1. PoolInv'
    BY <1>1, <1>2, <1>3, <1>4, <1>5 DEF PoolInv, PoolHasServers
  <2>2. CycleInv' /\ GoalInv'
    BY <1>1, <1>2, <1>5 DEF FleetInv, CycleInv, GoalInv, Providing
  <2> QED
    BY <2>1, <2>2 DEF FleetInv
<1>6. CASE spawnFails /\ strays' = strays \cup {newcomer}
  <2>1. servers' \subseteq inventory' \cup strays'
    BY <1>1, <1>3, <1>6
  <2>2. PoolInv'
    BY <1>1, <1>2, <1>3, <1>4, <2>1 DEF PoolInv, PoolHasServers
  <2> QED
    BY <1>1, <1>2, <1>6, <2>2, FailedSpawn DEF Providing
<1> QED
  BY <1>5, <1>6 DEF WaitActive

(* A newcomer takes the place of the old worker, or one that is short.     *)
LEMMA MakeWorkerKeeps ==
    ASSUME FleetInv, MakeWorker
    PROVE  FleetInv'
<1>1. cpc = "tunnel" /\ UNCHANGED <<_spawn_seq, servers>>
  BY DEF MakeWorker
<1>2. newcomer' = newcomer /\ Unused' = Unused /\ _spawn_seq' \in 0..Len(Spawned)
  BY <1>1 DEF newcomer, Unused, FleetInv, CycleInv
<1>3. /\ IsFiniteSet(pool) /\ pool \subseteq Names /\ pool \cap Unused = {} /\ PoolBounded
      /\ pool \subseteq servers /\ InitialPool \ Managed \subseteq pool
      /\ servers \subseteq inventory \cup strays \cup {newcomer}
  BY <1>1 DEF FleetInv, PoolInv, PoolHasServers
<1>4. CASE swapIn
  <2>1. /\ pool' = (pool \cup {newcomer}) \ {task} /\ inventory' = inventory \cup {newcomer}
        /\ UNCHANGED <<task, toVisit, goal, strays>>
        /\ cpc' = IF task # NoWorker THEN "stop" ELSE "idle"
    BY <1>4 DEF swapIn
  <2>2. newcomer \in servers /\ newcomer \notin pool /\ _spawn_seq \in 1..Len(Spawned)
    BY <1>1, FleetSettings DEF FleetInv, CycleInv
  <2>3. newcomer \in Managed /\ newcomer \in Names /\ newcomer # NoWorker /\ newcomer \notin Unused
    <3>1. newcomer = Spawned[_spawn_seq] /\ \A i \in (_spawn_seq + 1)..Len(Spawned) :
                                             i \in 1..Len(Spawned) /\ i # _spawn_seq
      BY <2>2, FleetSettings DEF newcomer
    <3> QED
      BY <2>2, <3>1, FleetSettings DEF Unused
  <2>4. IsFiniteSet(pool \cup {newcomer}) /\ Cardinality(pool \cup {newcomer}) = Cardinality(pool) + 1
    BY <1>3, <2>2, FS_AddElement
  <2>5. IsFiniteSet(pool') /\ Cardinality(pool') \in ScaleMin..ScaleMax
    <3> DEFINE n == Cardinality(pool)  m == Cardinality(pool')  q == pool \cup {newcomer}
    <3>1. IsFiniteSet(q) /\ Cardinality(q) = n + 1 /\ pool' = q \ {task}
      BY <2>1, <2>4
    <3>2. n \in ScaleMin..ScaleMax /\ ScaleMin \in Nat /\ ScaleMax \in Nat
      BY PoolCount, FleetSettings
    <3>3. CASE task # NoWorker
      <4>1. task \in q
        BY <1>1, <3>3 DEF FleetInv, CycleInv, Providing
      <4> HIDE DEF q
      <4>2. IsFiniteSet(q \ {task}) /\ Cardinality(q \ {task}) = Cardinality(q) - 1
        BY <3>1, <4>1, FS_RemoveElement
      <4>3. IsFiniteSet(pool') /\ m = (n + 1) - 1
        BY <3>1, <4>2
      <4> HIDE DEF n, m
      <4>4. m \in ScaleMin..ScaleMax
        BY <3>2, <4>3
      <4> QED
        BY <4>3, <4>4 DEF m
    <3>4. CASE task = NoWorker
      <4>1. task \notin q
        BY <1>3, <2>3, <3>4, FleetSettings
      <4>2. n < goal /\ goal \in ScaleMin..ScaleMax
        BY <1>1, <3>4 DEF FleetInv, CycleInv, GoalInv, Providing
      <4> HIDE DEF q
      <4>3. pool' = q
        BY <3>1, <4>1
      <4>4. IsFiniteSet(pool') /\ m = n + 1
        BY <3>1, <4>3
      <4> HIDE DEF n, m
      <4>5. m \in ScaleMin..ScaleMax
        BY <3>2, <4>2, <4>4
      <4> QED
        BY <4>4, <4>5 DEF m
    <3> QED
      BY <3>3, <3>4
  <2>6. task = NoWorker \/ task \in pool \cap Managed
    BY <1>1 DEF FleetInv, CycleInv, Providing
  <2>7. PoolInv'
    <3>1. pool' \subseteq Names /\ pool' \cap Unused' = {}
      BY <1>2, <1>3, <2>1, <2>3
    <3>2. pool' \subseteq servers' /\ servers' \subseteq inventory' \cup strays'
      BY <1>1, <1>3, <2>1, <2>2
    <3>3. InitialPool \ Managed \subseteq pool'
      BY <1>3, <2>1, <2>6, FleetSettings
    <3> QED
      BY <2>5, <3>1, <3>2, <3>3 DEF PoolInv, PoolBounded, PoolHasServers
  <2>8. CycleInv'
    <3>1. task # NoWorker => task \in Names \ pool'
      BY <1>3, <2>1, <2>6
    <3> QED
      BY <1>2, <2>1, <3>1 DEF FleetInv, CycleInv, Providing
  <2>9. GoalInv'
    <3>1. goal = NoGoal \/ toVisit = {}
      BY <1>1 DEF FleetInv, GoalInv, Providing
    <3> QED
      BY <2>1, <3>1 DEF GoalInv, Providing
  <2> QED
    BY <2>7, <2>8, <2>9 DEF FleetInv
<1>5. CASE cycleEnds /\ strays' = strays \cup {newcomer} /\ UNCHANGED <<pool, inventory>>
  <2>1. PoolBounded'
    BY <1>3, <1>5 DEF PoolBounded
  <2>2. servers' \subseteq inventory' \cup strays'
    BY <1>1, <1>3, <1>5
  <2>3. PoolInv'
    BY <1>1, <1>2, <1>3, <1>5, <2>1, <2>2 DEF PoolInv, PoolHasServers
  <2> QED
    BY <1>2, <1>5, <2>3, CycleOver
<1> QED
  BY <1>4, <1>5 DEF MakeWorker

(* What has left the pool is stopped, and its server deleted or given up.  *)
LEMMA LeaversKeep ==
    ASSUME FleetInv, StopTunnel \/ DeleteServer
    PROVE  FleetInv'
<1>1. CASE StopTunnel
  <2>1. /\ UNCHANGED <<pool, account, _spawn_seq, servers, task, toVisit, goal>>
        /\ cpc = "stop" /\ cpc' = "delete"
    BY <1>1 DEF StopTunnel, account
  <2>2. PoolInv'
    BY <2>1, PoolKept
  <2>3. removable' = removable
    BY <2>1 DEF removable
  <2> QED
    BY <2>1, <2>2, <2>3 DEF FleetInv, CycleInv, GoalInv, Providing
<1>2. CASE DeleteServer
  <2>1. cpc = "delete" /\ cpc' = "idle" /\ UNCHANGED <<_spawn_seq, pool>> /\ task \in Names \ pool
    BY <1>2 DEF DeleteServer, cycleEnds, fleet, fleetWorkers, FleetInv, CycleInv
  <2>2. /\ pool \subseteq servers /\ InitialPool \ Managed \subseteq pool
        /\ servers \subseteq inventory \cup strays
    BY <2>1 DEF FleetInv, PoolInv, PoolHasServers
  <2>3. \/ /\ servers' = servers \ {task} \/ (strays' = strays \cup {task} /\ servers' = servers)
           /\ strays' = strays \/ strays' = strays \cup {task}
           /\ inventory' = inventory \ {task}
        \/ servers' \in {servers, servers \ {task}} /\ inventory' = inventory /\ strays' = strays
    BY <1>2 DEF DeleteServer
  <2>4. pool \subseteq servers' /\ servers' \subseteq inventory' \cup strays'
    BY <2>1, <2>2, <2>3
  <2>5. Unused' = Unused /\ removable' = removable /\ PoolBounded'
    BY <2>1 DEF Unused, removable, FleetInv, PoolInv, PoolBounded
  <2>6. PoolInv'
    BY <2>1, <2>2, <2>4, <2>5 DEF FleetInv, PoolInv, PoolHasServers
  <2>7. CASE task' = NoWorker /\ UNCHANGED <<toVisit, goal>>
    BY <2>1, <2>5, <2>6, <2>7 DEF FleetInv, CycleInv, GoalInv, Providing
  <2>8. CASE cycleEnds
    BY <2>1, <2>6, <2>8, CycleOver DEF FleetInv, CycleInv
  <2> QED
    BY <1>2, <2>7, <2>8 DEF DeleteServer
<1> QED
  BY <1>1, <1>2

(* Probes, time and tunnels leave the pool and the supervisor alone.       *)
LEMMA ProbesKeep ==
    ASSUME FleetInv, UNCHANGED supervisor, FleetNext \/ UNCHANGED fleet
    PROVE  FleetInv'
<1>1. pool' = pool
  <2>1. ASSUME NEW r \in Recipients, Verify(r) PROVE pool' = pool
    BY <2>1 DEF Verify, Arrive, PassGate, Pick, NobodyLeft, OutcomeStored, Reroute, Probed, fleetWorkers
  <2> QED
    BY <2>1 DEF FleetNext, Minute, TunnelFlaps, fleet, fleetWorkers
<1>2. UNCHANGED <<cpc, task, toVisit, goal, account, _spawn_seq, servers>>
  BY DEF supervisor, account
<1>3. PoolInv'
  BY <1>1, <1>2, PoolKept
<1>4. removable' = removable /\ newcomer' = newcomer
  BY <1>1, <1>2 DEF removable, newcomer
<1> QED
  BY <1>1, <1>2, <1>3, <1>4 DEF FleetInv, CycleInv, GoalInv

LEMMA FleetInductive == FleetInv /\ [SupervisorNext]_<<fleet, supervisor>> => FleetInv'
<1>1. FleetInv /\ UNCHANGED <<fleet, supervisor>> => FleetInv'
  BY ProbesKeep
<1>2. FleetInv /\ SupervisorStep => FleetInv'
  BY LookingKeeps, ScaleKeeps, ShrinkKeeps, CheckCreditKeeps, CreateServerKeeps, WaitActiveKeeps,
     MakeWorkerKeeps, LeaversKeep DEF SupervisorStep
<1> QED
  BY <1>1, <1>2, ProbesKeep DEF SupervisorNext

LEMMA FleetInitially == FleetInit /\ SupervisorInit => FleetInv
<1> SUFFICES ASSUME FleetInit, SupervisorInit PROVE FleetInv
  OBVIOUS
<1>1. /\ pool = InitialPool /\ cpc = "idle" /\ task = NoWorker /\ goal = NoGoal /\ _spawn_seq = 0
      /\ servers = InitialPool /\ inventory = InitialPool /\ toVisit = {}
  BY DEF FleetInit, SupervisorInit
<1>2. Unused \cap InitialPool = {}
  BY <1>1, FleetSettings DEF Unused
<1>3. PoolInv
  BY <1>1, <1>2, FleetSettings DEF PoolInv, PoolBounded, PoolHasServers
<1>4. CycleInv /\ GoalInv
  BY <1>1, FleetSettings DEF CycleInv, GoalInv, Providing
<1> QED
  BY <1>3, <1>4 DEF FleetInv

(* Whatever fails on the way, replacing and scaling never take the pool    *)
(* out of its bounds, for any fleet, any bounds and any number of spawns   *)
(* (control.py, _replace and scale_to).                                    *)
THEOREM PoolSizeTheorem == SupervisorSpec => []PoolBounded
<1>1. FleetInv => PoolBounded
  BY DEF FleetInv, PoolInv
<1> QED
  BY <1>1, FleetInitially, FleetInductive, PTL DEF SupervisorSpec

(* Every worker of the pool has a server, unmanaged ones never leave, and  *)
(* no server is billed that nobody knows of: one is in the inventory, in   *)
(* the supervisor's hands or in the log, whichever call to the cloud       *)
(* fails, and however (control.py, provisioner.py).                        *)
THEOREM ServersTheorem == SupervisorSpec => []PoolHasServers
<1>1. FleetInv => PoolHasServers
  BY DEF FleetInv, PoolInv
<1> QED
  BY <1>1, FleetInitially, FleetInductive, PTL DEF SupervisorSpec

-----------------------------------------------------------------------------
(* What is kept of a list                                                  *)

(* Places before one another are counted differently.                      *)
LEMMA PlacesCount ==
    ASSUME NEW n \in Nat, NEW P \in SUBSET (1..n)
    PROVE  /\ IsFiniteSet(P) /\ Cardinality(P) \in Nat
           /\ \A i \in P : upTo(P, i) \in 1..Cardinality(P)
           /\ \A i, k \in P : upTo(P, i) = upTo(P, k) => i = k
           /\ \A m \in 1..Cardinality(P) : \E i \in P : upTo(P, i) = m
<1>1. IsFiniteSet(1..n)
  BY FS_Interval
<1>2. \A Q \in SUBSET P : IsFiniteSet(Q) /\ Cardinality(Q) \in Nat
  BY <1>1, FS_Subset, FS_CardinalityType
<1>3. IsFiniteSet(P) /\ Cardinality(P) \in Nat
  BY <1>2
<1>4. ASSUME NEW i \in P PROVE upTo(P, i) \in 1..Cardinality(P)
  <2> DEFINE Q == {j \in P : j <= i}  m == Cardinality(Q)  c == Cardinality(P)
  <2>1. Q \in SUBSET P /\ i \in Q
    OBVIOUS
  <2>2. m \in Nat /\ m <= c /\ m # 0
    <3> HIDE DEF Q
    <3>1. m \in Nat /\ m <= c
      BY <1>2, <1>3, <2>1, FS_Subset
    <3>2. m # 0
      BY <1>2, <2>1, FS_EmptySet
    <3> QED
      BY <3>1, <3>2
  <2> HIDE DEF m, c
  <2>3. m \in 1..c
    BY <1>3, <2>2 DEF c
  <2> QED
    BY <2>3 DEF upTo, m, c
<1>5. ASSUME NEW i \in P, NEW k \in P, i < k PROVE upTo(P, i) # upTo(P, k)
  <2> DEFINE Q == {j \in P : j <= i}  S == {j \in P : j <= k}
  <2>1. i \in Int /\ k \in Int /\ \A j \in P : j \in Int
    OBVIOUS
  <2>2. Q \in SUBSET S /\ S \in SUBSET P
    <3>1. \A j \in P : j <= i => j <= k
      BY <1>5, <2>1
    <3> QED
      BY <3>1
  <2>4. k \in S /\ k \notin Q
    BY <1>5, <2>1
  <2>3. Cardinality(Q) # Cardinality(S)
    <3> HIDE DEF Q, S
    <3> QED
      BY <1>2, <2>2, <2>4, FS_Subset
  <2> QED
    BY <2>3 DEF upTo
<1>6. ASSUME NEW i \in P, NEW k \in P, upTo(P, i) = upTo(P, k) PROVE i = k
  <2>1. i \in Int /\ k \in Int
    OBVIOUS
  <2>2. i < k \/ k < i \/ i = k
    BY <2>1
  <2> QED
    BY <1>5, <1>6, <2>2
<1>7. ASSUME NEW m \in 1..Cardinality(P) PROVE \E i \in P : upTo(P, i) = m
  <2> SUFFICES ASSUME \A i \in P : upTo(P, i) # m PROVE FALSE
    OBVIOUS
  <2> DEFINE c == Cardinality(P)  T == (1..c) \ {m}  f == [i \in P |-> upTo(P, i)]
  <2>1. c \in Nat /\ m \in 1..c
    BY <1>3
  <2>2. IsFiniteSet(1..c) /\ Cardinality(1..c) = c
    <3> HIDE DEF c
    <3>1. 1 \in Int /\ c \in Int /\ c >= 1
      BY <2>1
    <3>2. /\ IsFiniteSet(1..c)
          /\ Cardinality(1..c) = IF 1 > c THEN 0 ELSE c - 1 + 1
      BY <3>1, FS_Interval
    <3> QED
      BY <3>1, <3>2
  <2>3. IsFiniteSet(T) /\ Cardinality(T) = c - 1
    <3> HIDE DEF c
    <3> QED
      BY <2>1, <2>2, FS_RemoveElement
  <2>4. f \in [P -> T]
    BY <1>4
  <2>5. Cardinality(T) < Cardinality(P)
    <3> DEFINE t == Cardinality(T)
    <3> HIDE DEF c, t
    <3>1. t < c
      BY <2>1, <2>3 DEF t
    <3> QED
      BY <3>1 DEF c, t
  <2>6. \E x, y \in P : x # y /\ f[x] = f[y]
    <3> HIDE DEF f, T
    <3> QED
      BY <1>3, <2>3, <2>4, <2>5, FS_PigeonHole
  <2> QED
    BY <1>6, <2>6
<1> QED
  BY <1>3, <1>4, <1>6, <1>7

(* What is kept of a sequence is a sequence of what is there, each once.   *)
LEMMA AtPlaces ==
    ASSUME NEW S, NEW s \in Seq(S), NEW P \in SUBSET DOMAIN s
    PROVE  /\ At(s, P) \in Seq(S) /\ ToSet(At(s, P)) = {s[i] : i \in P}
           /\ \A k, l \in DOMAIN At(s, P) : k # l =>
                 \E i, j \in P : i # j /\ s[i] = At(s, P)[k] /\ s[j] = At(s, P)[l]
<1> DEFINE nth(k) == CHOOSE i \in P : upTo(P, i) = k
           c == Cardinality(P)
<1>1. DOMAIN s = 1..Len(s) /\ Len(s) \in Nat /\ \A i \in DOMAIN s : s[i] \in S
  OBVIOUS
<1>2. At(s, P) = [k \in 1..c |-> s[nth(k)]]
  BY DEF At
<1>3. /\ c \in Nat
      /\ \A i \in P : upTo(P, i) \in 1..c
      /\ \A i, k \in P : upTo(P, i) = upTo(P, k) => i = k
      /\ \A m \in 1..c : \E i \in P : upTo(P, i) = m
  BY <1>1, PlacesCount
<1>4. \A m \in 1..c : nth(m) \in P /\ upTo(P, nth(m)) = m
  BY <1>3
<1>5. \A i \in P : \E k \in 1..c : nth(k) = i
  BY <1>3, <1>4
<1>6. \A k \in 1..c : s[nth(k)] \in S
  BY <1>1, <1>4
<1>7. \A k, l \in 1..c : k # l => nth(k) # nth(l)
  BY <1>4
<1> HIDE DEF c, nth
<1>8. At(s, P) \in Seq(S)
  BY <1>2, <1>3, <1>6
<1>9. ToSet(At(s, P)) = {s[i] : i \in P}
  BY <1>2, <1>4, <1>5 DEF ToSet
<1>10. ASSUME NEW k \in DOMAIN At(s, P), NEW l \in DOMAIN At(s, P), k # l
       PROVE  \E i, j \in P : i # j /\ s[i] = At(s, P)[k] /\ s[j] = At(s, P)[l]
  <2>1. k \in 1..c /\ l \in 1..c
    BY <1>2
  <2>2. nth(k) \in P /\ nth(l) \in P /\ nth(k) # nth(l)
    BY <1>4, <1>7, <1>10, <2>1
  <2>3. At(s, P)[k] = s[nth(k)] /\ At(s, P)[l] = s[nth(l)]
    BY <1>2, <2>1
  <2> QED
    BY <2>2, <2>3
<1> QED
  BY <1>8, <1>9, <1>10

-----------------------------------------------------------------------------
(* The gates of the domains                                                *)

(* Every gate that is to be kept is.                                       *)
LEMMA GatesKept ==
    ASSUME gates \in Seq(Domains), NEW S
    PROVE  onlyGates(S) \in Seq(Domains) /\ ToSet(onlyGates(S)) = ToSet(gates) \cap S
<1> DEFINE P == {i \in DOMAIN gates : gates[i] \in S}
<1>1. P \in SUBSET DOMAIN gates
  OBVIOUS
<1>2. onlyGates(S) = At(gates, P)
  BY DEF onlyGates
<1>3. At(gates, P) \in Seq(Domains) /\ ToSet(At(gates, P)) = {gates[i] : i \in P}
  <2> HIDE DEF P
  <2> QED
    BY <1>1, AtPlaces
<1> QED
  BY <1>2, <1>3 DEF ToSet

Verifying == {r \in Recipients : vpc[r] \notin {"idle", "gate"}}

\* Whoever is past a gate is still in it: a gate is not evicted while it is active.
GateInv ==
    /\ gates \in Seq(Domains) /\ active \subseteq ToSet(gates)
    /\ vpc = [r \in Recipients |-> vpc[r]] /\ inside = [d \in Domains |-> inside[d]]
    /\ \A r \in Verifying : r \in inside[Domain[r]]
    /\ \A d \in Domains : IsFiniteSet(inside[d]) /\ Cardinality(inside[d]) <= DomainConcurrency

LEMMA GateSettings ==
    DomainConcurrency \in Nat /\ DomainConcurrency >= 1 /\ \A r \in Recipients : Domain[r] \in Domains
BY FleetAssumption DEF Domains

(* Where the gates stay and nobody passes one.                             *)
LEMMA GatesStay ==
    ASSUME GateInv, UNCHANGED gates, vpc' = [r \in Recipients |-> vpc'[r]],
           Verifying' \subseteq Verifying, active' \subseteq active, inside' = [d \in Domains |-> inside'[d]],
           \A d \in Domains : inside'[d] \subseteq inside[d],
           \A r \in Verifying' : r \in inside[Domain[r]] => r \in inside'[Domain[r]]
    PROVE  GateInv'
<1>1. \A d \in Domains : IsFiniteSet(inside'[d]) /\ Cardinality(inside'[d]) <= DomainConcurrency
  <2> TAKE d \in Domains
  <2> DEFINE a == Cardinality(inside[d])  b == Cardinality(inside'[d])
  <2>1. IsFiniteSet(inside[d]) /\ a <= DomainConcurrency /\ inside'[d] \in SUBSET inside[d]
    BY DEF GateInv
  <2>2. IsFiniteSet(inside'[d]) /\ b <= a /\ a \in Nat /\ b \in Nat
    BY <2>1, FS_Subset, FS_CardinalityType
  <2> HIDE DEF a, b
  <2>3. b <= DomainConcurrency
    BY <2>1, <2>2, GateSettings
  <2> QED
    BY <2>2, <2>3 DEF b
<1> QED
  BY <1>1 DEF GateInv

(* A caller who leaves its gate.                                           *)
LEMMA LeaverLeaves ==
    ASSUME GateInv, NEW r \in Recipients, Leave(r), UNCHANGED gates
    PROVE  GateInv'
<1>1. vpc' = [vpc EXCEPT ![r] = "idle"] /\ inside' = [inside EXCEPT ![Domain[r]] = @ \ {r}]
  BY DEF Leave
<1>2. vpc' = [q \in Recipients |-> IF q = r THEN "idle" ELSE vpc[q]]
  BY <1>1 DEF GateInv
<1>3. inside' = [d \in Domains |-> IF d = Domain[r] THEN inside[d] \ {r} ELSE inside[d]]
  BY <1>1, GateSettings DEF GateInv
<1>4. Verifying' \subseteq Verifying \ {r} /\ active' \subseteq active
  BY <1>2 DEF Verifying, active
<1>5. \A d \in Domains : inside'[d] \subseteq inside[d]
  BY <1>3
<1>6. \A q \in Verifying' : q \in inside[Domain[q]] => q \in inside'[Domain[q]]
  BY <1>3, <1>4, GateSettings DEF Verifying
<1> QED
  BY <1>2, <1>3, <1>4, <1>5, <1>6, GatesStay

(* A caller who goes on past its gate.                                     *)
LEMMA InsideStays ==
    ASSUME GateInv, NEW r \in Recipients, vpc[r] \notin {"idle", "gate"}, NEW pc,
           vpc' = [vpc EXCEPT ![r] = pc], UNCHANGED <<gates, inside>>
    PROVE  GateInv'
<1>1. vpc' = [q \in Recipients |-> IF q = r THEN pc ELSE vpc[q]]
  BY DEF GateInv
<1>2. Verifying' \subseteq Verifying /\ active' \subseteq active
  BY <1>1 DEF Verifying, active
<1>3. vpc' = [q \in Recipients |-> vpc'[q]] /\ inside' = [d \in Domains |-> inside'[d]]
  BY <1>1 DEF GateInv
<1> QED
  BY <1>2, <1>3, GatesStay

(* The gate a caller arrives at is the old one if anybody is about it.     *)
LEMMA ArriveKeeps ==
    ASSUME GateInv, NEW r \in Recipients, Arrive(r)
    PROVE  GateInv'
<1> DEFINE d == Domain[r]  there == d \in ToSet(gates)
           kept == IF there THEN onlyGates(ToSet(gates) \ {d})
                   ELSE IF Len(gates) >= MaxGates THEN evictIdle ELSE gates
<1>1. /\ vpc[r] = "idle" /\ vpc' = [vpc EXCEPT ![r] = "gate"] /\ gates' = Append(kept, d)
      /\ inside' = IF there THEN inside ELSE [inside EXCEPT ![d] = {}]
  BY DEF Arrive
<1>2. d \in Domains /\ gates \in Seq(Domains) /\ active \subseteq ToSet(gates)
  BY GateSettings DEF GateInv
<1>3. kept \in Seq(Domains) /\ active \subseteq ToSet(kept) \cup {d}
  <2>1. CASE there
    BY <1>2, <2>1, GatesKept
  <2>2. CASE ~there /\ Len(gates) >= MaxGates
    <3> DEFINE evicted == {i \in {i \in DOMAIN gates : gates[i] \notin active} :
                             upTo({j \in DOMAIN gates : gates[j] \notin active}, i) <= Len(gates) - MaxGates + 1}
               out == {gates[i] : i \in evicted}
    <3>1. kept = onlyGates(ToSet(gates) \ out)
      BY <2>2 DEF evictIdle
    <3>2. out \cap active = {}
      OBVIOUS
    <3> HIDE DEF out, kept
    <3> QED
      BY <1>2, <3>1, <3>2, GatesKept
  <2>3. CASE ~there /\ ~(Len(gates) >= MaxGates)
    BY <1>2, <2>3
  <2> QED
    BY <2>1, <2>2, <2>3
<1>4. gates' \in Seq(Domains) /\ ToSet(gates') = ToSet(kept) \cup {d}
  <2> HIDE DEF kept
  <2>1. gates' \in Seq(Domains) /\ Len(gates') = Len(kept) + 1 /\ Len(kept) \in Nat
        /\ gates'[Len(kept) + 1] = d /\ \A i \in 1..Len(kept) : gates'[i] = kept[i]
    BY <1>1, <1>2, <1>3
  <2>2. DOMAIN kept = 1..Len(kept) /\ DOMAIN gates' = 1..(Len(kept) + 1)
    BY <1>3, <2>1
  <2> QED
    BY <2>1, <2>2 DEF ToSet
<1>5. vpc' = [q \in Recipients |-> IF q = r THEN "gate" ELSE vpc[q]]
  BY <1>1 DEF GateInv
<1>6. Verifying' = Verifying /\ active' \subseteq active \cup {d}
  BY <1>1, <1>5 DEF Verifying, active
<1>7. /\ inside' = [e \in Domains |-> IF e = d /\ ~there THEN {} ELSE inside[e]]
      /\ ~there => \A q \in Verifying : Domain[q] # d
  <2>1. ~there => \A q \in Verifying : Domain[q] # d
    BY <1>2 DEF Verifying, active
  <2>2. inside' = [e \in Domains |-> IF e = d /\ ~there THEN {} ELSE inside[e]]
    BY <1>1, <1>2 DEF GateInv
  <2> QED
    BY <2>1, <2>2
<1>8. \A q \in Verifying : q \in inside'[Domain[q]]
  <2> TAKE q \in Verifying
  <2>1. q \in inside[Domain[q]] /\ Domain[q] \in Domains
    BY GateSettings DEF GateInv, Verifying
  <2> QED
    BY <1>7, <2>1
<1>9. \A e \in Domains : IsFiniteSet(inside'[e]) /\ Cardinality(inside'[e]) <= DomainConcurrency
  <2>1. IsFiniteSet({}) /\ Cardinality({}) = 0 /\ 0 <= DomainConcurrency
    BY FS_EmptySet, GateSettings
  <2> QED
    BY <1>7, <2>1 DEF GateInv
<1>10. vpc' = [q \in Recipients |-> vpc'[q]] /\ inside' = [e \in Domains |-> inside'[e]]
  BY <1>5, <1>7
<1>11. active' \subseteq ToSet(gates')
  <2> HIDE DEF kept
  <2> QED
    BY <1>3, <1>4, <1>6
<1> QED
  BY <1>4, <1>6, <1>8, <1>9, <1>10, <1>11 DEF GateInv

LEMMA PassGateKeeps ==
    ASSUME GateInv, NEW r \in Recipients, PassGate(r)
    PROVE  GateInv'
<1> DEFINE d == Domain[r]
<1>1. /\ vpc[r] = "gate" /\ vpc' = [vpc EXCEPT ![r] = "pick"] /\ UNCHANGED gates
      /\ Cardinality(inside[d]) < DomainConcurrency /\ inside' = [inside EXCEPT ![d] = @ \cup {r}]
  BY DEF PassGate
<1>2. vpc' = [q \in Recipients |-> IF q = r THEN "pick" ELSE vpc[q]]
  BY <1>1 DEF GateInv
<1>3. d \in Domains /\ inside' = [e \in Domains |-> IF e = d THEN inside[e] \cup {r} ELSE inside[e]]
  BY <1>1, GateSettings DEF GateInv
<1>4. Verifying' = Verifying \cup {r} /\ active' \subseteq active
  BY <1>1, <1>2 DEF Verifying, active
<1>5. IsFiniteSet(inside'[d]) /\ Cardinality(inside'[d]) <= DomainConcurrency
  <2> DEFINE a == Cardinality(inside[d])  b == Cardinality(inside'[d])  S == inside[d]
  <2>1. IsFiniteSet(S) /\ inside'[d] = S \cup {r}
    BY <1>3 DEF GateInv
  <2>2. IsFiniteSet(inside'[d]) /\ (b = a \/ b = a + 1) /\ a \in Nat
    <3>1. IsFiniteSet(S \cup {r}) /\ Cardinality(S \cup {r}) = IF r \in S THEN Cardinality(S) ELSE Cardinality(S) + 1
      BY <2>1, FS_AddElement
    <3> QED
      BY <2>1, <3>1, FS_CardinalityType
  <2>3. a < DomainConcurrency
    BY <1>1
  <2> HIDE DEF a, b
  <2>4. b <= DomainConcurrency
    BY <2>2, <2>3, GateSettings
  <2> QED
    BY <2>2, <2>4 DEF b
<1>6. \A e \in Domains : IsFiniteSet(inside'[e]) /\ Cardinality(inside'[e]) <= DomainConcurrency
  BY <1>3, <1>5 DEF GateInv
<1>7. \A q \in Verifying' : q \in inside'[Domain[q]]
  BY <1>3, <1>4, GateSettings DEF GateInv, Verifying
<1>8. vpc' = [q \in Recipients |-> vpc'[q]] /\ inside' = [e \in Domains |-> inside'[e]]
  BY <1>2, <1>3
<1> QED
  BY <1>1, <1>4, <1>6, <1>7, <1>8 DEF GateInv

LEMMA GateInductive == GateInv /\ [SupervisorNext]_<<fleet, supervisor>> => GateInv'
<1> SUFFICES ASSUME GateInv, [SupervisorNext]_<<fleet, supervisor>> PROVE GateInv'
  OBVIOUS
<1>1. ASSUME UNCHANGED <<vpc, gates, inside>> PROVE GateInv'
  BY <1>1 DEF GateInv, Verifying, active
<1>2. CASE SupervisorStep \/ Minute \/ UNCHANGED <<fleet, supervisor>>
  <2>1. UNCHANGED <<vpc, gates, inside>>
    BY <1>2 DEF SupervisorStep, Cycle, Look, ReadControl, Scale, Shrink, CheckCredit, CreateServer,
                WaitActive, MakeWorker, StopTunnel, DeleteServer, inPool, fleet, fleetProbes, Minute
  <2> QED
    BY <1>1, <2>1
<1>3. ASSUME NEW w \in Names, TunnelFlaps(w) PROVE GateInv'
  BY <1>1, <1>3 DEF TunnelFlaps, fleetProbes
<1>4. ASSUME NEW r \in Recipients, Verify(r) PROVE GateInv'
  <2>1. CASE Arrive(r)
    BY <2>1, ArriveKeeps
  <2>2. CASE PassGate(r)
    BY <2>2, PassGateKeeps
  <2>3. CASE NobodyLeft(r) \/ OutcomeStored(r) \/ (Reroute(r) /\ Leave(r))
    <3>1. Leave(r) /\ UNCHANGED gates
      BY <2>3 DEF NobodyLeft, OutcomeStored, Reroute
    <3> QED
      BY <3>1, LeaverLeaves
  <2>4. CASE Pick(r) \/ (Reroute(r) /\ vpc' = [vpc EXCEPT ![r] = "pick"] /\ UNCHANGED inside)
    <3>1. vpc[r] \notin {"idle", "gate"} /\ UNCHANGED <<gates, inside>>
          /\ (vpc' = [vpc EXCEPT ![r] = "probe"] \/ vpc' = [vpc EXCEPT ![r] = "pick"])
      BY <2>4 DEF Pick, Reroute
    <3> QED
      BY <3>1, InsideStays
  <2>5. ASSUME NEW s, Probed(r, s) PROVE GateInv'
    <3>1. vpc[r] \notin {"idle", "gate"} /\ UNCHANGED <<gates, inside>>
          /\ vpc' = [vpc EXCEPT ![r] = IF s = "blocked" THEN "blocked" ELSE "stored"]
      BY <2>5 DEF Probed
    <3> QED
      BY <3>1, InsideStays
  <2> QED
    BY <1>4, <2>1, <2>2, <2>3, <2>4, <2>5 DEF Verify, Reroute
<1> QED
  BY <1>2, <1>3, <1>4 DEF SupervisorNext, FleetNext

(* No recipient domain is ever probed by more tasks than                   *)
(* domain_concurrency, for any recipients, domains and limit on the gates, *)
(* while workers come and go (manager.py:106-141).                         *)
THEOREM GateTheorem == SupervisorSpec => []DomainCapHeld
<1>1. FleetInit => GateInv
  <2> SUFFICES ASSUME FleetInit PROVE GateInv
    OBVIOUS
  <2>1. IsFiniteSet({}) /\ Cardinality({}) = 0 /\ 0 <= DomainConcurrency
    BY FS_EmptySet, GateSettings
  <2>2. gates = <<>> /\ gates \in Seq(Domains) /\ active = {} /\ Verifying = {}
    BY DEF FleetInit, active, Verifying
  <2> QED
    BY <2>1, <2>2 DEF FleetInit, GateInv
<1>2. GateInv => DomainCapHeld
  <2> SUFFICES ASSUME GateInv, NEW d \in Domains
               PROVE  Cardinality({r \in Recipients : Domain[r] = d /\ vpc[r] \notin {"idle", "gate"}})
                        <= DomainConcurrency
    BY DEF DomainCapHeld
  <2> DEFINE H == {r \in Recipients : Domain[r] = d /\ vpc[r] \notin {"idle", "gate"}}
             a == Cardinality(inside[d])  b == Cardinality(H)
  <2>1. H \in SUBSET inside[d] /\ IsFiniteSet(inside[d]) /\ a <= DomainConcurrency
    BY DEF GateInv, Verifying
  <2>2. b <= a /\ a \in Nat /\ b \in Nat
    <3> HIDE DEF H
    <3> QED
      BY <2>1, FS_Subset, FS_CardinalityType
  <2> HIDE DEF a, b
  <2>3. b <= DomainConcurrency
    BY <2>1, <2>2, GateSettings
  <2> QED
    BY <2>3 DEF b
<1> QED
  BY <1>1, <1>2, GateInductive, PTL DEF SupervisorSpec

-----------------------------------------------------------------------------
(* The pass-off watcher                                                    *)

times(s, e) == Cardinality({i \in DOMAIN s : s[i] = e})

\* An address that is only where nothing went wrong.
Sure == Emails \ (torn \cup Doubled)

appending == wpc \in {"write", "mark"}

\* What things are.
HandedTypes ==
    /\ wpc \in {"idle", "stat", "ingest", "collect", "write", "mark"}
    /\ cur \in 1..Len(Files) /\ written \in [ToSet(Files) -> Nat]
    /\ \A f \in ToSet(Files) : written[f] \in 0..Len(Results[f])
    /\ new_rows \in Seq(Emails) /\ buffer \in Seq(Emails) /\ combined \in [Emails -> Nat]
    /\ wpc = "mark" => new_rows # <<>>

\* The rows about to be appended name an address once, and none that was handed off.
RowsOnce ==
    appending => \A i \in DOMAIN new_rows : new_rows[i] \in Sure =>
                   /\ new_rows[i] \notin in_passoff
                   /\ \A j \in DOMAIN new_rows : new_rows[i] = new_rows[j] => i = j

HandedInv == HandedTypes /\ HandedOffOnce /\ RowsOnce

(* How often an address is among the rows.                                 *)
LEMMA TimesType ==
    ASSUME NEW S, NEW s \in Seq(S), NEW e
    PROVE  /\ IsFiniteSet({i \in DOMAIN s : s[i] = e}) /\ times(s, e) \in Nat
           /\ e \notin ToSet(s) => times(s, e) = 0
           /\ \A i, j \in DOMAIN s : i # j /\ s[i] = e /\ s[j] = e => times(s, e) > 1
<1> DEFINE P == {i \in DOMAIN s : s[i] = e}
<1>1. IsFiniteSet(DOMAIN s) /\ P \in SUBSET DOMAIN s
  <2>1. DOMAIN s = 1..Len(s) /\ 1 \in Int /\ Len(s) \in Int
    OBVIOUS
  <2>2. IsFiniteSet(1..Len(s))
    BY <2>1, FS_Interval
  <2> QED
    BY <2>1, <2>2
<1>2. IsFiniteSet(P) /\ Cardinality(P) \in Nat
  <2> HIDE DEF P
  <2> QED
    BY <1>1, FS_Subset, FS_CardinalityType
<1>3. e \notin ToSet(s) => Cardinality(P) = 0
  <2>1. e \notin ToSet(s) => P = {}
    BY DEF ToSet
  <2> QED
    BY <2>1, FS_EmptySet
<1>4. ASSUME NEW i \in DOMAIN s, NEW j \in DOMAIN s, i # j, s[i] = e, s[j] = e
      PROVE  Cardinality(P) > 1
  <2>1. {i, j} \in SUBSET P
    BY <1>4
  <2>2. Cardinality({i, j}) = 2
    <3>1. IsFiniteSet({}) /\ Cardinality({}) = 0
      BY FS_EmptySet
    <3>2. IsFiniteSet({i}) /\ Cardinality({i}) = 1
      BY FS_Singleton
    <3>3. Cardinality({i} \cup {j}) = Cardinality({i}) + 1
      BY <3>2, <1>4, FS_AddElement
    <3>4. {i} \cup {j} = {i, j}
      OBVIOUS
    <3>5. \A n : n = 1 => n + 1 = 2
      OBVIOUS
    <3>6. Cardinality({i} \cup {j}) = 2
      BY <3>2, <3>3, <3>5
    <3> QED
      BY <3>4, <3>6
  <2>3. Cardinality({i, j}) <= Cardinality(P)
    <3> HIDE DEF P
    <3> QED
      BY <1>2, <2>1, FS_Subset
  <2> HIDE DEF P
  <2> QED
    BY <1>2, <2>2, <2>3
<1> QED
  BY <1>2, <1>3, <1>4 DEF times

(* One more row.                                                           *)
LEMMA TimesAppend ==
    ASSUME NEW S, NEW s \in Seq(S), NEW x \in S, NEW e
    PROVE  times(Append(s, x), e) = times(s, e) + IF x = e THEN 1 ELSE 0
<1> DEFINE P == {i \in DOMAIN s : s[i] = e}
           Q == {i \in DOMAIN Append(s, x) : Append(s, x)[i] = e}
           n == Len(s) + 1
<1>1. IsFiniteSet(P) /\ Cardinality(P) \in Nat
  BY TimesType DEF times
<1>2. /\ DOMAIN s = 1..Len(s) /\ DOMAIN Append(s, x) = 1..n /\ Len(s) \in Nat
      /\ \A i \in 1..Len(s) : Append(s, x)[i] = s[i]
      /\ Append(s, x)[n] = x
  OBVIOUS
<1>3. n \notin P /\ 1..n = (1..Len(s)) \cup {n}
  BY <1>2
<1>4. Q = IF x = e THEN P \cup {n} ELSE P
  BY <1>2, <1>3
<1>5. Cardinality(P \cup {n}) = Cardinality(P) + 1
  <2> HIDE DEF P, n
  <2> QED
    BY <1>1, <1>3, FS_AddElement
<1> HIDE DEF P, Q, n
<1>6. Cardinality(Q) = Cardinality(P) + IF x = e THEN 1 ELSE 0
  BY <1>1, <1>4, <1>5
<1> QED
  BY <1>6 DEF times, P, Q

(* What is in the file, or on the way to it.                               *)
LEMMA FlushedIs ==
    flushed = [e \in Emails |-> combined[e] + times(buffer, e)]
BY DEF flushed, times

(* A flush loses nothing.                                                  *)
LEMMA FlushKeeps ==
    ASSUME buffer \in Seq(Emails), combined \in [Emails -> Nat], flush
    PROVE  /\ flushed' = flushed
           /\ buffer' \in Seq(Emails) /\ combined' \in [Emails -> Nat]
<1>1. combined' = [e \in Emails |-> combined[e] + times(buffer, e)] /\ buffer' = <<>>
  BY FlushedIs DEF flush
<1>2. \A e \in Emails : times(buffer, e) \in Nat
  BY TimesType
<1>3. combined' \in [Emails -> Nat]
  BY <1>1, <1>2
<1>4. \A e \in Emails : times(buffer', e) = 0
  <2>1. <<>> \in Seq(Emails) /\ ToSet(<<>>) = {}
    BY DEF ToSet
  <2> QED
    BY <1>1, <2>1, TimesType
<1>5. \A e \in Emails : combined'[e] + times(buffer', e) = combined'[e]
  BY <1>3, <1>4
<1>6. flushed' = [e \in Emails |-> combined'[e] + times(buffer', e)]
  BY DEF flushed, times
<1>7. flushed' = [e \in Emails |-> combined'[e]]
  BY <1>5, <1>6
<1> QED
  BY <1>1, <1>3, <1>7, FlushedIs

(* What a collect may take: rows of the file, each address as often as     *)
(* there.                                                                  *)
LEMMA CollectTakes ==
    ASSUME HandedInv, Collect
    PROVE  /\ new_rows' \in Seq(Emails)
           /\ \A i \in DOMAIN new_rows' :
                /\ new_rows'[i] \notin in_passoff
                /\ new_rows'[i] \notin Doubled =>
                     \A j \in DOMAIN new_rows' : new_rows'[i] = new_rows'[j] => i = j
<1> DEFINE R == [email : Emails, ok : BOOLEAN]
           P == {i \in DOMAIN rows : appendable(rows[i])}
           confirmed == At(rows, P)
<1>1. file \in ToSet(Files)
  BY PassoffAssumption DEF HandedInv, HandedTypes, ToSet, file
<1>2. Results[file] \in Seq(R) /\ written[file] \in 0..Len(Results[file])
  BY <1>1, PassoffAssumption DEF HandedInv, HandedTypes
<1>3. /\ rows \in Seq(R) /\ DOMAIN rows = 1..written[file]
      /\ \A i \in DOMAIN rows : i \in DOMAIN Results[file] /\ rows[i] = Results[file][i]
  <2> DEFINE F == Results[file]  n == written[file]
  <2> HIDE DEF F, n, R
  <2>1. F \in Seq(R) /\ Len(F) \in Nat /\ n \in 0..Len(F) /\ DOMAIN F = 1..Len(F)
    BY <1>2 DEF F, n
  <2>2. \A i \in 1..n : F[i] \in R
    BY <2>1
  <2>3. SubSeq(F, 1, n) = [i \in 1..n |-> F[i]]
    BY <2>1
  <2>4. SubSeq(F, 1, n) \in Seq(R)
    BY <2>1, <2>2, <2>3
  <2>5. rows = SubSeq(F, 1, n)
    BY DEF rows, F, n
  <2>6. DOMAIN rows = 1..n /\ \A i \in DOMAIN rows : i \in DOMAIN F /\ rows[i] = F[i]
    BY <2>1, <2>3, <2>5
  <2> QED
    BY <2>4, <2>5, <2>6 DEF F, n
<1>4. new_rows' = [i \in DOMAIN confirmed |-> confirmed[i].email]
  BY DEF Collect
<1>5. P \in SUBSET DOMAIN rows
  OBVIOUS
<1>6. /\ confirmed \in Seq(R) /\ ToSet(confirmed) = {rows[i] : i \in P}
      /\ \A k, l \in DOMAIN confirmed : k # l =>
            \E i, j \in P : i # j /\ rows[i] = confirmed[k] /\ rows[j] = confirmed[l]
  <2> HIDE DEF P, R
  <2>1. \A s \in Seq(R) : \A Q \in SUBSET DOMAIN s :
          /\ At(s, Q) \in Seq(R) /\ ToSet(At(s, Q)) = {s[i] : i \in Q}
          /\ \A k, l \in DOMAIN At(s, Q) : k # l =>
                \E i, j \in Q : i # j /\ s[i] = At(s, Q)[k] /\ s[j] = At(s, Q)[l]
    BY AtPlaces
  <2> QED
    BY <1>3, <1>5, <2>1
<1>7. \A k \in DOMAIN confirmed : confirmed[k] \in R /\ appendable(confirmed[k])
  <2>1. \A k \in DOMAIN confirmed : confirmed[k] \in ToSet(confirmed)
    BY DEF ToSet
  <2>2. \A x \in {rows[i] : i \in P} : appendable(x)
    OBVIOUS
  <2>3. \A k \in DOMAIN confirmed : confirmed[k] \in R
    <3> HIDE DEF confirmed, R
    <3> QED
      BY <1>6
  <2> HIDE DEF confirmed, P
  <2> QED
    BY <1>6, <2>1, <2>2, <2>3
<1> HIDE DEF confirmed
<1>8. new_rows' \in Seq(Emails) /\ DOMAIN new_rows' = DOMAIN confirmed
  BY <1>4, <1>6, <1>7
<1>9. \A i \in DOMAIN new_rows' : new_rows'[i] \notin in_passoff
  BY <1>4, <1>7 DEF appendable
<1>10. ASSUME NEW k \in DOMAIN new_rows', NEW l \in DOMAIN new_rows', k # l, new_rows'[k] = new_rows'[l]
       PROVE  new_rows'[k] \in Doubled
  <2> DEFINE e == new_rows'[k]  emails == [i \in DOMAIN Results[file] |-> Results[file][i].email]
  <2>1. PICK i \in P, j \in P : i # j /\ rows[i] = confirmed[k] /\ rows[j] = confirmed[l]
    BY <1>6, <1>8, <1>10
  <2>2. i \in DOMAIN Results[file] /\ j \in DOMAIN Results[file]
        /\ Results[file][i].email = e /\ Results[file][j].email = e
    BY <1>3, <1>4, <1>8, <1>10, <2>1
  <2>3. emails \in Seq(Emails) /\ DOMAIN emails = DOMAIN Results[file] /\ e \in Emails
    <3>0. \A n \in DOMAIN Results[file] : Results[file][n] \in R
      <4> HIDE DEF R
      <4> QED
        BY <1>2
    <3>1. \A n \in DOMAIN Results[file] : Results[file][n].email \in Emails
      BY <3>0
    <3>2. DOMAIN Results[file] = 1..Len(Results[file]) /\ Len(Results[file]) \in Nat
      BY <1>2
    <3>3. emails \in Seq(Emails)
      BY <3>1, <3>2
    <3>4. e \in Emails
      BY <1>8
    <3> QED
      BY <3>3, <3>4
  <2>4. times(emails, e) > 1
    <3>1. emails[i] = e /\ emails[j] = e
      BY <2>2
    <3> HIDE DEF emails, e
    <3> QED
      BY <2>1, <2>2, <2>3, <3>1, TimesType
  <2>5. times(emails, e) = Cardinality({n \in DOMAIN Results[file] : Results[file][n].email = e})
    <3>1. {n \in DOMAIN emails : emails[n] = e} = {n \in DOMAIN Results[file] : Results[file][n].email = e}
      OBVIOUS
    <3> QED
      BY <3>1 DEF times
  <2> HIDE DEF emails, e
  <2>6. e \in Doubled
    BY <1>1, <2>3, <2>4, <2>5 DEF Doubled
  <2> QED
    BY <2>6 DEF e
<1> QED
  BY <1>8, <1>9, <1>10

(* What head and tail of the rows are.                                     *)
LEMMA HeadTail ==
    ASSUME NEW S, NEW s \in Seq(S), s # <<>>
    PROVE  /\ 1 \in DOMAIN s /\ Head(s) = s[1] /\ Head(s) \in S /\ Tail(s) \in Seq(S)
           /\ \A i \in DOMAIN Tail(s) : i + 1 \in DOMAIN s /\ i + 1 # 1 /\ Tail(s)[i] = s[i + 1]
           /\ \A i, j \in DOMAIN Tail(s) : i + 1 = j + 1 => i = j
OBVIOUS

(* Every step leaves things what they are.                                 *)
LEMMA HandedTypesKept == HandedInv /\ [PassoffNext]_passoff => HandedTypes'
<1> SUFFICES ASSUME HandedInv, [PassoffNext]_passoff PROVE HandedTypes'
  OBVIOUS
<1>0. HandedTypes
  BY DEF HandedInv
<1>1. Len(Files) \in Nat /\ Len(Files) >= 1
  BY PassoffAssumption
<1>2. <<>> \in Seq(Emails)
  OBVIOUS
<1>3. CASE UNCHANGED passoff
  BY <1>0, <1>3 DEF passoff, scan, HandedTypes
<1>4. ASSUME NEW f \in ToSet(Files), Grows(f) PROVE HandedTypes'
  <2>1. Results[f] \in Seq([email : Emails, ok : BOOLEAN])
    BY PassoffAssumption
  <2>2. Len(Results[f]) \in Nat
    BY <2>1
  <2>3. written' \in [ToSet(Files) -> Nat] /\ \A g \in ToSet(Files) : written'[g] \in 0..Len(Results[g])
    BY <1>0, <1>4, <2>2 DEF Grows, HandedTypes
  <2> QED
    BY <1>0, <1>4, <2>3 DEF Grows, scan, HandedTypes
<1>5. ASSUME nextFile PROVE cur' \in 1..Len(Files) /\ wpc' \in {"idle", "stat"}
  BY <1>0, <1>1, <1>5 DEF nextFile, HandedTypes
<1>6. CASE ScanBegins \/ Ingest
  BY <1>0, <1>1, <1>6 DEF ScanBegins, Ingest, HandedTypes
<1>7. CASE Stat
  <2>1. cur' \in 1..Len(Files) /\ wpc' \in {"idle", "stat", "ingest"}
    BY <1>0, <1>5, <1>7 DEF Stat, HandedTypes
  <2> QED
    BY <1>0, <1>7, <2>1 DEF Stat, HandedTypes
<1>8. CASE Collect
  <2>1. new_rows' \in Seq(Emails)
    BY <1>8, CollectTakes
  <2> QED
    BY <1>0, <1>8, <2>1 DEF Collect, HandedTypes
<1>9. CASE WriteRow
  <2>1. Append(buffer, Head(new_rows)) \in Seq(Emails)
    <3>1. Head(new_rows) \in Emails
      BY <1>0, <1>9, HeadTail DEF WriteRow, HandedTypes
    <3> QED
      BY <1>0, <3>1 DEF HandedTypes
  <2> QED
    BY <1>0, <1>9, <2>1 DEF WriteRow, HandedTypes
<1>10. CASE MarkRow
  <2>1. Tail(new_rows) \in Seq(Emails)
    BY <1>0, <1>10, HeadTail DEF MarkRow, HandedTypes
  <2> QED
    BY <1>0, <1>10, <2>1 DEF MarkRow, HandedTypes
<1>11. ASSUME flush PROVE buffer' \in Seq(Emails) /\ combined' \in [Emails -> Nat]
  BY <1>0, <1>11, FlushKeeps DEF HandedTypes
<1>12. CASE BufferFull
  BY <1>0, <1>11, <1>12 DEF BufferFull, scan, HandedTypes
<1>13. CASE FileDone
  BY <1>0, <1>5, <1>11, <1>13 DEF FileDone, HandedTypes
<1>14. CASE ScanFails
  BY <1>0, <1>1, <1>2, <1>11, <1>14 DEF ScanFails, abandoned, HandedTypes
<1>15. CASE Killed
  BY <1>0, <1>1, <1>2, <1>15 DEF Killed, abandoned, HandedTypes
<1>16. CASE ManifestInit
  BY <1>0, <1>16 DEF ManifestInit, scan, HandedTypes
<1> QED
  BY <1>3, <1>4, <1>6, <1>7, <1>8, <1>9, <1>10, <1>12, <1>13, <1>14, <1>15, <1>16 DEF PassoffNext

(* A step that moves no row and marks none.                                *)
LEMMA HandedStays ==
    ASSUME HandedInv, flushed' = flushed, in_passoff' = in_passoff, torn \subseteq torn',
           halfway \ torn' \subseteq halfway', halfway' \subseteq halfway,
           appending' => appending /\ new_rows' = new_rows
    PROVE  HandedOffOnce' /\ RowsOnce'
<1>1. HandedOffOnce /\ RowsOnce /\ Sure' \subseteq Sure
  BY DEF HandedInv, Sure, Doubled
<1>2. ASSUME NEW e \in Sure' PROVE flushed'[e] = IF e \in in_passoff' \cup halfway' THEN 1 ELSE 0
  <2>1. flushed[e] = IF e \in in_passoff \cup halfway THEN 1 ELSE 0
    BY <1>1, <1>2 DEF HandedOffOnce, Sure
  <2>2. e \in halfway <=> e \in halfway'
    BY <1>2 DEF Sure
  <2> QED
    BY <2>1, <2>2
<1>3. RowsOnce'
  BY <1>1 DEF RowsOnce
<1> QED
  BY <1>2, <1>3 DEF HandedOffOnce, Sure

(* Where no row is under way there is nothing between file and mark.       *)
LEMMA NotHalfway ==
    /\ wpc # "mark" => halfway = {}
    /\ wpc' # "mark" => halfway' = {}
BY DEF halfway

(* The collected rows are new ones.                                        *)
LEMMA CollectOnce == HandedInv /\ Collect => HandedOffOnce' /\ RowsOnce'
<1> SUFFICES ASSUME HandedInv, Collect PROVE HandedOffOnce' /\ RowsOnce'
  OBVIOUS
<1>1. wpc = "collect" /\ wpc' = "write" /\ UNCHANGED <<in_passoff, combined, buffer, torn>>
  BY DEF Collect, manifest
<1>2. halfway = {} /\ halfway' = {} /\ flushed' = flushed /\ Sure' = Sure
  BY <1>1, NotHalfway DEF flushed, Sure, Doubled
<1>3. HandedOffOnce'
  BY <1>1, <1>2 DEF HandedInv, HandedOffOnce
<1>4. RowsOnce'
  <2> SUFFICES ASSUME NEW i \in DOMAIN new_rows', new_rows'[i] \in Sure
               PROVE  /\ new_rows'[i] \notin in_passoff
                      /\ \A j \in DOMAIN new_rows' : new_rows'[i] = new_rows'[j] => i = j
    BY <1>1, <1>2 DEF RowsOnce
  <2> QED
    BY CollectTakes DEF Sure
<1> QED
  BY <1>3, <1>4

(* A row in the file, not yet marked.                                      *)
LEMMA WriteOnce == HandedInv /\ WriteRow => HandedOffOnce' /\ RowsOnce'
<1> SUFFICES ASSUME HandedInv, WriteRow PROVE HandedOffOnce' /\ RowsOnce'
  OBVIOUS
<1> DEFINE h == Head(new_rows)
<1>1. /\ wpc = "write" /\ wpc' = "mark" /\ buffer' = Append(buffer, h)
      /\ UNCHANGED <<in_passoff, combined, torn, new_rows>>
  BY DEF WriteRow, manifest
<1>2. halfway = {} /\ halfway' = {h} /\ Sure' = Sure
  BY <1>1 DEF halfway, Sure, Doubled
<1>3. /\ HandedTypes /\ new_rows \in Seq(Emails) /\ new_rows # <<>> /\ buffer \in Seq(Emails)
      /\ combined \in [Emails -> Nat]
  BY DEF HandedInv, HandedTypes, WriteRow
<1>4. h \in Emails /\ 1 \in DOMAIN new_rows /\ h = new_rows[1]
  BY <1>3, HeadTail
<1>5. h \in Sure => h \notin in_passoff
  BY <1>1, <1>4 DEF HandedInv, RowsOnce, appending
<1> HIDE DEF h
<1>6. ASSUME NEW e \in Sure PROVE flushed'[e] = IF e \in in_passoff' \cup halfway' THEN 1 ELSE 0
  <2>1. e \in Emails /\ flushed[e] = IF e \in in_passoff THEN 1 ELSE 0
    BY <1>2, <1>6 DEF HandedInv, HandedOffOnce, Sure
  <2>2. flushed[e] = combined[e] + times(buffer, e)
    BY <2>1, FlushedIs
  <2>3. flushed'[e] = combined[e] + times(Append(buffer, h), e)
    <3>1. flushed' = [d \in Emails |-> combined'[d] + times(buffer', d)]
      BY DEF flushed, times
    <3> QED
      BY <1>1, <2>1, <3>1
  <2>4. times(Append(buffer, h), e) = times(buffer, e) + IF h = e THEN 1 ELSE 0
    BY <1>3, <1>4, TimesAppend
  <2>5. times(buffer, e) \in Nat /\ combined[e] \in Nat
    BY <1>3, <2>1, TimesType
  <2> DEFINE f == flushed'[e]  b == times(buffer, e)
  <2>6. f = flushed[e] + IF h = e THEN 1 ELSE 0
    <3>1. f = combined[e] + (b + IF h = e THEN 1 ELSE 0)
      BY <2>3, <2>4
    <3> HIDE DEF f, b
    <3>2. flushed[e] = combined[e] + b /\ b \in Nat
      BY <2>2, <2>5 DEF b
    <3> QED
      BY <2>5, <3>1, <3>2
  <2> HIDE DEF f
  <2>7. f = IF e \in in_passoff \cup {h} THEN 1 ELSE 0
    BY <1>5, <1>6, <2>1, <2>6
  <2> QED
    BY <1>1, <1>2, <2>7 DEF f
<1>7. RowsOnce'
  BY <1>1, <1>2 DEF HandedInv, RowsOnce, appending
<1> QED
  BY <1>2, <1>6, <1>7 DEF HandedOffOnce, Sure

(* The mark follows the row.                                               *)
LEMMA MarkOnce == HandedInv /\ MarkRow => HandedOffOnce' /\ RowsOnce'
<1> SUFFICES ASSUME HandedInv, MarkRow PROVE HandedOffOnce' /\ RowsOnce'
  OBVIOUS
<1> DEFINE h == Head(new_rows)  rest == Tail(new_rows)
<1>1. /\ wpc = "mark" /\ wpc' = "write" /\ new_rows' = rest
      /\ in_passoff' = in_passoff \cup ({h} \cap known) /\ torn' = torn \cup ({h} \ known)
      /\ UNCHANGED <<combined, buffer>>
  BY DEF MarkRow
<1>2. halfway = {h} /\ halfway' = {} /\ flushed' = flushed /\ Sure' = Sure \ ({h} \ known)
  BY <1>1 DEF halfway, flushed, Sure, Doubled
<1>3. new_rows \in Seq(Emails) /\ new_rows # <<>>
  BY <1>1 DEF HandedInv, HandedTypes
<1>4. /\ 1 \in DOMAIN new_rows /\ h = new_rows[1]
      /\ \A i \in DOMAIN rest : i + 1 \in DOMAIN new_rows /\ i + 1 # 1 /\ rest[i] = new_rows[i + 1]
      /\ \A i, j \in DOMAIN rest : i + 1 = j + 1 => i = j
  BY <1>3, HeadTail
<1> HIDE DEF h, rest
<1>5. \A i \in DOMAIN new_rows : new_rows[i] \in Sure =>
        /\ new_rows[i] \notin in_passoff
        /\ \A j \in DOMAIN new_rows : new_rows[i] = new_rows[j] => i = j
  BY <1>1 DEF HandedInv, RowsOnce, appending
<1>6. ASSUME NEW e \in Sure' PROVE flushed'[e] = IF e \in in_passoff' \cup halfway' THEN 1 ELSE 0
  <2>1. flushed[e] = IF e \in in_passoff \cup {h} THEN 1 ELSE 0
    BY <1>2, <1>6 DEF HandedInv, HandedOffOnce, Sure
  <2>2. e \in in_passoff \cup {h} <=> e \in in_passoff'
    BY <1>1, <1>2, <1>6
  <2> QED
    BY <1>2, <2>1, <2>2
<1>7. ASSUME NEW i \in DOMAIN rest, rest[i] \in Sure
      PROVE  /\ rest[i] \notin in_passoff'
             /\ \A j \in DOMAIN rest : rest[i] = rest[j] => i = j
  <2>1. /\ i + 1 \in DOMAIN new_rows /\ i + 1 # 1 /\ rest[i] = new_rows[i + 1]
    BY <1>4
  <2>2. rest[i] # h /\ rest[i] \notin in_passoff
    BY <1>4, <1>5, <1>7, <2>1
  <2>3. ASSUME NEW j \in DOMAIN rest, rest[i] = rest[j] PROVE i = j
    <3>1. j + 1 \in DOMAIN new_rows /\ rest[j] = new_rows[j + 1]
      BY <1>4
    <3>2. i + 1 = j + 1
      BY <1>5, <1>7, <2>1, <2>3, <3>1
    <3> QED
      BY <1>4, <3>2
  <2> QED
    BY <1>1, <2>2, <2>3
<1>8. RowsOnce'
  BY <1>1, <1>2, <1>7 DEF RowsOnce
<1> QED
  BY <1>6, <1>8 DEF HandedOffOnce, Sure

(* A kill loses the rows that were not flushed, and they count as torn.    *)
LEMMA KilledOnce == HandedInv /\ Killed => HandedOffOnce' /\ RowsOnce'
<1> SUFFICES ASSUME HandedInv, Killed PROVE HandedOffOnce' /\ RowsOnce'
  OBVIOUS
<1>1. /\ wpc' = "idle" /\ buffer' = <<>> /\ torn' = torn \cup halfway \cup ToSet(buffer)
      /\ UNCHANGED <<in_passoff, combined>>
  BY DEF Killed, abandoned, manifest
<1>2. halfway' = {} /\ RowsOnce'
  BY <1>1, NotHalfway DEF RowsOnce, appending
<1>3. /\ buffer \in Seq(Emails) /\ combined \in [Emails -> Nat]
      /\ <<>> \in Seq(Emails) /\ ToSet(<<>>) = {}
  BY DEF HandedInv, HandedTypes, ToSet
<1>4. ASSUME NEW e \in Sure' PROVE flushed'[e] = IF e \in in_passoff' \cup halfway' THEN 1 ELSE 0
  <2>1. e \in Sure /\ e \in Emails /\ e \notin halfway /\ e \notin ToSet(buffer)
    BY <1>1, <1>4 DEF Sure, Doubled
  <2>2. flushed[e] = IF e \in in_passoff THEN 1 ELSE 0
    BY <2>1 DEF HandedInv, HandedOffOnce, Sure
  <2>3. times(buffer, e) = 0 /\ times(<<>>, e) = 0
    BY <1>3, <2>1, TimesType
  <2>4. flushed[e] = combined[e] + 0
    BY <2>1, <2>3, FlushedIs
  <2>5. flushed'[e] = combined[e] + 0
    <3>1. flushed' = [d \in Emails |-> combined'[d] + times(buffer', d)]
      BY DEF flushed, times
    <3> QED
      BY <1>1, <2>1, <2>3, <3>1
  <2> QED
    BY <1>1, <1>2, <2>2, <2>4, <2>5
<1> QED
  BY <1>2, <1>4 DEF HandedOffOnce, Sure

(* By hand: what is marked is in the file.                                 *)
LEMMA ManifestOnce == HandedInv /\ ManifestInit => HandedOffOnce' /\ RowsOnce'
<1> SUFFICES ASSUME HandedInv, ManifestInit PROVE HandedOffOnce' /\ RowsOnce'
  OBVIOUS
<1>1. /\ wpc = "idle" /\ wpc' = "idle" /\ UNCHANGED <<combined, buffer, torn>>
      /\ in_passoff' = in_passoff \cup {e \in known' : combined[e] > 0}
  BY DEF ManifestInit, scan
<1>2. halfway = {} /\ halfway' = {} /\ flushed' = flushed /\ Sure' = Sure /\ RowsOnce'
  BY <1>1, NotHalfway DEF flushed, Sure, Doubled, RowsOnce, appending
<1>3. buffer \in Seq(Emails) /\ combined \in [Emails -> Nat]
  BY DEF HandedInv, HandedTypes
<1>4. ASSUME NEW e \in Sure PROVE flushed[e] = IF e \in in_passoff' THEN 1 ELSE 0
  <2>1. e \in Emails /\ flushed[e] = IF e \in in_passoff THEN 1 ELSE 0
    BY <1>2, <1>4 DEF HandedInv, HandedOffOnce, Sure
  <2>2. flushed[e] = combined[e] + times(buffer, e) /\ combined[e] \in Nat /\ times(buffer, e) \in Nat
    BY <1>3, <2>1, FlushedIs, TimesType
  <2>3. combined[e] > 0 => e \in in_passoff
    BY <2>1, <2>2
  <2> QED
    BY <1>1, <2>1, <2>3
<1> QED
  BY <1>2, <1>4 DEF HandedOffOnce, Sure

(* Every step of the watcher keeps the invariant.                          *)
LEMMA HandedInductive == HandedInv /\ [PassoffNext]_passoff => HandedInv'
<1> SUFFICES ASSUME HandedInv, [PassoffNext]_passoff PROVE HandedOffOnce' /\ RowsOnce'
  BY HandedTypesKept DEF HandedInv
<1>0. buffer \in Seq(Emails) /\ combined \in [Emails -> Nat]
  BY DEF HandedInv, HandedTypes
<1>1. CASE UNCHANGED passoff
  BY <1>1, HandedStays DEF passoff, manifest, scan, flushed, halfway, appending
<1>2. ASSUME NEW f \in ToSet(Files), Grows(f) PROVE HandedOffOnce' /\ RowsOnce'
  BY <1>2, HandedStays DEF Grows, manifest, scan, flushed, halfway, appending
<1>3. CASE ScanBegins \/ Stat \/ Ingest
  <2>1. wpc' \notin {"write", "mark"} /\ wpc \notin {"write", "mark"}
        /\ UNCHANGED <<in_passoff, combined, buffer, torn>>
    BY <1>3 DEF ScanBegins, Stat, Ingest, nextFile, manifest
  <2>2. halfway = {} /\ halfway' = {} /\ flushed' = flushed /\ ~appending'
    BY <2>1, NotHalfway DEF flushed, appending
  <2> QED
    BY <2>1, <2>2, HandedStays
<1>4. CASE BufferFull
  <2>1. flushed' = flushed
    BY <1>0, <1>4, FlushKeeps DEF BufferFull
  <2> QED
    BY <1>4, <2>1, HandedStays DEF BufferFull, manifest, scan, halfway, appending
<1>5. CASE FileDone
  <2>1. flushed' = flushed
    BY <1>0, <1>5, FlushKeeps DEF FileDone
  <2>2. wpc = "write" /\ wpc' \notin {"write", "mark"} /\ UNCHANGED <<in_passoff, torn>>
    BY <1>5 DEF FileDone, nextFile, manifest
  <2>3. halfway = {} /\ halfway' = {} /\ ~appending'
    BY <2>2, NotHalfway DEF appending
  <2> QED
    BY <2>1, <2>2, <2>3, HandedStays
<1>6. CASE ScanFails
  <2>1. flushed' = flushed
    BY <1>0, <1>6, FlushKeeps DEF ScanFails
  <2>2. wpc' = "idle" /\ in_passoff' = in_passoff /\ torn' = torn \cup halfway
    BY <1>6 DEF ScanFails, abandoned, manifest
  <2>3. halfway' = {} /\ ~appending'
    BY <2>2, NotHalfway DEF appending
  <2> QED
    BY <2>1, <2>2, <2>3, HandedStays
<1> QED
  BY <1>1, <1>2, <1>3, <1>4, <1>5, <1>6, CollectOnce, WriteOnce, MarkOnce, KilledOnce, ManifestOnce
     DEF PassoffNext

(* Whatever files there are, however they grow, and however often scans    *)
(* fail and the watcher is killed: an address that no fault, no late row   *)
(* and no doubled row has met is in the file that is handed off once if it *)
(* is marked and not otherwise (ops/passoff_watcher.py:63-160).            *)
THEOREM HandedTheorem == PassoffSpec => []HandedOffOnce
<1>1. PassoffInit => HandedInv
  <2> SUFFICES ASSUME PassoffInit PROVE HandedInv
    OBVIOUS
  <2>1. Len(Files) \in Nat /\ Len(Files) >= 1 /\ <<>> \in Seq(Emails) /\ ToSet(<<>>) = {}
    BY PassoffAssumption DEF ToSet
  <2>2. \A f \in ToSet(Files) : Len(Results[f]) \in Nat
    <3> TAKE f \in ToSet(Files)
    <3>1. Results[f] \in Seq([email : Emails, ok : BOOLEAN])
      BY PassoffAssumption
    <3> QED
      BY <3>1
  <2>3. HandedTypes
    BY <2>1, <2>2 DEF PassoffInit, HandedTypes
  <2>4. halfway = {} /\ RowsOnce
    BY DEF PassoffInit, halfway, RowsOnce, appending
  <2>5. ASSUME NEW e \in Emails PROVE flushed[e] = 0
    <3>1. times(buffer, e) = 0 /\ combined[e] = 0
      BY <2>1, TimesType DEF PassoffInit
    <3> QED
      BY <3>1, FlushedIs
  <2>6. HandedOffOnce
    BY <2>4, <2>5 DEF PassoffInit, HandedOffOnce
  <2> QED
    BY <2>3, <2>4, <2>6 DEF HandedInv
<1>2. HandedInv => HandedOffOnce
  BY DEF HandedInv
<1> QED
  BY <1>1, <1>2, HandedInductive, PTL DEF PassoffSpec

=============================================================================
