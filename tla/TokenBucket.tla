---------------------------- MODULE TokenBucket ----------------------------
(***************************************************************************)
(* The rate limiter (pipeline/utils/rate_limiter.py): a token bucket that  *)
(* is refilled when somebody asks, behind a lock whose holder sleeps until *)
(* a token is there.  The unit of time is what one token takes.            *)
(*                                                                         *)
(* allowed is the promise: a bucket that a clock refills, one token at a   *)
(* time.                                                                   *)
(***************************************************************************)
EXTENDS Integers, Sequences, FiniteSetsExt

CONSTANTS Callers, Capacity, InitialTokens

ASSUME BucketAssumption ==
    Capacity \in Nat \ {0} /\ InitialTokens \in 0..Capacity

VARIABLES
    tokens, elapsed,   \* _tokens, and the time since _last_refill
    lock,              \* who holds the lock and who waits for it, in order
    sleep,             \* of the holder: "no", "sleeping", "over"
    allowed            \* history

bucket == <<tokens, elapsed, lock, sleep, allowed>>

BucketTypeOK ==
    /\ {tokens, elapsed} \subseteq 0..Capacity
    /\ lock \in Seq(Callers) /\ Cardinality(Callers) >= Len(lock)
    /\ sleep \in {"no", "sleeping", "over"} /\ allowed \in Int

BucketInit ==
    /\ tokens = InitialTokens /\ elapsed = 0 /\ lock = <<>> /\ sleep = "no"
    /\ allowed = InitialTokens

\* Mutant: _last_refill stays where it was.
refillAgain(rest) == tokens' = Min({Capacity, tokens + elapsed}) - rest /\ UNCHANGED elapsed

refill(rest) == tokens' = Min({Capacity, tokens + elapsed}) - rest /\ elapsed' = 0

Ask(c) == lock' = Append(lock, c) /\ UNCHANGED <<tokens, elapsed, sleep, allowed>>

\* The token is taken and the lock released; nothing suspends in between.
Granted(c) ==
    /\ lock # <<>> /\ Head(lock) = c
    /\ \/ sleep = "no" /\ tokens + elapsed >= 1
       \/ sleep = "over"
    /\ refill(1) /\ lock' = Tail(lock) /\ sleep' = "no"
    /\ allowed' = allowed - 1

\* (1 - tokens) / refill_rate
FallsAsleep ==
    /\ lock # <<>> /\ sleep = "no" /\ tokens + elapsed < 1
    /\ refill(0) /\ sleep' = "sleeping"
    /\ UNCHANGED <<lock, allowed>>

Tick ==
    /\ elapsed' = Min({elapsed + 1, Capacity})
    /\ sleep' = IF sleep = "sleeping" THEN "over" ELSE sleep
    /\ allowed' = Min({allowed + 1, Capacity})
    /\ UNCHANGED <<tokens, lock>>

BucketNext == FallsAsleep \/ Tick \/ \E c \in Callers : Ask(c) \/ Granted(c)

BucketSpec == BucketInit /\ [][BucketNext]_bucket

(* However many tasks ask and whenever the bucket is refilled, no window   *)
(* of k tokens' time lets more than Capacity + k of them through.  (The    *)
(* "hard ceiling of `capacity` calls per refill period" of the docstring   *)
(* is less: a bucket that is full to begin with lets almost twice that     *)
(* through.)                                                               *)
RateHeld == allowed >= 0

=============================================================================
