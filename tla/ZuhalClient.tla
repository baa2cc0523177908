----------------------------- MODULE ZuhalClient -----------------------------
(***************************************************************************)
(* Single verification calls (pipeline/utils/zuhal_client.py): a semaphore *)
(* for the callers, a flag for spent credits, backoff, and around every    *)
(* attempt a circuit breaker that all callers share.                       *)
(*                                                                         *)
(* The breaker is the aiobreaker library's: FailMax failures in a row open *)
(* it, and the failure that does is reported as the breaker's; after a     *)
(* while it lets calls through again, and one failure shuts it.  The rate  *)
(* limiter and the random delay only take time (see TokenBucket).          *)
(***************************************************************************)
EXTENDS Naturals, FiniteSets

CONSTANTS Verifiers, ConcurrentCalls, FailMax, Attempts, Statuses

\* "timeout" is excluded from the breaker; "other" is any other HTTP error.
AllStatuses == {"ok", "402", "429", "5xx", "halt", "timeout", "other"}

ASSUME ZuhalClientAssumption ==
    /\ {ConcurrentCalls, FailMax, Attempts} \subseteq Nat \ {0} /\ Statuses \subseteq AllStatuses

VARIABLES
    zpc,            \* of every caller: the await it is in, or how it ended
    tries,          \* attempts failed so far
    answers,        \* history: statuses this caller has been given
    breaker, fails, \* the breaker and its counter
    exhausted       \* _credits_exhausted

zuhalClient == <<zpc, tries, answers, breaker, fails, exhausted>>

Running == {"delay", "call", "backoff"}
Outcome == {"verdict", "circuit", "credits", "error", "raised"}

ZuhalClientTypeOK ==
    /\ zpc \in [Verifiers -> {"new"} \cup Running \cup Outcome]
    /\ Cardinality({v \in Verifiers : zpc[v] \in Running}) <= ConcurrentCalls
    /\ tries \in [Verifiers -> 0..Attempts - 1]
    /\ answers \in [Verifiers -> SUBSET AllStatuses]
    /\ breaker \in {"closed", "open", "halfOpen"} /\ fails \in 0..FailMax
    /\ exhausted \in BOOLEAN

ZuhalClientInit ==
    /\ zpc = [v \in Verifiers |-> "new"] /\ tries = [v \in Verifiers |-> 0]
    /\ answers = [v \in Verifiers |-> {}]
    /\ breaker = "closed" /\ fails = 0 /\ exhausted = FALSE

becomes(v, pc) == zpc' = [zpc EXCEPT ![v] = pc]

\* The flag is looked at inside the semaphore.
Validate(v) ==
    /\ zpc[v] = "new"
    /\ Cardinality({w \in Verifiers : zpc[w] \in Running}) < ConcurrentCalls
    /\ becomes(v, IF exhausted THEN "credits" ELSE "delay")
    /\ UNCHANGED <<tries, answers, breaker, fails, exhausted>>

Retryable == {"429", "5xx", "timeout", "other"}

\* Mutant: only the breaker's own error asks for a requeue.
failureAlwaysError(why) == CASE why = "402" -> "credits" [] why = "halt" -> "raised" [] OTHER -> "error"

\* _validate_inner: what the caller sees when the attempts are used up.
failure(why) == CASE why = "402" -> "credits" [] why = "halt" -> "raised"
                  [] why = "429" -> "circuit" [] OTHER -> "error"

(* Every error but a timeout counts, 401 and 402 included.  In a half-open *)
(* breaker the first call that was let through decides, which one of those *)
(* that end is not told apart from the ones that began before it opened.   *)
Counted(status, trips) ==
    LET counts == status \notin {"ok", "timeout"}
    IN  /\ fails' = IF status = "ok" THEN 0
                    ELSE IF counts /\ fails < FailMax THEN fails + 1 ELSE fails
        /\ trips => counts
        /\ counts /\ breaker # "halfOpen" => trips = (fails' = FailMax)
        /\ breaker' \in IF trips THEN {"open"}
                        ELSE IF status = "ok" /\ breaker = "halfOpen" THEN {"closed", breaker}
                        ELSE {breaker}

\* The breaker lets the attempt through or not.
Attempt(v) ==
    /\ zpc[v] \in {"delay", "backoff"}
    /\ becomes(v, IF breaker = "open" THEN "circuit" ELSE "call")
    /\ UNCHANGED <<tries, answers, breaker, fails, exhausted>>

\* An answer, and what the breaker and the backoff make of it.
Answer(v, status) ==
    /\ zpc[v] = "call"
    /\ answers' = [answers EXCEPT ![v] = @ \cup {status}]
    /\ exhausted' = (exhausted \/ status = "402")
    /\ \E trips \in BOOLEAN :
         LET again == status \in Retryable /\ ~trips /\ tries[v] < Attempts - 1
         IN  /\ Counted(status, trips)
             /\ becomes(v, IF status = "ok" THEN "verdict" ELSE IF trips THEN "circuit"
                           ELSE IF again THEN "backoff" ELSE failure(status))
             /\ tries' = IF again THEN [tries EXCEPT ![v] = @ + 1] ELSE tries

TimeoutOver ==
    /\ breaker = "open" /\ breaker' = "halfOpen"
    /\ UNCHANGED <<zpc, tries, answers, fails, exhausted>>

Call(v) == Validate(v) \/ Attempt(v) \/ \E s \in Statuses : Answer(v, s)

ZuhalClientNext == TimeoutOver \/ \E v \in Verifiers : Call(v)

ZuhalClientSpec == ZuhalClientInit /\ [][ZuhalClientNext]_zuhalClient

ZuhalClientFairness == \A v \in Verifiers : WF_zuhalClient(Call(v))

-----------------------------------------------------------------------------

(* A caller that has met nothing but 429s never reports an error, which    *)
(* would fail its record for good: whatever the breaker makes of the       *)
(* others' calls, it is told to come back.                                 *)
RateLimitNeverBurns ==
    \A v \in Verifiers : zpc[v] = "error" => answers[v] \ {"429"} # {}

=============================================================================
