---------------------------- MODULE SerperClient ----------------------------
(***************************************************************************)
(* The paid search (pipeline/utils/serper_client.py) as the producer and   *)
(* the dispatcher use it: concurrent enrich() calls on one client, each a  *)
(* search and up to three fallbacks, every search behind the rate limiter  *)
(* and retried with backoff (pipeline/utils/backoff.py), and then the      *)
(* caller's charge_costs().  What is charged is decided from two fields of *)
(* the client that all of them write.                                      *)
(***************************************************************************)
EXTENDS TokenBucket, FiniteSets

CONSTANTS
    Key,             (* call -> its key in enrichment_cache                 *)
    Hinted,          (* the dispatcher's calls: only they have a domain hint *)
    Named,           (* calls with an agent and strategy "with"             *)
    Long,            (* calls with three words or more in the name          *)
    UseCache,
    MaxAttempts,     (* of with_backoff                                     *)
    Answers          (* what a search may come to                           *)

Finds    == {"emails", "domain", "nothing"}
Failures == {"retryable", "credits", "halt"}

ASSUME SerperAssumption ==
    /\ DOMAIN Key = Callers /\ Hinted \cup Named \cup Long \subseteq Callers
    \* The key holds the names, the strategy and the hint.
    /\ \A c, d \in Callers : Key[c] = Key[d] =>
           \A S \in {Hinted, Named, Long} : (c \in S) = (d \in S)
    /\ UseCache \in BOOLEAN /\ MaxAttempts \in Nat \ {0}
    /\ Answers \subseteq Finds \cup Failures

VARIABLES
    spc, query, attempt,   \* of every call: await, query sent, attempt of it
    best,                  \* result so far
    cache,                 \* keys with an entry, and what it was extracted to
    last_was_cache_hit, _fallback_calls, _credits_exhausted,
    searches,              \* history: searches answered with a result
    charged,               \* record_call
    own                    \* history: what a call got: "none", "hit", an "answer" of its own

serperFields == <<last_was_cache_hit, _fallback_calls, _credits_exhausted>>
serperMoney  == <<searches, charged, own>>
serper == <<spc, query, attempt, best, cache, serperFields, serperMoney, bucket>>

Queries == {"primary", "site", "agent", "short"}

SerperTypeOK ==
    /\ BucketTypeOK
    /\ spc \in [Callers -> {"new", "lookup", "token", "search", "backoff", "store", "mark", "done", "raised"}]
    /\ query \in [Callers -> Queries] /\ attempt \in [Callers -> 0..MaxAttempts - 1]
    /\ best \in [Callers -> Finds] /\ cache \subseteq Range(Key)
    /\ {last_was_cache_hit, _credits_exhausted} \subseteq BOOLEAN
    /\ {_fallback_calls, searches, charged} \subseteq Nat
    /\ own \in [Callers -> {"none", "hit", "answer"}]

SerperInit ==
    /\ BucketInit
    /\ spc = [c \in Callers |-> "new"] /\ query = [c \in Callers |-> "primary"]
    /\ attempt = [c \in Callers |-> 0] /\ best = [c \in Callers |-> "nothing"]
    /\ cache \in SUBSET Range(Key)   \* kept from one run to the next
    /\ last_was_cache_hit = FALSE /\ _fallback_calls = 0 /\ _credits_exhausted = FALSE
    /\ searches = 0 /\ charged = 0 /\ own = [c \in Callers |-> "none"]

-----------------------------------------------------------------------------

\* Mutant: the counter of the fallbacks is kept.
chargeKeepsCount(hit) ==
    /\ charged' = charged + (IF hit THEN 0 ELSE 1) + _fallback_calls
    /\ UNCHANGED _fallback_calls

\* One for the call unless the flag says it was a hit, and all that is counted.
charge_costs(hit) ==
    /\ charged' = charged + (IF hit THEN 0 ELSE 1) + _fallback_calls
    /\ _fallback_calls' = 0

(* Back in the caller.  The producer charges before anything else can run, *)
(* so the flag of a hit is still its own; the flag of a miss was set many  *)
(* awaits ago.  The dispatcher awaits mark_serper_enriched first.          *)
Returns(c, hit) ==
    /\ last_was_cache_hit' = hit
    /\ IF c \in Hinted
       THEN spc' = [spc EXCEPT ![c] = "mark"] /\ UNCHANGED <<charged, _fallback_calls>>
       ELSE spc' = [spc EXCEPT ![c] = "done"] /\ charge_costs(hit)

\* inject_serper_fallback: by now the flag may be any other call's.
Marked(c) ==
    /\ spc[c] = "mark" /\ spc' = [spc EXCEPT ![c] = "done"]
    /\ charge_costs(last_was_cache_hit)
    /\ UNCHANGED <<query, attempt, best, cache, last_was_cache_hit, _credits_exhausted,
                   searches, own, bucket>>

Enter(c) ==
    /\ spc[c] = "new"
    /\ IF _credits_exhausted
       THEN Returns(c, FALSE)
       ELSE /\ spc' = [spc EXCEPT ![c] = "lookup"]
            /\ UNCHANGED <<last_was_cache_hit, _fallback_calls, charged>>
    /\ UNCHANGED <<query, attempt, best, cache, _credits_exhausted, searches, own, bucket>>

\* get_enrichment_cache; the credits are not looked at again.
Lookup(c) ==
    /\ spc[c] = "lookup"
    /\ IF UseCache /\ Key[c] \in cache
       THEN Returns(c, TRUE) /\ own' = [own EXCEPT ![c] = "hit"] /\ UNCHANGED bucket
       ELSE /\ spc' = [spc EXCEPT ![c] = "token"] /\ Ask(c)
            /\ last_was_cache_hit' = FALSE
            /\ UNCHANGED <<_fallback_calls, charged, own>>
    /\ UNCHANGED <<query, attempt, best, cache, _credits_exhausted, searches>>

Acquired(c) ==
    /\ spc[c] = "token" /\ Granted(c)
    /\ spc' = [spc EXCEPT ![c] = "search"] /\ attempt' = [attempt EXCEPT ![c] = 0]
    /\ UNCHANGED <<query, best, cache, serperFields, serperMoney>>

\* The fallback that comes next when query q has left the result at r.
fallbackAfter(c, q, r) ==
    IF q = "primary" /\ c \in Hinted /\ r # "emails" THEN "site"
    ELSE IF r = "nothing" /\ q \in {"primary", "site"} /\ c \in Named THEN "agent"
    ELSE IF r = "nothing" /\ q # "short" /\ c \in Long THEN "short"
    ELSE "none"

\* A domain of the site: fallback is not taken over, only its e-mails are.
better(c, found) ==
    IF found = "emails" \/ (found = "domain" /\ query[c] # "site" /\ best[c] = "nothing")
    THEN found ELSE best[c]

\* Site and short-name fallbacks are counted, the agent's is not.
Found(c, found) ==
    /\ found \in Finds
    /\ searches' = searches + 1 /\ own' = [own EXCEPT ![c] = "answer"]
    /\ _fallback_calls' = _fallback_calls + (IF query[c] \in {"site", "short"} THEN 1 ELSE 0)
    /\ best' = [best EXCEPT ![c] = better(c, found)]
    /\ LET next == fallbackAfter(c, query[c], better(c, found))
       IN  IF next # "none"
           THEN spc' = [spc EXCEPT ![c] = "token"] /\ query' = [query EXCEPT ![c] = next] /\ Ask(c)
           ELSE spc' = [spc EXCEPT ![c] = "store"] /\ UNCHANGED <<query, bucket>>
    /\ UNCHANGED <<attempt, cache, last_was_cache_hit, _credits_exhausted, charged>>

\* set_enrichment_cache, for what has been found; then the call returns.
Store(c) ==
    /\ spc[c] = "store"
    /\ cache' = IF best[c] # "nothing" THEN cache \cup {Key[c]} ELSE cache
    /\ Returns(c, last_was_cache_hit)
    /\ UNCHANGED <<query, attempt, best, _credits_exhausted, searches, own, bucket>>

\* 400, not enough credits: this call returns nothing, later ones do not search.
CreditsOut(c) ==
    /\ _credits_exhausted' = TRUE
    /\ Returns(c, last_was_cache_hit)
    /\ UNCHANGED <<query, attempt, best, cache, searches, own, bucket>>

\* Mutant: attempts are not counted.
FailsUncounted(c, why) ==
    /\ why \in {"retryable", "halt"}
    /\ spc' = [spc EXCEPT ![c] = IF why = "retryable" THEN "backoff" ELSE "raised"]
    /\ UNCHANGED <<query, attempt, best, cache, serperFields, serperMoney, bucket>>

(* with_backoff: a retry takes no token.  The dispatcher catches what is   *)
(* raised at the end, unless it halts the pipeline, and goes on to charge. *)
Fails(c, why) ==
    /\ why \in {"retryable", "halt"}
    /\ IF why = "retryable" /\ attempt[c] < MaxAttempts - 1
       THEN spc' = [spc EXCEPT ![c] = "backoff"] /\ attempt' = [attempt EXCEPT ![c] = @ + 1]
       ELSE /\ spc' = [spc EXCEPT ![c] = IF c \in Hinted /\ why = "retryable" THEN "mark" ELSE "raised"]
            /\ UNCHANGED attempt
    /\ UNCHANGED <<query, best, cache, serperFields, serperMoney, bucket>>

Answered(c) ==
    /\ spc[c] = "search"
    /\ \E a \in Answers : Found(c, a) \/ Fails(c, a) \/ (a = "credits" /\ CreditsOut(c))

Retries(c) ==
    /\ spc[c] = "backoff" /\ spc' = [spc EXCEPT ![c] = "search"]
    /\ UNCHANGED <<query, attempt, best, cache, serperFields, serperMoney, bucket>>

Enrich(c) == Enter(c) \/ Lookup(c) \/ Acquired(c) \/ Answered(c) \/ Retries(c) \/ Store(c) \/ Marked(c)

LimiterStep ==
    /\ FallsAsleep \/ Tick
    /\ UNCHANGED <<spc, query, attempt, best, cache, serperFields, serperMoney>>

SerperNext == LimiterStep \/ \E c \in Callers : Enrich(c)

SerperSpec == SerperInit /\ [][SerperNext]_serper

-----------------------------------------------------------------------------

\* Calls that may be charged without a search of theirs that was answered.
Unearned == {c \in Callers : spc[c] = "done" /\ (own[c] = "none" \/ (own[c] = "hit" /\ c \in Hinted))}

(* However the calls interleave, nothing is charged twice: what has been   *)
(* charged, and the fallbacks that wait for the next charge, are searches  *)
(* that were answered, and at most one for each call that ended without an *)
(* answer and for each of the dispatcher's hits (SerperClient.charge_costs *)
(* and its two callers).  These hits are not free, as the docstring of     *)
(* charge_costs has them: another call's miss may have cleared the flag.   *)
ChargesBounded == charged + _fallback_calls <= searches + Cardinality(Unearned)

(* Whatever fails, every enrich() call comes to an end.                    *)
EnrichEnds == \A c \in Callers : (spc[c] # "new") ~> (spc[c] \in {"done", "raised"})

=============================================================================
