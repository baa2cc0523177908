-------------------------------- MODULE Rows --------------------------------
(***************************************************************************)
(* The rows of the `records` table (pipeline/db/schema.py) and what each   *)
(* UPDATE of pipeline/db does to one of them.  The database runs in        *)
(* autocommit mode on one shared connection, so every operator below is    *)
(* one atomic step of whoever calls it.                                    *)
(*                                                                         *)
(* Columns that decide what happens to a record are kept; the verdicts,    *)
(* messages and timestamps that are only reported are not.  Two timestamps *)
(* are kept as what the queries ask of them: `held` says that retry_after  *)
(* lies in the future, `stale` that updated_at is older than the recovery  *)
(* timeout.                                                                *)
(***************************************************************************)
EXTENDS Naturals, Verdicts

CONSTANT Emails,        (* the addresses candidates are drawn from       *)
         NoEmail        (* the NULL of candidate_email                   *)

ASSUME NoEmailAssumption == NoEmail \notin Emails

\* "ABSENT" is a record the producer has not written yet.
States == {"ABSENT", "RAW", "DISCOVERING", "DISCOVERED", "VALIDATING",
           "VALIDATED", "VALIDATION_FAILED", "DISCOVERY_FAILED",
           "COST_SKIPPED", "NEEDS_ZUHAL", "ZUHAL_VALIDATING"}

Terminal == {"VALIDATED", "VALIDATION_FAILED", "COST_SKIPPED", "DISCOVERY_FAILED"}

Reasons == {"none", "infra_loop", "max_attempts", "provider_blocked"}

Row == [state     : States,
        attempts  : Nat,                        \* dispatch_attempts
        requeues  : Nat,                        \* requeue_count
        tunnel    : Nat,                        \* tunnel_requeue_count
        bbops     : Nat,                        \* bbops_requeue_count
        held      : BOOLEAN,                    \* retry_after > now
        stale     : BOOLEAN,                    \* updated_at too old
        enriched  : BOOLEAN,                    \* serper_enriched
        email     : Emails \cup {NoEmail},      \* candidate_email
        canonical : Canonical \cup {"none"},    \* canonical_status
        reason    : Reasons]                    \* failure_reason

FreshRow(s) ==
    [state |-> s, attempts |-> 0, requeues |-> 0, tunnel |-> 0, bbops |-> 0,
     held |-> FALSE, stale |-> FALSE, enriched |-> FALSE, email |-> NoEmail,
     canonical |-> "none", reason |-> "none"]

-----------------------------------------------------------------------------
(* records.py *)

claimable(x) == x.state = "DISCOVERED" /\ ~x.held

fetch_pending_validation(x) == [x EXCEPT !.state = "VALIDATING", !.stale = FALSE]

\* burn: increment_attempts, hold: a retry_after in the future is given.
requeue_record(x, burn, hold, infra) ==
    [x EXCEPT !.state    = "DISCOVERED",
              !.attempts = IF burn THEN @ + 1 ELSE @,
              !.requeues = @ + 1,
              !.tunnel   = IF infra = "tunnel" THEN @ + 1 ELSE @,
              !.bbops    = IF infra = "bbops" THEN @ + 1 ELSE @,
              !.held     = hold,
              !.stale    = FALSE]

update_record_status(x, s) == [x EXCEPT !.state = s, !.stale = FALSE]

update_record_failed(x, why) ==
    [update_record_status(x, "VALIDATION_FAILED") EXCEPT !.reason = why]

\* candidate_email and failure_reason are left alone when not given.
update_record_dual(x, s, verdict, addr, delta, why) ==
    [x EXCEPT !.state     = s,
              !.canonical = normalize_verdict(verdict),
              !.attempts  = @ + delta,
              !.email     = IF addr = NoEmail THEN @ ELSE addr,
              !.reason    = IF why = "none" THEN @ ELSE why,
              !.stale     = FALSE]

\* Mutant: the recovery asks for the wrong state.
recoverDiscovering(x) ==
    IF x.state = "DISCOVERING" /\ x.stale THEN [x EXCEPT !.state = "DISCOVERED"] ELSE x

recover_stale_validating(x) ==
    IF x.state = "VALIDATING" /\ x.stale
    THEN [x EXCEPT !.state = "DISCOVERED", !.attempts = @ + 1, !.stale = FALSE]
    ELSE x

mark_serper_enriched(x) == [x EXCEPT !.enriched = TRUE, !.stale = FALSE]

-----------------------------------------------------------------------------
(* zuhal_queue.py *)

handoff_to_zuhal(x, addr) ==
    [x EXCEPT !.state = "NEEDS_ZUHAL", !.email = addr, !.stale = FALSE]

\* Mutant: rows are read without being claimed.
fetchWithoutClaim(x) == [x EXCEPT !.stale = FALSE]

fetch_pending_zuhal(x) == [x EXCEPT !.state = "ZUHAL_VALIDATING", !.stale = FALSE]

requeue_zuhal(x) == [x EXCEPT !.state = "NEEDS_ZUHAL", !.stale = FALSE]

\* Mutant: orphans go back to the SMTP stage.
recoverToDiscovered(x) ==
    IF x.state = "ZUHAL_VALIDATING" /\ x.stale THEN [x EXCEPT !.state = "DISCOVERED"] ELSE x

recover_stale_zuhal_validating(x) ==
    IF x.state = "ZUHAL_VALIDATING" /\ x.stale THEN requeue_zuhal(x) ELSE x

touch_zuhal_validating(x) ==
    IF x.state = "ZUHAL_VALIDATING" THEN [x EXCEPT !.stale = FALSE] ELSE x

-----------------------------------------------------------------------------
(* meta.py: reset --status <state> [--phase <phase>] [--unverified-only]   *)

\* Mutant: the WHERE clause on the state is missing.
resetWhateverState(x, s, phase, unverified_only) ==
    IF phase \/ x.state \notin Terminal \/ (unverified_only /\ x.canonical # "none") THEN x
    ELSE [x EXCEPT !.state = "DISCOVERED", !.attempts = 0, !.stale = FALSE]

\* A phase asks for rows with an entry in `failures`, which nothing writes to:
\* insert_failure has no caller.
reset_failed_records(x, s, phase, unverified_only) ==
    IF phase \/ x.state # s THEN x
    ELSE IF s \in {"VALIDATION_FAILED", "COST_SKIPPED"}
    THEN IF unverified_only /\ x.canonical # "none" THEN x
         ELSE [x EXCEPT !.state = "DISCOVERED", !.attempts = 0, !.stale = FALSE]
    ELSE [x EXCEPT !.state = "RAW", !.stale = FALSE]

=============================================================================
