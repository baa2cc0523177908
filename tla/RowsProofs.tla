----------------------------- MODULE RowsProofs -----------------------------
(***************************************************************************)
(* What the UPDATEs of Rows preserve: each of them takes a row to a row,   *)
(* and the counters move as the WHERE and SET clauses say.  The components *)
(* that share the table cite these lemmas.                                 *)
(***************************************************************************)
EXTENDS Rows, TLAPS

\* Whatever a provider answers is stored as a canonical status (verdicts.py).
LEMMA NormalizeCanonical ==
    ASSUME NEW raw
    PROVE  normalize_verdict(raw) \in Canonical
BY DEF normalize_verdict, Canonical

\* The policy knows four outcomes (reconcile.py).
LEMMA ReconcileOutcome ==
    ASSUME NEW rk, NEW bb
    PROVE  reconcile(rk, bb) \in {"valid", "invalid", "catch_all", "unknown"}
BY DEF reconcile

\* A row the producer writes is well formed and starts with clean counters.
LEMMA FreshRowType ==
    ASSUME NEW s \in States
    PROVE  FreshRow(s) \in Row
BY DEF FreshRow, Row, Reasons

\* What two rows have in common when an UPDATE leaves the counters alone.
SameCounters(x, y) ==
    /\ y.attempts = x.attempts /\ y.requeues = x.requeues
    /\ y.tunnel = x.tunnel /\ y.bbops = x.bbops

\* Claiming a row changes its state only (fetch_pending_validation).
LEMMA ClaimRow ==
    ASSUME NEW x \in Row
    PROVE  LET y == fetch_pending_validation(x) IN
           y \in Row /\ y.state = "VALIDATING" /\ SameCounters(x, y)
BY DEF fetch_pending_validation, Row, States, SameCounters

\* A requeue counts one round, at most one attempt, and one for the backend
\* that was down (requeue_record).
LEMMA RequeueRow ==
    ASSUME NEW x \in Row, NEW burn \in BOOLEAN, NEW hold \in BOOLEAN, NEW infra
    PROVE  LET y == requeue_record(x, burn, hold, infra) IN
           /\ y \in Row /\ y.state = "DISCOVERED"
           /\ y.requeues = x.requeues + 1
           /\ y.attempts \in {x.attempts, x.attempts + 1}
           /\ y.tunnel = IF infra = "tunnel" THEN x.tunnel + 1 ELSE x.tunnel
           /\ y.bbops = IF infra = "bbops" THEN x.bbops + 1 ELSE x.bbops
<1> DEFINE a == IF burn THEN x.attempts + 1 ELSE x.attempts
           t == IF infra = "tunnel" THEN x.tunnel + 1 ELSE x.tunnel
           b == IF infra = "bbops" THEN x.bbops + 1 ELSE x.bbops
           y == [x EXCEPT !.state = "DISCOVERED", !.attempts = a, !.requeues = x.requeues + 1,
                          !.tunnel = t, !.bbops = b, !.held = hold, !.stale = FALSE]
<1>1. requeue_record(x, burn, hold, infra) = y
    BY DEF requeue_record
<1>2. a \in Nat /\ t \in Nat /\ b \in Nat /\ x.requeues + 1 \in Nat
    BY DEF Row
<1>3. a \in {x.attempts, x.attempts + 1}
    OBVIOUS
<1> HIDE DEF a, t, b
<1>4. y \in Row
    BY <1>2 DEF Row, States
<1>5. /\ y.state = "DISCOVERED" /\ y.requeues = x.requeues + 1
      /\ y.attempts = a /\ y.tunnel = t /\ y.bbops = b
    BY DEF Row
<1> HIDE DEF y
<1>6. QED
    BY <1>1, <1>3, <1>4, <1>5 DEF t, b

\* A status update leaves the counters alone (update_record_status).
LEMMA StatusRow ==
    ASSUME NEW x \in Row, NEW s \in States
    PROVE  LET y == update_record_status(x, s) IN
           y \in Row /\ y.state = s /\ SameCounters(x, y)
BY DEF update_record_status, Row, SameCounters

\* So does a failure that is given a reason (Dispatcher._fail).
LEMMA FailedRow ==
    ASSUME NEW x \in Row, NEW why \in Reasons
    PROVE  LET y == update_record_failed(x, why) IN
           y \in Row /\ y.state = "VALIDATION_FAILED" /\ SameCounters(x, y)
BY DEF update_record_failed, update_record_status, Row, States, SameCounters

\* A terminal verdict adds `delta` attempts and no requeue (update_record_dual).
LEMMA DualRow ==
    ASSUME NEW x \in Row, NEW s \in States, NEW verdict,
           NEW addr \in Emails \cup {NoEmail}, NEW delta \in Nat, NEW why \in Reasons
    PROVE  LET y == update_record_dual(x, s, verdict, addr, delta, why) IN
           /\ y \in Row /\ y.state = s
           /\ y.attempts = x.attempts + delta /\ y.requeues = x.requeues
           /\ y.tunnel = x.tunnel /\ y.bbops = x.bbops
<1> DEFINE c == normalize_verdict(verdict)
           e == IF addr = NoEmail THEN x.email ELSE addr
           w == IF why = "none" THEN x.reason ELSE why
           y == [x EXCEPT !.state = s, !.canonical = c, !.attempts = x.attempts + delta,
                          !.email = e, !.reason = w, !.stale = FALSE]
<1>1. update_record_dual(x, s, verdict, addr, delta, why) = y
    BY DEF update_record_dual
<1>2. /\ c \in Canonical \cup {"none"} /\ e \in Emails \cup {NoEmail} /\ w \in Reasons
      /\ x.attempts + delta \in Nat
    BY NormalizeCanonical DEF Row
<1> HIDE DEF c, e, w
<1>3. y \in Row
    BY <1>2 DEF Row
<1>4. /\ y.state = s /\ y.attempts = x.attempts + delta /\ y.requeues = x.requeues
      /\ y.tunnel = x.tunnel /\ y.bbops = x.bbops
    BY DEF Row
<1> HIDE DEF y
<1>5. QED
    BY <1>1, <1>3, <1>4

\* A stale claim goes back with one attempt more, any other row is left alone
\* (recover_stale_validating).
LEMMA RecoverRow ==
    ASSUME NEW x \in Row
    PROVE  LET y == recover_stale_validating(x) IN
           /\ y \in Row
           /\ \/ y = x
              \/ x.state = "VALIDATING" /\ y.state = "DISCOVERED"
           /\ y.attempts \in {x.attempts, x.attempts + 1} /\ y.requeues = x.requeues
           /\ y.tunnel = x.tunnel /\ y.bbops = x.bbops
<1> DEFINE a == x.attempts + 1
           y == [x EXCEPT !.state = "DISCOVERED", !.attempts = a, !.stale = FALSE]
<1>1. recover_stale_validating(x) = IF x.state = "VALIDATING" /\ x.stale THEN y ELSE x
    BY DEF recover_stale_validating
<1>2. a \in Nat
    BY DEF Row
<1> HIDE DEF a
<1>3. /\ y \in Row
      /\ y.state = "DISCOVERED" /\ y.attempts = a /\ y.requeues = x.requeues
      /\ y.tunnel = x.tunnel /\ y.bbops = x.bbops
    BY <1>2 DEF Row, States
<1> HIDE DEF y
<1>4. CASE x.state = "VALIDATING" /\ x.stale
    BY <1>1, <1>3, <1>4 DEF a
<1>5. CASE ~(x.state = "VALIDATING" /\ x.stale)
  <2>1. recover_stale_validating(x) = x
    BY <1>1, <1>5
  <2>2. QED
    BY <2>1
<1>6. QED
    BY <1>4, <1>5

\* Handing a row to the paid stage leaves the counters alone (handoff_to_zuhal).
LEMMA HandoffRow ==
    ASSUME NEW x \in Row, NEW addr \in Emails
    PROVE  LET y == handoff_to_zuhal(x, addr) IN
           y \in Row /\ y.state = "NEEDS_ZUHAL" /\ SameCounters(x, y)
BY DEF handoff_to_zuhal, Row, States, SameCounters

\* Marking a row as enriched leaves its state alone (mark_serper_enriched).
LEMMA EnrichedRow ==
    ASSUME NEW x \in Row
    PROVE  LET y == mark_serper_enriched(x) IN
           y \in Row /\ y.state = x.state /\ SameCounters(x, y)
BY DEF mark_serper_enriched, Row, SameCounters

=============================================================================
