------------------------------ MODULE Verdicts ------------------------------
(***************************************************************************)
(* The pure decision logic of the SMTP stage: the verdicts the two         *)
(* backends return, the OR-of-valids policy that reconciles them           *)
(* (pipeline/reconcile.py) and the normalisation of provider dialects into *)
(* the canonical vocabulary (pipeline/verdicts.py).                        *)
(*                                                                         *)
(* A verdict is its status.  The two error messages the dispatcher looks   *)
(* at are members of their own: "tunnel_down" is an error whose message    *)
(* contains "tunnel not up", "greylisted" one that contains                *)
(* "(4xx temporary)".                                                      *)
(***************************************************************************)

Definitive == {"valid", "invalid", "catch_all"}

Inconclusive == {"error", "tunnel_down", "greylisted", "blocked", "not_run"}

\* Racknerd can return every status; bbops has no tunnel and no greylisting.
RkVerdict == Definitive \cup Inconclusive
BbVerdict == Definitive \cup {"error", "not_run"}

\* Mutant: Racknerd's rejection wins over bbops.
reconcileRacknerdFirst(rk, bb) ==
    CASE rk = "invalid"                                      -> "invalid"
      [] rk # "invalid" /\ "valid" \in {rk, bb}              -> "valid"
      [] OTHER                                               -> "unknown"

(* The reconciled outcome; "unknown" is the only one that is not written.  *)
reconcile(rk, bb) ==
    CASE "valid" \in {rk, bb}                                -> "valid"
      [] "valid" \notin {rk, bb} /\ "catch_all" \in {rk, bb} -> "catch_all"
      [] rk = "invalid" /\ bb \in {"invalid", "not_run"}     -> "invalid"
      [] rk = "not_run" /\ bb = "invalid"                    -> "invalid"
      [] OTHER                                               -> "unknown"

Canonical == {"valid", "invalid", "catch_all", "unknown",
              "do_not_mail", "abuse", "disposable"}

\* Mutant: what the table does not know is stored as it came.
normalizeRaw(raw) == IF raw = "ms_valid" THEN "valid" ELSE raw

\* Raw spellings are folded (case, hyphens, blanks) before the alias table is
\* consulted; the raw values here are the folded ones.
normalize_verdict(raw) ==
    CASE raw \in {"ms_valid", "dual_valid", "bbops_valid", "deliverable"}   -> "valid"
      [] raw \in {"accept_all", "acceptall", "catchall", "dual_catch_all"}  -> "catch_all"
      [] raw = "dual_invalid"                                               -> "invalid"
      [] raw \in {"spamtrap", "toxic"}                                      -> "do_not_mail"
      [] raw \in Canonical                                                  -> raw
      [] OTHER                                                              -> "unknown"

=============================================================================
