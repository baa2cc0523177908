---------------------------- MODULE MCDispatcher ----------------------------
(* Small instances of Dispatcher for TLC. *)
EXTENDS Dispatcher

CONSTANTS r1, r2, a1, a2, a3, a4, a5

\* Candidates: worth a paid call, not worth one, scraped from the site, found in
\* a search result, malformed.
Best == [addr |-> a1, wf |-> TRUE, paid |-> TRUE, strong |-> TRUE]
Weak == [addr |-> a2, wf |-> TRUE, paid |-> FALSE, strong |-> FALSE]
Scraped == [addr |-> a4, wf |-> TRUE, paid |-> FALSE, strong |-> FALSE]
Snippet == [addr |-> a5, wf |-> TRUE, paid |-> TRUE, strong |-> TRUE]
Bad  == [addr |-> a3, wf |-> FALSE, paid |-> FALSE, strong |-> FALSE]

CandBestWeak   == [r \in Records |-> <<Best, Weak>>]
CandBadBest    == [r \in Records |-> <<Bad, Best, Weak>>]
CandBestBad    == [r \in Records |-> <<Best, Bad>>]
CandBest       == [r \in Records |-> <<Best>>]
CandSomeEmpty  == [r \in Records |-> IF r = r2 THEN <<>> ELSE <<Best, Weak>>]

\* Settings.
Free      == {[zuhal |-> "none", onBothInvalid |-> FALSE]}
Paid      == [zuhal : {"inline", "decoupled"}, onBothInvalid : BOOLEAN]

Nothing      == {}
MaybeScraped == {<<>>, <<Scraped>>}
MaybeSnippet == {<<>>, <<Snippet>>}

=============================================================================
