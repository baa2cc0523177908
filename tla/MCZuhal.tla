------------------------------ MODULE MCZuhal ------------------------------
(* Small instances of ZuhalDispatcher for TLC. *)
EXTENDS ZuhalDispatcher

CONSTANTS r1, r2, r3, a1, a2, a3, j1, j2

OwnMail   == [r \in Records |-> CASE r = r1 -> a1 [] r = r2 -> a2 [] r = r3 -> a3]
SameMail  == [r \in Records |-> a1]

NothingCached == [e \in Emails |-> "none"]
FirstCached   == [e \in Emails |-> IF e = a1 THEN "valid" ELSE "none"]

=============================================================================
