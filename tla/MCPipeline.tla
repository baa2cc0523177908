----------------------------- MODULE MCPipeline -----------------------------
(* Three lines in two chunks, the second of which holds a line that cannot *)
(* be parsed; two records.                                                 *)
EXTENDS Pipeline

CONSTANTS u1, u2

TwoRecords == <<u1, "bad", u2>>
InOrder    == <<u1, u2>>

=============================================================================
