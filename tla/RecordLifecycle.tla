-------------------------- MODULE RecordLifecycle --------------------------
(***************************************************************************)
(* What the verification stages promise about every record, without saying *)
(* how: a record waits, is claimed, and leaves a claim by being settled,   *)
(* handed to the paid stage or given back; it is given back a bounded      *)
(* number of times; a record that was accepted is accepted for good, and a *)
(* record in the paid stage never returns to the free one.                 *)
(***************************************************************************)
EXTENDS Naturals

CONSTANTS Records, MaxReturns

VARIABLES phase,      \* [Records -> Phases]
          returns     \* how often the free stage has given a record back

lifeVars == <<phase, returns>>

Settled == {"accepted", "failed", "skipped"}
Phases == {"absent", "waiting", "claimed", "paid", "paidClaimed"} \cup Settled

Init ==
    /\ phase = [r \in Records |-> "absent"]
    /\ returns = [r \in Records |-> 0]

\* Every record of S moves from one of the phases in `from` to `to`.
Move(S, from, to) ==
    /\ \A r \in S : phase[r] \in from
    /\ phase' = [r \in Records |-> IF r \in S THEN to ELSE phase[r]]
    /\ UNCHANGED returns

Appear(r) == Move({r}, {"absent"}, "waiting")

Claim(S) == Move(S, {"waiting"}, "claimed")

GiveBack(r) ==
    /\ phase[r] = "claimed" /\ returns[r] < MaxReturns
    /\ phase' = [phase EXCEPT ![r] = "waiting"]
    /\ returns' = [returns EXCEPT ![r] = @ + 1]

Settle(r) == \E s \in Settled : Move({r}, {"claimed", "paidClaimed"}, s)

HandOver(r) == Move({r}, {"claimed"}, "paid")

ClaimPaid(S) == Move(S, {"paid"}, "paidClaimed")

ReturnPaid(S) == Move(S, {"paidClaimed"}, "paid")

\* Claims of a run that died are put back; the operator re-opens records.
Recover(S) == Move(S, {"claimed"}, "waiting")
Reopen(S) == Move(S, {"failed", "skipped"}, "waiting")

Next ==
    \/ \E r \in Records : Appear(r) \/ GiveBack(r) \/ Settle(r) \/ HandOver(r)
    \/ \E S \in SUBSET Records :
          Claim(S) \/ ClaimPaid(S) \/ ReturnPaid(S) \/ Recover(S) \/ Reopen(S)

Spec == Init /\ [][Next]_lifeVars

=============================================================================
