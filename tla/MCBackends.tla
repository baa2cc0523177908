----------------------------- MODULE MCBackends -----------------------------
(***************************************************************************)
(* A behaviour is of one of three parts, chosen in the initial state: the  *)
(* race with all of bbops and probes of one step, the race with all of     *)
(* Racknerd and a bbops that does not answer, or a tunnel by itself.       *)
(***************************************************************************)
EXTENDS Backends, SshTunnel

VARIABLE part

backends == <<part, racknerd, bbops, races, tunnel>>

MCEmail == [r \in Records |-> "e"]

MCRaces == [r \in Records |-> IF r = "r" THEN 2 ELSE 1]

MCDomainOf == [r \in Records |-> IF r = "s" THEN "d2" ELSE "d1"]

MCExchangers == [d \in {"d1", "d2"} |-> IF d = "d1" THEN <<"g", "h">> ELSE <<"h">>]

Init == part \in {"bbops", "racknerd", "tunnel"} /\ BackendsInit /\ TunnelInit

probed(r) == kpc[r] = "sem" /\ Verdict(r, "valid")

\* Bounds: stop() comes in the last process, malformed replies to the first batch.
bounded == (stopped' => crashes = MaxCrashes) /\ \A b \in Batches \ {1} : task'[b] # "dead"

BbopsPart ==
    /\ part = "bbops" /\ UNCHANGED <<part, tunnel>>
    /\ \/ Crash \/ \E r \in Records : Race(r)
       \/ probed("r") /\ UNCHANGED <<racknerdShared, bbops, races>>
       \/ BbopsNext /\ bounded /\ UNCHANGED <<racknerd, races>>

RacknerdPart ==
    /\ part = "racknerd" /\ UNCHANGED <<part, tunnel>>
    /\ \/ \E r \in Records : RunBackends(r) \/ RacknerdTimesOut(r) \/ BbopsTimesOut(r) \/ Settle(r)
       \/ (TimePasses \/ TunnelChanges \/ \E r \in Records : ProbeStep(r)) /\ UNCHANGED <<bbops, races>>

TunnelPart == part = "tunnel" /\ TunnelStep /\ UNCHANGED <<part, racknerd, bbops, races>>

Next == BbopsPart \/ RacknerdPart \/ TunnelPart

Spec == Init /\ [][Next]_backends

=============================================================================
