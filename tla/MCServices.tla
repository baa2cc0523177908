----------------------------- MODULE MCServices -----------------------------
(***************************************************************************)
(* The services around the pipeline share no state with one another: a     *)
(* behaviour is one of a single service, chosen in the initial state, and  *)
(* the run checks them all.  Any search key may have an entry in the cache *)
(* from an earlier run; the producer's two calls share one.                *)
(***************************************************************************)
EXTENDS SerperClient, ZuhalClient, FleetSupervisor, Passoff

VARIABLE service

services == <<service, serper, zuhalClient, fleet, supervisor, passoff>>

MCKey == [c \in Callers |-> IF c \in Hinted THEN "k1" ELSE "k2"]

MCDomain == [r \in Recipients |-> IF r = "c" THEN "y" ELSE "x"]

MCSpawned == <<"r1", "r2">>

row_(e) == [email |-> e, ok |-> TRUE]

MCFiles == <<"zuhaled", "bounced">>

\* The second file names an address of the first, and one of its own twice.
MCResults == [zuhaled |-> <<row_("q"), row_("p")>>,
              bounced |-> <<row_("p"), row_("r"), row_("r")>>]

Init ==
    /\ service \in {"serper", "zuhal", "fleet", "supervisor", "passoff"}
    /\ SerperInit /\ ZuhalClientInit /\ FleetInit /\ SupervisorInit /\ PassoffInit
    /\ service # "serper" => cache = {}

noSerper  == UNCHANGED serper
noZuhal   == UNCHANGED zuhalClient
noFleet   == UNCHANGED <<fleet, supervisor>>
noPassoff == UNCHANGED passoff

SerperStep ==
    service = "serper" /\ UNCHANGED service /\ SerperNext /\ noZuhal /\ noFleet /\ noPassoff

ZuhalStep ==
    service = "zuhal" /\ UNCHANGED service /\ ZuhalClientNext /\ noSerper /\ noFleet /\ noPassoff

FleetStep ==
    /\ service = "fleet" /\ UNCHANGED service
    /\ Minute \/ TunnelFlaps("w1") \/ (\E r \in Recipients : Verify(r))
    /\ UNCHANGED supervisor /\ noSerper /\ noZuhal /\ noPassoff

\* Beside the supervisor one recipient is verified, over and over, and never blocked.
probe ==
    \/ Arrive("a") \/ PassGate("a") \/ Pick("a") \/ NobodyLeft("a") \/ OutcomeStored("a")
    \/ \E s \in {"valid", "error"} : Probed("a", s)

SupervisedStep ==
    /\ service = "supervisor" /\ UNCHANGED service
    /\ SupervisorStep \/ (probe /\ UNCHANGED supervisor)
    /\ noSerper /\ noZuhal /\ noPassoff

PassoffStep ==
    service = "passoff" /\ UNCHANGED service /\ PassoffNext /\ noSerper /\ noZuhal /\ noFleet

Next == SerperStep \/ ZuhalStep \/ FleetStep \/ SupervisedStep \/ PassoffStep

Fairness ==
    /\ WF_serper(service = "serper" /\ LimiterStep)
    /\ \A c \in Callers : WF_serper(service = "serper" /\ Enrich(c))

Spec == Init /\ [][Next]_services /\ Fairness

=============================================================================
