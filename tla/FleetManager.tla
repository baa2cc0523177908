---------------------------- MODULE FleetManager ----------------------------
(***************************************************************************)
(* The SMTP fleet (pipeline/fleet/manager.py, worker.py, balancer.py,      *)
(* health.py): verify() takes the gate of the recipient's domain, picks    *)
(* the least loaded routable worker or the one that had the address        *)
(* before, and goes to another one when the first is blocked.              *)
(*                                                                         *)
(* A worker is its name; Recipients stand for addresses, each verified by  *)
(* one task at a time, again and again.  Time passes in units of which     *)
(* Cooldown make fleet_block_cooldown_s.                                   *)
(***************************************************************************)
EXTENDS Naturals, Sequences, SequencesExt, Places

CONSTANTS
    Names,              (* worker_id                                        *)
    InitialPool,
    Recipients, Domain, (* addresses, and the domain of each                *)
    Concurrency,        (* racknerd_concurrency of a worker                 *)
    DomainConcurrency,  (* fleet_domain_concurrency                         *)
    MaxGates,           (* FLEET_DOMAIN_SEM_MAX                             *)
    MaxReroutes, Cooldown,
    MaxFailures,        (* max_consecutive_failures                         *)
    MinSamples          (* min_samples                                      *)

NoWorker == "none"

ASSUME FleetAssumption ==
    /\ InitialPool \subseteq Names /\ NoWorker \notin Names /\ DOMAIN Domain = Recipients
    /\ {Concurrency, DomainConcurrency, MaxGates, MaxFailures, MinSamples} \subseteq Nat \ {0}
    /\ {MaxReroutes, Cooldown} \subseteq Nat

VARIABLES
    pool,                        \* _workers
    draining, down,              \* workers draining, workers whose tunnel is down
    inflight, cooling,           \* of every worker: load, time to cool,
    failures, samples,           \* failures in a row, length of the window up to MinSamples
    vpc, tried, on, age,         \* of every verify(): await, tried, worker, time since "now"
    affinity,                    \* _affinity
    gates, inside                \* _domain_sems in LRU order, and who holds each

health       == <<failures, samples>>
fleetWorkers == <<pool, draining, down, inflight, cooling, health>>
fleetProbes  == <<vpc, tried, on, age, affinity, gates, inside>>
fleet        == <<fleetWorkers, fleetProbes>>

Domains == {Domain[r] : r \in Recipients}

FleetTypeOK ==
    /\ {pool, draining, down} \subseteq SUBSET Names
    /\ inflight \in [Names -> 0..Concurrency] /\ cooling \in [Names -> 0..Cooldown]
    /\ failures \in [Names -> 0..MaxFailures] /\ samples \in [Names -> 0..MinSamples]
    /\ vpc \in [Recipients -> {"idle", "gate", "pick", "probe", "stored", "blocked"}]
    /\ tried \in [Recipients -> SUBSET Names] /\ age \in [Recipients -> 0..Cooldown]
    /\ {on, affinity} \subseteq [Recipients -> Names \cup {NoWorker}]
    /\ ToSet(gates) \subseteq Domains /\ IsInjective(gates)
    /\ inside \in [Domains -> SUBSET Recipients]

FleetInit ==
    /\ pool = InitialPool /\ draining = {} /\ down = {}
    /\ inflight = [w \in Names |-> 0] /\ cooling = [w \in Names |-> 0]
    /\ failures = [w \in Names |-> 0] /\ samples = [w \in Names |-> 0]
    /\ vpc = [r \in Recipients |-> "idle"] /\ tried = [r \in Recipients |-> {}]
    /\ on = [r \in Recipients |-> NoWorker] /\ age = [r \in Recipients |-> 0]
    /\ affinity = [r \in Recipients |-> NoWorker]
    /\ gates = <<>> /\ inside = [d \in Domains |-> {}]

-----------------------------------------------------------------------------
(* The gate of a domain                                                    *)

\* _domain_active: holders and waiters.
active == {Domain[r] : r \in {x \in Recipients : vpc[x] # "idle"}}

\* Mutant: the least recently used gate goes, whoever is in it.
evictOldest == Tail(gates)

\* The gates in S, in the order they have.
onlyGates(S) == At(gates, {i \in DOMAIN gates : gates[i] \in S})

\* _evict_idle_domain_gates: idle ones, from the oldest, until there is room.
evictIdle ==
    LET idle    == {i \in DOMAIN gates : gates[i] \notin active}
        evicted == {i \in idle : upTo(idle, i) <= Len(gates) - MaxGates + 1}
    IN  onlyGates(ToSet(gates) \ {gates[i] : i \in evicted})

Arrive(r) ==
    LET d     == Domain[r]
        known == d \in ToSet(gates)
        kept  == IF known THEN onlyGates(ToSet(gates) \ {d})
                 ELSE IF Len(gates) >= MaxGates THEN evictIdle ELSE gates
    IN  /\ vpc[r] = "idle" /\ vpc' = [vpc EXCEPT ![r] = "gate"]
        /\ gates' = Append(kept, d)
        /\ inside' = IF known THEN inside ELSE [inside EXCEPT ![d] = {}]
        /\ UNCHANGED <<tried, on, age, affinity, fleetWorkers>>

PassGate(r) ==
    /\ vpc[r] = "gate" /\ Cardinality(inside[Domain[r]]) < DomainConcurrency
    /\ inside' = [inside EXCEPT ![Domain[r]] = @ \cup {r}]
    /\ vpc' = [vpc EXCEPT ![r] = "pick"]
    /\ UNCHANGED <<tried, on, age, affinity, gates, fleetWorkers>>

Leave(r) ==
    /\ vpc' = [vpc EXCEPT ![r] = "idle"] /\ tried' = [tried EXCEPT ![r] = {}]
    /\ on' = [on EXCEPT ![r] = NoWorker] /\ age' = [age EXCEPT ![r] = 0]
    /\ inside' = [inside EXCEPT ![Domain[r]] = @ \ {r}]

-----------------------------------------------------------------------------
(* A probe                                                                 *)

is_routable(w) == w \in pool \ draining /\ cooling[w] = 0 /\ w \notin down

eligible(r) == {w \in pool \ tried[r] : is_routable(w) /\ inflight[w] < Concurrency}

\* _pick: the worker of the last time, or one that is least loaded.
picks(r) ==
    IF affinity[r] \in eligible(r) THEN {affinity[r]}
    ELSE {w \in eligible(r) : \A v \in eligible(r) : inflight[w] <= inflight[v]}

Pick(r) ==
    /\ vpc[r] = "pick" /\ picks(r) # {}
    /\ \E w \in picks(r) :
         /\ on' = [on EXCEPT ![r] = w] /\ tried' = [tried EXCEPT ![r] = @ \cup {w}]
         /\ affinity' = [affinity EXCEPT ![r] = w]
         /\ inflight' = [inflight EXCEPT ![w] = @ + 1]
    /\ age' = [age EXCEPT ![r] = 0]
    /\ vpc' = [vpc EXCEPT ![r] = "probe"]
    /\ UNCHANGED <<pool, draining, down, cooling, health, gates, inside>>

\* "no routable worker", or the last blocked verdict.
NobodyLeft(r) ==
    /\ vpc[r] = "pick" /\ picks(r) = {}
    /\ Leave(r)
    /\ UNCHANGED <<affinity, gates, fleetWorkers>>

\* Blocks and errors count against the worker; then the outcome is stored.
Probed(r, status) ==
    LET w == on[r] IN
    /\ vpc[r] = "probe"
    /\ w \in down => status = "error"
    /\ inflight' = [inflight EXCEPT ![w] = @ - 1]
    /\ failures' = [failures EXCEPT ![w] =
                      IF status \in {"blocked", "error"} THEN Min({@ + 1, MaxFailures}) ELSE 0]
    /\ samples' = [samples EXCEPT ![w] = Min({@ + 1, MinSamples})]
    /\ vpc' = [vpc EXCEPT ![r] = IF status = "blocked" THEN "blocked" ELSE "stored"]
    /\ UNCHANGED <<pool, draining, down, cooling, tried, on, age, affinity, gates, inside>>

OutcomeStored(r) ==
    /\ vpc[r] = "stored" /\ Leave(r)
    /\ UNCHANGED <<affinity, gates, fleetWorkers>>

\* cool() counts from the time of the pick and forgets a later end.
Reroute(r) ==
    /\ vpc[r] = "blocked"
    /\ cooling' = [cooling EXCEPT ![on[r]] = Cooldown - age[r]]
    /\ IF Cardinality(tried[r]) > MaxReroutes
       THEN Leave(r)
       ELSE /\ vpc' = [vpc EXCEPT ![r] = "pick"] /\ on' = [on EXCEPT ![r] = NoWorker]
            /\ age' = [age EXCEPT ![r] = 0] /\ UNCHANGED <<tried, inside>>
    /\ UNCHANGED <<pool, draining, down, inflight, health, affinity, gates>>

Minute ==
    /\ cooling' = [w \in Names |-> IF cooling[w] > 0 THEN cooling[w] - 1 ELSE 0]
    /\ age' = [r \in Recipients |-> IF vpc[r] \in {"probe", "blocked"}
                                    THEN Min({age[r] + 1, Cooldown}) ELSE 0]
    /\ UNCHANGED <<pool, draining, down, inflight, health, vpc, tried, on, affinity, gates, inside>>

\* A tunnel goes down, or comes up again (see SshTunnel).
TunnelFlaps(w) ==
    /\ w \in pool /\ down' = IF w \in down THEN down \ {w} ELSE down \cup {w}
    /\ UNCHANGED <<pool, draining, inflight, cooling, health, fleetProbes>>

Verify(r) ==
    \/ Arrive(r) \/ PassGate(r) \/ Pick(r) \/ NobodyLeft(r)
    \/ OutcomeStored(r) \/ Reroute(r)
    \/ \E s \in {"valid", "blocked", "error"} : Probed(r, s)

FleetNext ==
    Minute \/ (\E w \in Names : TunnelFlaps(w)) \/ (\E r \in Recipients : Verify(r))

(* classify: reputation, unless the tunnel is down.  What share of a       *)
(* window of enough samples was blocked or failed is a choice of its own   *)
(* for every worker that is looked at.                                     *)
degraded(overRate) ==
    {w \in pool \ (down \cup draining) :
        failures[w] >= MaxFailures \/ (samples[w] >= MinSamples /\ overRate)}

-----------------------------------------------------------------------------

(* No recipient domain is ever probed by more tasks than                   *)
(* domain_concurrency, although gates are evicted and made anew while      *)
(* others hold them or wait.                                               *)
DomainCapHeld ==
    \A d \in Domains :
        Cardinality({r \in Recipients : Domain[r] = d /\ vpc[r] \notin {"idle", "gate"}})
          <= DomainConcurrency

=============================================================================
