--------------------------- MODULE FleetSupervisor ---------------------------
(***************************************************************************)
(* The supervisor of the fleet (pipeline/fleet/control.py, provisioner.py):*)
(* one task that replaces workers whose address has lost its reputation    *)
(* and scales the pool on request, against a cloud account                 *)
(* (cherry_client.py) and an inventory file that outlives the process.     *)
(***************************************************************************)
EXTENDS FleetManager, FiniteSets

CONSTANTS
    Spawned,           (* names of new workers, in order; bounds the spawns *)
    Managed, Reserve,  (* workers this tool may delete; kept on scale-down  *)
    MaxReprovisions, ScaleMin, ScaleMax

ASSUME SupervisorAssumption ==
    /\ Spawned \in Seq(Managed \ InitialPool) /\ IsInjective(Spawned)
    /\ Managed \cup Reserve \subseteq Names /\ IsFiniteSet(InitialPool)
    /\ {MaxReprovisions, ScaleMin, ScaleMax} \subseteq Nat /\ ScaleMin <= ScaleMax
    /\ Cardinality(InitialPool) \in ScaleMin..ScaleMax

VARIABLES
    cpc,               \* await the supervisor is in
    task,              \* [old] of a replacement, NoWorker when scaling
    toVisit, goal,     \* workers still to look at, or to remove; target of scale_to
    _reprovisions, _spawn_seq,
    servers,           \* the account: servers that are billed
    inventory,         \* hosts.json
    strays             \* history: servers that were given up in a way that is logged

supervisor == <<cpc, task, toVisit, goal, _reprovisions, _spawn_seq, servers, inventory, strays>>

NoGoal == ScaleMax + 1

SupervisorTypeOK ==
    /\ cpc \in {"idle", "credit", "create", "active", "tunnel", "stop", "delete"}
    /\ task \in Names \cup {NoWorker} /\ toVisit \subseteq Names /\ goal \in 0..NoGoal
    /\ _reprovisions \in 0..MaxReprovisions /\ _spawn_seq \in 0..Len(Spawned)
    /\ {servers, inventory, strays} \subseteq SUBSET Names

SupervisorInit ==
    /\ cpc = "idle" /\ task = NoWorker /\ toVisit = {} /\ goal = NoGoal
    /\ _reprovisions = 0 /\ _spawn_seq = 0
    /\ servers = InitialPool /\ inventory = InitialPool /\ strays = {}

account == <<servers, inventory, strays>>
inPool  == <<down, inflight, cooling, health, fleetProbes>>

-----------------------------------------------------------------------------

\* monitor_once takes a copy of the pool and looks at one after the other.
Cycle ==
    /\ cpc = "idle" /\ toVisit = {} /\ goal = NoGoal
    /\ toVisit' = pool
    /\ UNCHANGED <<cpc, task, goal, _reprovisions, _spawn_seq, account, fleet>>

Look ==
    /\ cpc = "idle" /\ goal = NoGoal /\ toVisit # {}
    /\ \E w \in toVisit, overRate \in BOOLEAN :
         /\ toVisit' = toVisit \ {w}
         /\ IF w \in degraded(overRate) \cap Managed
            THEN cpc' = "credit" /\ task' = w
            ELSE UNCHANGED <<cpc, task>>
    /\ UNCHANGED <<goal, _reprovisions, _spawn_seq, account, fleet>>

\* Mutant: whoever has the least to do goes.
removeAny == pool

removable == (pool \cap Managed) \ Reserve

(* scale_to: the control file asks for a pool size, clamped.               *)
ReadControl ==
    /\ cpc = "idle" /\ toVisit = {} /\ goal = NoGoal
    /\ goal' \in ScaleMin..ScaleMax
    /\ UNCHANGED <<cpc, task, toVisit, _reprovisions, _spawn_seq, account, fleet>>

\* The S of removable that have the least to do.
idlest(S) == \A w \in S, v \in removable \ S : inflight[w] <= inflight[v]

Scale ==
    /\ cpc = "idle" /\ goal # NoGoal /\ toVisit = {}
    /\ \/ /\ Cardinality(pool) < goal /\ cpc' = "credit" /\ UNCHANGED <<toVisit, goal>>
       \/ /\ Cardinality(pool) > goal /\ removable # {}
          /\ \E S \in SUBSET removable :
               /\ Cardinality(S) = Min({Cardinality(pool) - goal, Cardinality(removable)})
               /\ idlest(S) /\ toVisit' = S
          /\ UNCHANGED <<cpc, goal>>
       \/ /\ Cardinality(pool) = goal \/ (Cardinality(pool) > goal /\ removable = {})
          /\ goal' = NoGoal /\ UNCHANGED <<cpc, toVisit>>
    /\ UNCHANGED <<task, _reprovisions, _spawn_seq, account, fleet>>

\* _scale_down: a worker leaves the pool at once, with what it has in flight.
Shrink ==
    /\ cpc = "idle" /\ goal # NoGoal
    /\ \E w \in toVisit :
         /\ toVisit' = toVisit \ {w} /\ task' = w
         /\ draining' = draining \cup {w} /\ pool' = pool \ {w}
    /\ cpc' = "stop"
    /\ UNCHANGED <<goal, _reprovisions, _spawn_seq, account, inPool>>

cycleEnds == cpc' = "idle" /\ task' = NoWorker /\ toVisit' = {} /\ goal' = NoGoal

\* After a CherryAPIError the old worker is used again and the pool looked
\* at further; any other error, and any when scaling, ends the cycle.
spawnFails ==
    \/ /\ task # NoWorker /\ draining' = draining \ {task}
       /\ cpc' = "idle" /\ task' = NoWorker /\ UNCHANGED <<toVisit, goal>>
    \/ cycleEnds /\ UNCHANGED draining

\* can_provision; a scale_to that must not is over.
CheckCredit ==
    /\ cpc = "credit"
    /\ \/ /\ _reprovisions < MaxReprovisions
          /\ cpc' = "create"
          /\ draining' = IF task # NoWorker THEN draining \cup {task} ELSE draining
          /\ UNCHANGED <<task, toVisit, goal>>
       \/ /\ cpc' = "idle" /\ task' = NoWorker
          /\ goal' = IF task = NoWorker THEN NoGoal ELSE goal
          /\ UNCHANGED <<toVisit, draining>>
       \/ cycleEnds /\ UNCHANGED draining
    /\ UNCHANGED <<_reprovisions, _spawn_seq, account, pool, inPool>>

newcomer == Spawned[_spawn_seq]

\* A failed request may have been carried out all the same.
CreateServer ==
    /\ cpc = "create" /\ _spawn_seq < Len(Spawned)
    /\ _spawn_seq' = _spawn_seq + 1
    /\ \/ /\ cpc' = "active" /\ servers' = servers \cup {Spawned[_spawn_seq']}
          /\ UNCHANGED <<task, toVisit, goal, draining, strays>>
       \/ /\ spawnFails
          /\ \/ UNCHANGED <<servers, strays>>
             \/ servers' = servers \cup {Spawned[_spawn_seq']} /\ strays' = strays \cup {Spawned[_spawn_seq']}
    /\ UNCHANGED <<_reprovisions, inventory, pool, inPool>>

\* 408, not active in time: the server stays behind and is not counted.
WaitActive ==
    /\ cpc = "active"
    /\ \/ cpc' = "tunnel" /\ UNCHANGED <<task, toVisit, goal, draining, strays>>
       \/ spawnFails /\ strays' = strays \cup {newcomer}
    /\ UNCHANGED <<_reprovisions, _spawn_seq, servers, inventory, pool, inPool>>

\* The new worker is in the pool and the old one out of it in one step.
swapIn ==
    /\ pool' = (pool \cup {newcomer}) \ {task} /\ inventory' = inventory \cup {newcomer}
    /\ IF task # NoWorker
       THEN cpc' = "stop" /\ _reprovisions' = _reprovisions + 1
       ELSE cpc' = "idle" /\ UNCHANGED _reprovisions
    /\ UNCHANGED <<task, toVisit, goal, strays>>

\* Mutant: the old worker is gone whether or not the new one has a tunnel.
MakeWorkerLate ==
    /\ cpc = "tunnel"
    /\ \/ swapIn
       \/ /\ cycleEnds /\ strays' = strays \cup {newcomer}
          /\ pool' = pool \ {task} /\ UNCHANGED <<inventory, _reprovisions>>
    /\ UNCHANGED <<_spawn_seq, servers, draining, inPool>>

(* worker_factory: when the tunnel does not come up, the error is none     *)
(* the replacement handles and the old worker goes on draining.            *)
MakeWorker ==
    /\ cpc = "tunnel"
    /\ \/ swapIn
       \/ /\ cycleEnds /\ strays' = strays \cup {newcomer}
          /\ UNCHANGED <<pool, inventory, _reprovisions>>
    /\ UNCHANGED <<_spawn_seq, servers, draining, inPool>>

\* Probes the worker still has run into a dead tunnel.
StopTunnel ==
    /\ cpc = "stop" /\ cpc' = "delete" /\ down' = down \cup {task}
    /\ UNCHANGED <<task, toVisit, goal, _reprovisions, _spawn_seq, account, pool, draining,
                   inflight, cooling, health, fleetProbes>>

\* A CherryAPIError leaves the server behind, unlisted; any other error leaves it listed.
DeleteServer ==
    /\ cpc = "delete"
    /\ \/ /\ \/ servers' = servers \ {task} /\ UNCHANGED strays
             \/ strays' = strays \cup {task} /\ UNCHANGED servers
          /\ inventory' = inventory \ {task}
          /\ cpc' = "idle" /\ task' = NoWorker /\ UNCHANGED <<toVisit, goal>>
       \/ /\ cycleEnds /\ servers' \in {servers, servers \ {task}}
          /\ UNCHANGED <<inventory, strays>>
    /\ UNCHANGED <<_reprovisions, _spawn_seq, fleet>>

SupervisorStep ==
    \/ Cycle \/ Look \/ ReadControl \/ Scale \/ Shrink \/ CheckCredit \/ CreateServer
    \/ WaitActive \/ MakeWorker \/ StopTunnel \/ DeleteServer

SupervisorNext == SupervisorStep \/ (FleetNext /\ UNCHANGED supervisor)

SupervisorSpec == FleetInit /\ SupervisorInit /\ [][SupervisorNext]_<<fleet, supervisor>>

-----------------------------------------------------------------------------

(* Whatever fails on the way, replacing and scaling never take the pool    *)
(* out of its bounds.                                                      *)
PoolBounded == Cardinality(pool) \in ScaleMin .. ScaleMax

(* A worker in the pool has a server, an unmanaged one never leaves,       *)
(* and every other server that is billed is in the inventory, in the       *)
(* supervisor's hands, or was given up with an error in the log.           *)
PoolHasServers ==
    /\ pool \subseteq servers
    /\ InitialPool \ Managed \subseteq pool
    /\ servers \subseteq inventory \cup strays
         \cup (IF cpc \in {"active", "tunnel"} THEN {newcomer} ELSE {})

=============================================================================
