------------------------------ MODULE Backends ------------------------------
(***************************************************************************)
(* run_backends (pipeline/dispatch_probes.py): a record's candidate is     *)
(* given to both backends at once, and the first `valid` decides: the      *)
(* other one's call is cancelled.  A record is raced again when it is      *)
(* requeued, and the process may be killed at any point.                   *)
(***************************************************************************)
EXTENDS Racknerd, BbopsConsumer

CONSTANT MaxCrashes

ASSUME BackendsAssumption == Probed = Records /\ MaxCrashes \in Nat

VARIABLES
    race, nth,   \* of every record: how its race stands, how many there were
    bb,          \* what bbops said in it ("none": its task is pending)
    crashes

races == <<race, nth, bb, crashes>>

fut(r) == <<r, nth[r]>>

BackendsTypeOK ==
    /\ RacknerdTypeOK /\ BbopsTypeOK
    /\ race \in [Records -> {"idle", "racing", "over"}] /\ \A r \in Records : nth[r] \in 0..Races[r]
    /\ bb \in [Records -> {"none", "error", "not_run", "cancelled"} \cup BbopsStatus]
    /\ crashes \in 0..MaxCrashes

BackendsInit ==
    /\ RacknerdInit /\ BbopsInit
    /\ race = [r \in Records |-> "idle"] /\ nth = [r \in Records |-> 0]
    /\ bb = [r \in Records |-> "none"] /\ crashes = 0

bbSays(r, status) == bb' = [bb EXCEPT ![r] = status]

\* verify() of bbops raises BbopsUnhealthy at once, which is a not_run.
RunBackends(r) ==
    /\ race[r] # "racing" /\ nth[r] < Races[r]
    /\ race' = [race EXCEPT ![r] = "racing"] /\ nth' = [nth EXCEPT ![r] = @ + 1]
    /\ goes(r, "sem") /\ rk' = [rk EXCEPT ![r] = "none"]
    /\ IF _healthy THEN bbSays(r, "none") /\ Enqueue(<<r, nth[r] + 1>>)
                   ELSE bbSays(r, "not_run") /\ UNCHANGED <<future, queue>>
    /\ UNCHANGED <<host, racknerdShared, items, task, inBatch, answers, toMark,
                   jobs, bbopsHealth, stopped, crashes>>

\* The future of the call is set.
BbopsAnswers(r) ==
    /\ race[r] = "racing" /\ bb[r] = "none" /\ future[fut(r)] \notin {"waiting", "cancelled"}
    /\ bbSays(r, future[fut(r)])
    /\ UNCHANGED <<racknerd, bbops, race, nth, crashes>>

\* asyncio.wait_for cancels what takes too long.
RacknerdTimesOut(r) ==
    /\ race[r] = "racing" /\ kpc[r] # "idle" /\ Verdict(r, "error")
    /\ UNCHANGED <<racknerdShared, bbops, races>>

cancelFuture(r) == future' = [future EXCEPT ![fut(r)] = IF @ = "waiting" THEN "cancelled" ELSE @]

BbopsTimesOut(r) ==
    /\ race[r] = "racing" /\ bb[r] = "none" /\ bbSays(r, "error") /\ cancelFuture(r)
    /\ UNCHANGED <<racknerd, bbopsWork, jobs, bbopsHealth, stopped, race, nth, crashes>>

\* Mutant: the first answer decides, whatever it is.
firstAnswers(r) == {rk[r], bb[r]} # {"none"}

decided(r) == "valid" \in {rk[r], bb[r]} \/ "none" \notin {rk[r], bb[r]}

\* What is still pending is cancelled, which _task_verdict reports as not_run.
Settle(r) ==
    /\ race[r] = "racing" /\ decided(r) /\ race' = [race EXCEPT ![r] = "over"]
    /\ IF rk[r] = "none" THEN Verdict(r, "cancelled") ELSE UNCHANGED <<kpc, host, rk>>
    /\ IF bb[r] = "none" THEN bbSays(r, "cancelled") /\ cancelFuture(r) ELSE UNCHANGED <<bb, future>>
    /\ UNCHANGED <<racknerdShared, bbopsWork, jobs, bbopsHealth, stopped, nth, crashes>>

Crash ==
    /\ crashes < MaxCrashes /\ crashes' = crashes + 1 /\ crashed
    /\ race' = [r \in Records |-> IF race[r] = "racing" THEN "idle" ELSE race[r]]
    /\ rk' = [r \in Records |-> IF race[r] = "racing" THEN "none" ELSE rk[r]]
    /\ kpc' = [r \in Records |-> "idle"] /\ host' = [r \in Records |-> 1] /\ tunnel_up' = TRUE
    /\ mx_cache' = [d \in MailDomains |-> "unknown"]
    /\ blocks' = [p \in Providers |-> 0] /\ cooldown' = [p \in Providers |-> "no"]
    /\ UNCHANGED <<nth, bb>>

Race(r) ==
    \/ RunBackends(r) \/ BbopsAnswers(r) \/ RacknerdTimesOut(r) \/ BbopsTimesOut(r) \/ Settle(r)

BackendsStep ==
    \/ Crash \/ \E r \in Records : Race(r)
    \/ (TimePasses \/ TunnelChanges \/ \E r \in Records : ProbeStep(r)) /\ UNCHANGED <<bbops, races>>
    \/ BbopsNext /\ UNCHANGED <<racknerd, races>>

backendVars == <<racknerd, bbops, races>>

BackendsSpec == BackendsInit /\ [][BackendsStep]_backendVars

(* A race that is over was decided by a `valid` whenever a backend was cut *)
(* short, and a `valid` of bbops is the answer of the very batch this      *)
(* call's item went into, for this record's address: not an earlier call's *)
(* batch, another record's result or one of before a restart.              *)
ValidCounts ==
    \A r \in Records : race[r] = "over" =>
        /\ "cancelled" \in {rk[r], bb[r]} => "valid" \in {rk[r], bb[r]}
        /\ bb[r] = "valid" => \E b \in Batches :
              /\ fut(r) \in ToSet(inBatch[b])
              /\ Email[r] \in DOMAIN answers[b] /\ answers[b][Email[r]] = "valid"

=============================================================================
