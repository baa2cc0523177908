----------------------------- MODULE SshTunnel -----------------------------
(***************************************************************************)
(* The supervised ssh -D process of one egress                             *)
(* (pipeline/tunnels/ssh_socks.py): start() spawns it and waits for the    *)
(* port, a supervisor spawns it again, after a backoff, whenever it ends,  *)
(* and stop() ends both.  The program calls start() once, then stop().     *)
(***************************************************************************)
EXTENDS Naturals

CONSTANTS
    ReadyRetries,   \* TUNNEL_READY_RETRIES
    MaxBackoff      \* how often the backoff doubles before it is at its maximum

ASSUME TunnelAssumption == {ReadyRetries, MaxBackoff} \subseteq Nat \ {0}

VARIABLES
    starter, supervisor, stopper,   \* await of start(), _supervisor_loop() and stop()
    spawn, tries,                   \* _spawn(): its await, polls of the port so far
    proc,                           \* _proc: its process, "open" once the port is
    _ready, _stop, backoff

tunnel == <<starter, supervisor, stopper, spawn, tries, proc, _ready, _stop, backoff>>

Running == proc \in {"alive", "open"}

TunnelTypeOK ==
    /\ starter \in {"idle", "spawning", "waiting", "up", "failed"}
    /\ supervisor \in {"none", "watch", "backoff", "spawning", "over"}
    /\ stopper \in {"no", "waiting", "stopped"}
    /\ spawn \in {"no", "exec", "polling"} /\ tries \in 0..ReadyRetries
    /\ proc \in {"none", "alive", "open", "dead"}
    /\ _ready \in BOOLEAN /\ _stop \in BOOLEAN /\ backoff \in 0..MaxBackoff

TunnelInit ==
    /\ starter = "idle" /\ supervisor = "none" /\ stopper = "no"
    /\ spawn = "no" /\ tries = 0 /\ proc = "none"
    /\ _ready = FALSE /\ _stop = FALSE /\ backoff = 0

Start ==
    /\ starter = "idle" /\ starter' = "spawning" /\ spawn' = "exec"
    /\ _stop' = FALSE /\ _ready' = FALSE
    /\ UNCHANGED <<supervisor, stopper, tries, proc, backoff>>

\* create_subprocess_exec
Exec ==
    /\ spawn = "exec" /\ spawn' = "polling" /\ proc' = "alive" /\ tries' = 0
    /\ UNCHANGED <<starter, supervisor, stopper, _ready, _stop, backoff>>

\* No ssh in PATH: start() raises, or the supervisor's task ends.
ExecFails ==
    /\ spawn = "exec" /\ spawn' = "no"
    /\ IF starter = "spawning" THEN starter' = "failed" /\ UNCHANGED supervisor
                               ELSE supervisor' = "over" /\ UNCHANGED starter
    /\ UNCHANGED <<stopper, tries, proc, _ready, _stop, backoff>>

\* _spawn returns to start(), which starts the supervisor, or to the supervisor;
\* either way the supervisor's loop looks at _stop next.
spawned ==
    /\ spawn' = "no" /\ supervisor' = IF _stop THEN "over" ELSE "watch"
    /\ starter' = IF starter = "spawning" THEN "waiting" ELSE starter

Poll_ ==
    /\ spawn = "polling"
    /\ \/ proc = "dead" /\ spawned /\ UNCHANGED <<tries, _ready, backoff>>
       \/ proc = "open" /\ spawned /\ _ready' = TRUE /\ backoff' = 0 /\ UNCHANGED tries
       \/ /\ proc = "alive" /\ tries' = tries + 1 /\ UNCHANGED <<_ready, backoff>>
          /\ IF tries' = ReadyRetries THEN spawned ELSE UNCHANGED <<starter, supervisor, spawn>>
    /\ UNCHANGED <<stopper, proc, _stop>>

StartReturns ==
    /\ starter = "waiting" /\ _ready /\ starter' = "up"
    /\ UNCHANGED <<supervisor, stopper, spawn, tries, proc, _ready, _stop, backoff>>

\* _supervisor_loop, from the process's end to the backoff.
ProcessEnded ==
    /\ supervisor = "watch" /\ proc = "dead"
    /\ IF _stop THEN supervisor' = "over" /\ UNCHANGED _ready
                ELSE supervisor' = "backoff" /\ _ready' = FALSE
    /\ UNCHANGED <<starter, stopper, spawn, tries, proc, _stop, backoff>>

BackoffOver ==
    /\ supervisor = "backoff" /\ ~_stop
    /\ supervisor' = "spawning" /\ spawn' = "exec"
    /\ backoff' = IF backoff < MaxBackoff THEN backoff + 1 ELSE backoff
    /\ UNCHANGED <<starter, stopper, tries, proc, _ready, _stop>>

\* Mutant: the supervisor is left to notice _stop by itself.
notCancelled == UNCHANGED <<supervisor, spawn>>

\* The supervisor's task is cancelled and awaited; cancelling
\* create_subprocess_exec kills the child it may have made.
cancelled == supervisor' = (IF supervisor = "none" THEN "none" ELSE "over") /\ spawn' = "no"

\* stop(), also by a start() that timed out.
Stop_ ==
    /\ stopper = "no" /\ _stop' = TRUE
    /\ \/ starter \in {"up", "failed"} /\ UNCHANGED starter
       \/ starter = "waiting" /\ ~_ready /\ starter' = "failed"
    /\ IF Running THEN stopper' = "waiting" /\ UNCHANGED <<supervisor, spawn>>
                  ELSE stopper' = "stopped" /\ cancelled
    /\ UNCHANGED <<tries, proc, _ready, backoff>>

\* The process has ended, or is killed after TUNNEL_STOP_TIMEOUT_S.
Terminated ==
    /\ stopper = "waiting" /\ stopper' = "stopped" /\ proc' = "dead" /\ cancelled
    /\ UNCHANGED <<starter, tries, _ready, _stop, backoff>>

\* What ssh does: it connects, or ends.
SshConnects ==
    /\ proc = "alive" /\ proc' = "open"
    /\ UNCHANGED <<starter, supervisor, stopper, spawn, tries, _ready, _stop, backoff>>

SshEnds ==
    /\ Running /\ proc' = "dead"
    /\ UNCHANGED <<starter, supervisor, stopper, spawn, tries, _ready, _stop, backoff>>

TunnelStep ==
    \/ Start \/ Exec \/ ExecFails \/ Poll_ \/ StartReturns \/ ProcessEnded \/ BackoffOver
    \/ Stop_ \/ Terminated \/ SshConnects \/ SshEnds

TunnelSpec == TunnelInit /\ [][TunnelStep]_tunnel

(* Once stop() has returned, no ssh process is left and none is started    *)
(* any more, wherever in its watching, backing off or spawning the         *)
(* supervisor was when stop() came (stop, ssh_socks.py:73).                *)
StopIsFinal == stopper = "stopped" => ~Running /\ spawn = "no" /\ supervisor \in {"none", "over"}

=============================================================================
