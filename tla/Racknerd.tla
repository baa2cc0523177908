------------------------------ MODULE Racknerd ------------------------------
(***************************************************************************)
(* One SMTP egress (pipeline/consumers/racknerd.py): verify() resolves the *)
(* domain through a cache, tries the mail exchangers in order, and waits   *)
(* for the guard of a provider that has blocked us too often.              *)
(***************************************************************************)
EXTENDS Naturals, Sequences, FiniteSets

CONSTANTS
    Probed, DomainOf,   (* whose candidates are probed, domain of each      *)
    Exchangers,         (* providers of a domain's first MX_MAX_HOSTS hosts *)
    SmtpConcurrency, Threshold

ASSUME RacknerdAssumption ==
    /\ DOMAIN DomainOf = Probed /\ {SmtpConcurrency, Threshold} \subseteq Nat \ {0}
    /\ \A r \in Probed : DomainOf[r] \in DOMAIN Exchangers /\ Exchangers[DomainOf[r]] # <<>>

MailDomains == {DomainOf[r] : r \in Probed}
Providers   == UNION {{Exchangers[d][i] : i \in DOMAIN Exchangers[d]} : d \in MailDomains}

VARIABLES
    kpc, host,         \* of every verify(): await, exchanger it is at
    rk,                \* its verdict
    tunnel_up,         \* the tunnel's is_up()
    mx_cache,          \* of every domain
    blocks, cooldown   \* of every provider's guard

racknerdShared == <<tunnel_up, mx_cache, blocks, cooldown>>
racknerd       == <<kpc, host, rk, racknerdShared>>

InSem == {"resolve", "guard", "sleep", "probe"}

RacknerdTypeOK ==
    /\ kpc \in [Probed -> {"idle", "sem"} \cup InSem]
    /\ Cardinality({r \in Probed : kpc[r] \in InSem}) <= SmtpConcurrency
    /\ \A r \in Probed : host[r] \in 1..Len(Exchangers[DomainOf[r]])
    /\ tunnel_up \in BOOLEAN /\ mx_cache \in [MailDomains -> {"unknown", "hosts", "none"}]
    /\ blocks \in [Providers -> 0..Threshold - 1]
    /\ cooldown \in [Providers -> {"no", "yes", "extended"}]

RacknerdInit ==
    /\ kpc = [r \in Probed |-> "idle"] /\ host = [r \in Probed |-> 1]
    /\ rk = [r \in Probed |-> "none"] /\ tunnel_up = TRUE
    /\ mx_cache = [d \in MailDomains |-> "unknown"]
    /\ blocks = [p \in Providers |-> 0] /\ cooldown = [p \in Providers |-> "no"]

goes(r, pc) == kpc' = [kpc EXCEPT ![r] = pc]

\* verify() returns, or is cancelled.
Verdict(r, status) ==
    goes(r, "idle") /\ rk' = [rk EXCEPT ![r] = status] /\ host' = [host EXCEPT ![r] = 1]

provider(r) == Exchangers[DomainOf[r]][host[r]]

resolved(r, how) ==
    IF how = "hosts" THEN goes(r, "guard") /\ UNCHANGED <<rk, host>> ELSE Verdict(r, "error")

EnterProbe(r) ==
    /\ kpc[r] = "sem" /\ Cardinality({q \in Probed : kpc[q] \in InSem}) < SmtpConcurrency
    /\ IF ~tunnel_up THEN Verdict(r, "error")
       ELSE IF mx_cache[DomainOf[r]] = "unknown" THEN goes(r, "resolve") /\ UNCHANGED <<rk, host>>
       ELSE resolved(r, mx_cache[DomainOf[r]])
    /\ UNCHANGED racknerdShared

\* _resolve_mx: that nothing was found is cached like anything else.
Resolve(r) ==
    /\ kpc[r] = "resolve"
    /\ \E how \in {"hosts", "none"} :
         mx_cache' = [mx_cache EXCEPT ![DomainOf[r]] = how] /\ resolved(r, how)
    /\ UNCHANGED <<tunnel_up, blocks, cooldown>>

\* wait_if_cooling sleeps until the end of the cooldown it sees, once.
Guarded(r) ==
    /\ kpc[r] = "guard" /\ goes(r, IF cooldown[provider(r)] = "no" THEN "probe" ELSE "sleep")
    /\ UNCHANGED <<rk, host, racknerdShared>>

WakesUp(r) ==
    /\ kpc[r] = "sleep" /\ cooldown[provider(r)] # "yes" /\ goes(r, "probe")
    /\ UNCHANGED <<rk, host, racknerdShared>>

record_block(p) ==
    IF blocks[p] + 1 < Threshold
    THEN blocks' = [blocks EXCEPT ![p] = @ + 1] /\ UNCHANGED cooldown
    ELSE /\ blocks' = [blocks EXCEPT ![p] = 0]
         /\ cooldown' = [cooldown EXCEPT ![p] = IF @ = "no" THEN "yes" ELSE "extended"]

\* _run_smtp_probe: a probe of an exchanger has come to an end.
SmtpAnswer(r, status) ==
    /\ kpc[r] = "probe" /\ (~tunnel_up => status = "error")
    /\ IF status = "error" /\ host[r] < Len(Exchangers[DomainOf[r]])
       THEN goes(r, "guard") /\ host' = [host EXCEPT ![r] = @ + 1] /\ UNCHANGED rk
       ELSE Verdict(r, status)
    /\ IF status = "blocked" THEN record_block(provider(r)) ELSE UNCHANGED <<blocks, cooldown>>
    /\ UNCHANGED <<tunnel_up, mx_cache>>

\* What time does: the guard's window and its cooldown, the entries of the cache.
TimePasses ==
    /\ \/ /\ \E p \in Providers :
               \/ blocks[p] > 0 /\ blocks' = [blocks EXCEPT ![p] = 0] /\ UNCHANGED cooldown
               \/ cooldown[p] # "no" /\ cooldown' = [cooldown EXCEPT ![p] = "no"] /\ UNCHANGED blocks
          /\ UNCHANGED mx_cache
       \/ /\ \E d \in MailDomains : mx_cache[d] # "unknown" /\ mx_cache' = [mx_cache EXCEPT ![d] = "unknown"]
          /\ UNCHANGED <<blocks, cooldown>>
    /\ UNCHANGED <<kpc, host, rk, tunnel_up>>

\* See SshTunnel.
TunnelChanges ==
    tunnel_up' = ~tunnel_up /\ UNCHANGED <<kpc, host, rk, mx_cache, blocks, cooldown>>

ProbeStep(r) ==
    \/ EnterProbe(r) \/ Resolve(r) \/ Guarded(r) \/ WakesUp(r)
    \/ \E s \in {"valid", "invalid", "blocked", "error"} : SmtpAnswer(r, s)

RacknerdNext == TimePasses \/ TunnelChanges \/ \E r \in Probed : ProbeStep(r)

=============================================================================
