--------------------------- MODULE AuthorityLease ---------------------------
(***************************************************************************)
(* The authorization of one tenant instance: the checker task of the       *)
(* tenant's process (server/src/authority.rs) and what the authority bus   *)
(* answers it and keeps in its database (api/authority.rs,                 *)
(* storage/authority.rs).                                                  *)
(*                                                                         *)
(* Time is a number of ticks.  Timers fire when they are due and the steps *)
(* of a task take no time of their own; requests take up to Timeout.  The  *)
(* tenant's clock is Lag ticks behind the one of the bus, or ahead if Lag  *)
(* is negative.  A token stands for its expiry: the instance holds one at  *)
(* a time.  `None` for a lease is any time, since `allowed` is FALSE then. *)
(***************************************************************************)
EXTENDS Integers

CONSTANTS
    Interval,           \* VOICE_ELF_AUTHORITY_CHECK_SECONDS
    Timeout,            \* VOICE_ELF_AUTHORITY_TIMEOUT_SECONDS
    TokenLife,          \* ACCESS_TOKEN_MINUTES
    RefreshAfter,       \* (expires_in - 60).max(30)
    MaxLease,           \* the longest offline lease
    OfflineLeases,      \* values of offline_lease_minutes an administrator chooses
    Lag,                \* how far the tenant's clock is behind
    GraceEnds,          \* ends of the grace period an administrator chooses
    MaxTime,            \* bound: ticks
    MaxEvents           \* bound: administrators' updates and restarts of the tenant

ASSUME ConstantsAssumption ==
    /\ Interval \in Nat
    /\ Timeout \in Nat
    /\ TokenLife \in Nat
    /\ RefreshAfter \in Nat \ {0}
    /\ MaxLease \in Nat \ {0}
    /\ OfflineLeases \subseteq 1..MaxLease /\ OfflineLeases # {}
    /\ Lag \in Int
    /\ GraceEnds \subseteq Nat /\ GraceEnds # {}
    /\ MaxTime \in Nat
    /\ MaxEvents \in Nat

VARIABLES
    now,
    tenantRow, instance, tokens, purging,       \* the database of the bus
    secretKnown,        \* the tenant is configured with the secret of the database
    phase, deadline, cached, refreshAt,         \* the checker task
    allowed, lease,                                     \* its snapshot
    handler, seenInstance, seenTenant, answer,          \* the request under way
    lostAt,             \* history: since when an entitlement condition fails
    credentialsChanged, \* history: an instance was revoked or its secret rotated
    changes, restarts

busVars      == <<tenantRow, instance, secretKnown, tokens, purging>>
taskVars     == <<phase, deadline, cached, refreshAt>>
snapshotVars == <<allowed, lease>>
requestVars  == <<handler, seenInstance, seenTenant, answer>>
historyVars  == <<lostAt, credentialsChanged>>
counters     == <<changes, restarts>>
vars == <<now, busVars, taskVars, snapshotVars, requestVars, historyVars, counters>>

Never      == -1
NoToken    == -1
Conditions == {"instance", "tenant", "license"}
Statuses   == {"active", "withdrawn"}   \* withdrawn: suspended or revoked
Tenants    == [status : Statuses, grace : GraceEnds, offline : OfflineLeases]

Answer(kind, time) == [kind |-> kind, time |-> time]
NoAnswer == Answer("none", 0)
NoTenant == [status |-> "withdrawn", grace |-> 0, offline |-> 0]

\* Utc::now() in the tenant's process.
LocalNow == now - Lag

\* The three conditions of evaluate_entitlement.
Met(x, status, row, time) ==
    \/ x = "instance" /\ status = "active"
    \/ x = "tenant" /\ row.status = "active"
    \/ x = "license" /\ time <= row.grace

NoteLosses(status, row, time) ==
    lostAt' = [x \in Conditions |->
                 IF Met(x, status, row, time) THEN Never
                 ELSE IF lostAt[x] = Never THEN time ELSE lostAt[x]]

Init ==
    /\ now = 0
    /\ tenantRow \in Tenants
    /\ tenantRow.status = "active"
    /\ instance = "active"
    /\ secretKnown = TRUE
    /\ tokens = {}
    /\ purging = FALSE
    /\ phase = "sleeping"
    /\ deadline = 0
    /\ cached = NoToken
    /\ refreshAt = 0
    /\ allowed = FALSE
    /\ lease = 0
    /\ handler = "idle"
    /\ seenInstance = "withdrawn"
    /\ seenTenant = NoTenant
    /\ answer = NoAnswer
    /\ lostAt = [x \in Conditions |-> Never]
    /\ credentialsChanged = FALSE
    /\ changes = 0
    /\ restarts = 0
-----------------------------------------------------------------------------
(* Time passes as long as nothing is due.                                  *)

IsDue == now = deadline

Tick ==
    /\ now < MaxTime
    /\ ~IsDue
    /\ now' = now + 1
    /\ NoteLosses(instance, tenantRow, now + 1)
    /\ UNCHANGED <<busVars, taskVars, snapshotVars, requestVars, credentialsChanged, counters>>

-----------------------------------------------------------------------------
(* Administrators at the bus.  An update that withdraws credentials is an  *)
(* UPDATE and then a DELETE of the tokens.                                 *)

UpdateTenant(row) ==
    /\ changes + restarts < MaxEvents
    /\ row # tenantRow
    /\ tenantRow' = row
    /\ changes' = changes + 1
    /\ NoteLosses(instance, row, now)
    /\ UNCHANGED <<now, instance, secretKnown, tokens, purging, taskVars, snapshotVars,
                   requestVars, credentialsChanged, restarts>>

RevokeInstance ==
    /\ changes + restarts < MaxEvents
    /\ ~purging
    /\ instance' = "withdrawn"
    /\ purging' = TRUE
    /\ credentialsChanged' = TRUE
    /\ changes' = changes + 1
    /\ NoteLosses("withdrawn", tenantRow, now)
    /\ UNCHANGED <<now, tenantRow, secretKnown, tokens, taskVars, snapshotVars, requestVars, restarts>>

RestoreInstance ==
    /\ changes + restarts < MaxEvents
    /\ instance = "withdrawn"
    /\ instance' = "active"
    /\ changes' = changes + 1
    /\ NoteLosses("active", tenantRow, now)
    /\ UNCHANGED <<now, tenantRow, secretKnown, tokens, purging, taskVars, snapshotVars, requestVars,
                   credentialsChanged, restarts>>

RotateSecret ==
    /\ changes + restarts < MaxEvents
    /\ ~purging
    /\ secretKnown' = FALSE
    /\ purging' = TRUE
    /\ credentialsChanged' = TRUE
    /\ changes' = changes + 1
    /\ UNCHANGED <<now, tenantRow, instance, tokens, taskVars, snapshotVars, requestVars,
                   lostAt, restarts>>

DeleteTokens ==
    /\ purging
    /\ tokens' = {}
    /\ purging' = FALSE
    /\ UNCHANGED <<now, tenantRow, instance, secretKnown, taskVars, snapshotVars, requestVars,
                   historyVars, counters>>

-----------------------------------------------------------------------------
(* The checker task.                                                       *)

\* The end of a request, whatever the bus was doing about it.
Forget ==
    /\ handler' = "idle"
    /\ seenInstance' = "withdrawn"
    /\ seenTenant' = NoTenant
    /\ answer' = NoAnswer

Send(step) ==
    /\ phase' = step
    /\ deadline' = now + Timeout
    /\ Forget

Sleep ==
    /\ phase' = "sleeping"
    /\ deadline' = now + Interval
    /\ Forget

CheckOnce ==
    /\ phase = "sleeping"
    /\ now = deadline
    /\ Send(IF cached = NoToken \/ refreshAt <= LocalNow THEN "fetching" ELSE "checking")
    /\ UNCHANGED <<now, busVars, cached, refreshAt, snapshotVars, historyVars, counters>>

ReceiveToken ==
    /\ phase = "fetching"
    /\ answer.kind = "token"
    /\ cached' = answer.time
    /\ refreshAt' = LocalNow + RefreshAfter
    /\ Send("checking")
    /\ UNCHANGED <<now, busVars, snapshotVars, historyVars, counters>>

\* apply_grant
ApplyGrant ==
    /\ phase = "checking"
    /\ answer.kind \in {"grant", "refusal"}
    /\ allowed' = (answer.kind = "grant")
    /\ lease' = answer.time
    /\ Sleep
    /\ UNCHANGED <<now, busVars, cached, refreshAt, historyVars, counters>>

\* apply_rejection: the 401 of a check, not the one of a token request.
ApplyRejection ==
    /\ phase = "checking"
    /\ answer.kind = "unauthorized"
    /\ cached' = NoToken
    /\ refreshAt' = 0
    /\ allowed' = FALSE
    /\ lease' = LocalNow
    /\ Sleep
    /\ UNCHANGED <<now, busVars, historyVars, counters>>

\* Mutant: a failed check leaves the verdict as it is.
KeepsLease == allowed

\* apply_failure's lease_valid.
LeaseValid == allowed /\ lease > LocalNow

\* apply_failure: a refused token request, an error status, a connection that
\* fails, a timeout; the answer, if there is one, is lost.
ApplyFailure ==
    /\ phase \in {"fetching", "checking"}
    /\ allowed' = LeaseValid
    /\ Sleep
    /\ UNCHANGED <<now, busVars, cached, refreshAt, lease, historyVars, counters>>

\* The process starts with nothing but its configuration.
Restart ==
    /\ changes + restarts < MaxEvents
    /\ restarts' = restarts + 1
    /\ secretKnown' \in {secretKnown, TRUE}
    /\ phase' = "sleeping"
    /\ deadline' = now
    /\ cached' = NoToken
    /\ refreshAt' = 0
    /\ allowed' = FALSE
    /\ lease' = 0
    /\ Forget
    /\ UNCHANGED <<now, tenantRow, instance, tokens, purging, historyVars, changes>>

-----------------------------------------------------------------------------
(* The bus answers, a statement at a time.                                 *)

\* issue_access_token reads the instance and verifies the secret it read.
VerifySecret ==
    /\ phase = "fetching"
    /\ handler = "idle"
    /\ IF instance = "active" /\ secretKnown
       THEN handler' = "verified" /\ UNCHANGED answer
       ELSE handler' = "answered" /\ answer' = Answer("unauthorized", 0)
    /\ UNCHANGED <<now, busVars, taskVars, snapshotVars, seenInstance, seenTenant, historyVars,
                   counters>>

\* create_authority_access_token also deletes the expired tokens.
CreateToken ==
    /\ handler = "verified"
    /\ tokens' = {t \in tokens : t > now} \cup {now + TokenLife}
    /\ handler' = "answered"
    /\ answer' = Answer("token", now + TokenLife)
    /\ UNCHANGED <<now, tenantRow, instance, secretKnown, purging, taskVars, snapshotVars,
                   seenInstance, seenTenant, historyVars, counters>>

\* Mutant: the token is not refreshed before it has expired.
IsLongValid(t) == t - (TokenLife - RefreshAfter) > now

IsValid(t) == t > now

\* authority_context_by_token_hash: the token, the instance, the tenant.
FindToken ==
    /\ phase = "checking"
    /\ handler = "idle"
    /\ IF cached \in tokens /\ IsValid(cached)
       THEN handler' = "token" /\ UNCHANGED answer
       ELSE handler' = "answered" /\ answer' = Answer("unauthorized", 0)
    /\ UNCHANGED <<now, busVars, taskVars, snapshotVars, seenInstance, seenTenant, historyVars,
                   counters>>

ReadInstance ==
    /\ handler = "token"
    /\ handler' = "instance"
    /\ seenInstance' = instance
    /\ UNCHANGED <<now, busVars, taskVars, snapshotVars, seenTenant, answer, historyVars, counters>>

ReadTenant ==
    /\ handler = "instance"
    /\ handler' = "tenant"
    /\ seenTenant' = tenantRow
    /\ UNCHANGED <<now, busVars, taskVars, snapshotVars, seenInstance, answer, historyVars, counters>>

\* Mutant: the lease may outlive the grace period.
UncappedLeaseEnd(row) == now + row.offline

LeaseEnd(row) == IF now + row.offline <= row.grace THEN now + row.offline ELSE row.grace

\* Mutant: a suspended tenant is served until its grace period ends.
GrantsInGrace(row) == seenInstance = "active" /\ now <= row.grace

Grants(row) ==
    /\ seenInstance = "active"
    /\ row.status = "active"
    /\ now <= row.grace

\* evaluate_entitlement
EvaluateEntitlement ==
    /\ handler = "tenant"
    /\ handler' = "answered"
    /\ answer' = IF Grants(seenTenant) THEN Answer("grant", LeaseEnd(seenTenant))
                 ELSE Answer("refusal", now)
    /\ UNCHANGED <<now, busVars, taskVars, snapshotVars, seenInstance, seenTenant, historyVars,
                   counters>>

-----------------------------------------------------------------------------
Administer ==
    \/ \E row \in Tenants : UpdateTenant(row)
    \/ RevokeInstance \/ RestoreInstance \/ RotateSecret \/ DeleteTokens
Check ==
    \/ CheckOnce \/ ReceiveToken \/ ApplyGrant \/ ApplyRejection \/ ApplyFailure
    \/ Restart
Serve ==
    \/ VerifySecret \/ CreateToken
    \/ FindToken \/ ReadInstance \/ ReadTenant \/ EvaluateEntitlement

Next == Tick \/ Administer \/ Check \/ Serve

Spec == Init /\ [][Next]_vars
-----------------------------------------------------------------------------
Answers == [kind : {"none", "token", "grant", "refusal", "unauthorized"}, time : Nat]

TypeOK ==
    /\ now \in 0..MaxTime
    /\ tenantRow \in Tenants
    /\ instance \in Statuses
    /\ secretKnown \in BOOLEAN
    /\ tokens \subseteq Nat
    /\ purging \in BOOLEAN
    /\ phase \in {"fetching", "checking", "sleeping"}
    /\ deadline \in Nat /\ now <= deadline
    /\ cached \in Nat \cup {NoToken}
    /\ refreshAt \in Int
    /\ allowed \in BOOLEAN
    /\ lease \in Int
    /\ handler \in {"idle", "verified", "token", "instance", "tenant", "answered"}
    /\ seenInstance \in Statuses
    /\ seenTenant \in Tenants \cup {NoTenant}
    /\ answer \in Answers
    /\ lostAt \in [Conditions -> Nat \cup {Never}]
    /\ credentialsChanged \in BOOLEAN
    /\ changes \in Nat /\ restarts \in Nat /\ changes + restarts <= MaxEvents

(* The lease fails closed: a revoked instance, a suspended tenant or one   *)
(* whose grace period ended is served for less than one offline lease, one *)
(* interval and three request timeouts after it, and the clocks'           *)
(* difference, whatever answers are lost, late or computed from rows that  *)
(* changed in between (authority.rs 116-118, 131-185, 245-266).            *)
WithdrawalTakesEffect ==
    \A x \in Conditions :
        allowed /\ lostAt[x] # Never =>
            \/ now <= lostAt[x] + Interval + 3 * Timeout
            \/ now < lostAt[x] + MaxLease + Lag + Interval + 3 * Timeout

(* An expired lease is honoured until the next verdict only: allowed()     *)
(* does not look at the clock, the checker does (authority.rs 116-118,     *)
(* 248-251).                                                               *)
ExpiredLeaseEnds ==
    allowed =>
        \/ now <= lease + Interval + 3 * Timeout
        \/ LocalNow < lease + Interval + 2 * Timeout

(* No lease outlives the grace period: while nobody edits the tenant, it   *)
(* is not served longer than the last verdict takes after that             *)
(* (api/authority.rs 516-524).                                             *)
GraceIsTheEnd ==
    allowed /\ changes = 0 =>
        \/ now <= tenantRow.grace + Interval + 3 * Timeout
        \/ LocalNow < tenantRow.grace + Interval + 2 * Timeout

\* A token is refreshed two timeouts before it expires.  The code's margin is
\* 60 seconds, and it admits timeouts of 2 to 60 (10 unless configured).
RefreshMargin == TokenLife - RefreshAfter >= 2 * Timeout

(* As long as nobody revokes the instance or rotates its secret, the bus   *)
(* never refuses its token: the checker has always replaced it in time,    *)
(* even if both answers took as long as they may (authority.rs 159-165,    *)
(* 217-220, api/authority.rs 107-118).                                     *)
TokensAreRefreshedInTime ==
    RefreshMargin /\ ~credentialsChanged =>
        ~(phase = "checking" /\ answer.kind = "unauthorized")
-----------------------------------------------------------------------------
(* The strengthening under which these invariants are inductive.           *)

\* The latest time of the next verdict.
Horizon ==
    IF phase = "sleeping" THEN deadline + 2 * Timeout
    ELSE IF phase = "fetching" THEN deadline + Timeout ELSE deadline

RequestShape ==
    /\ phase = "sleeping" =>
          deadline <= now + Interval /\ handler = "idle" /\ answer.kind = "none"
    /\ phase # "sleeping" => deadline <= now + Timeout
    /\ handler = "verified" => phase = "fetching"
    /\ handler \in {"token", "instance", "tenant"} => phase = "checking"
    /\ handler = "tenant" => seenTenant \in Tenants
    /\ answer.kind # "none" => handler = "answered"
    /\ answer.kind = "token" => phase = "fetching"
    /\ answer.kind \in {"grant", "refusal"} => phase = "checking"

LossesNoted ==
    \A x \in Conditions :
        /\ lostAt[x] = Never <=> Met(x, instance, tenantRow, now)
        /\ lostAt[x] <= now

\* A request that has read a condition as met was sent before it was lost.
SentBefore(x) == lostAt[x] # Never => deadline <= lostAt[x] + Timeout

ReadBeforeLoss ==
    /\ handler \in {"instance", "tenant"} /\ seenInstance = "active" => SentBefore("instance")
    /\ handler = "tenant" /\ seenTenant.status = "active" => SentBefore("tenant")
    /\ handler = "tenant" /\ now <= seenTenant.grace => SentBefore("license")
    /\ answer.kind = "grant" => \A x \in Conditions : SentBefore(x)

GrantIsFresh ==
    answer.kind = "grant" =>
        /\ deadline <= answer.time + Timeout
        /\ answer.time <= deadline + MaxLease
        /\ answer.time <= now + MaxLease

\* The last verdict was a grant on conditions that ended at `end` or later,
\* or a failure that found the lease valid.
EndsSoonAfter(end) ==
    \/ Horizon <= end + Interval + 3 * Timeout
    \/ Horizon < lease + Lag + Interval + 2 * Timeout

LeaseIsBounded ==
    allowed =>
        /\ lease <= now + MaxLease
        /\ EndsSoonAfter(lease)
        /\ \A x \in Conditions : lostAt[x] # Never =>
              /\ lease <= lostAt[x] + Timeout + MaxLease
              /\ EndsSoonAfter(lostAt[x])

GraceIsKept ==
    changes = 0 =>
        /\ handler = "tenant" => seenTenant = tenantRow
        /\ answer.kind = "grant" =>
              answer.time <= tenantRow.grace /\ deadline <= tenantRow.grace + Timeout
        /\ allowed => lease <= tenantRow.grace /\ EndsSoonAfter(tenantRow.grace)

TokenIsKept ==
    RefreshMargin /\ ~credentialsChanged =>
        /\ instance = "active" /\ secretKnown /\ ~purging
        /\ answer.kind # "unauthorized"
        /\ answer.kind = "token" =>
              answer.time \in tokens /\ answer.time >= deadline - Timeout + TokenLife
        /\ cached > now => cached \in tokens
        /\ cached # NoToken => cached >= refreshAt + Lag + Timeout
        /\ phase = "checking" => deadline < cached

InductiveInvariant ==
    /\ TypeOK
    /\ RequestShape
    /\ LossesNoted
    /\ ReadBeforeLoss
    /\ GrantIsFresh
    /\ LeaseIsBounded
    /\ GraceIsKept
    /\ TokenIsKept
=============================================================================
