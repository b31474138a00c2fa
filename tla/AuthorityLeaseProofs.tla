------------------------ MODULE AuthorityLeaseProofs ------------------------
(***************************************************************************)
(* Proofs about AuthorityLease, for any interval, timeout, token and lease *)
(* lengths, any difference of the clocks and any number of updates and     *)
(* restarts.                                                               *)
(***************************************************************************)
EXTENDS AuthorityLease, TLAPS

LEMMA TenantTypes ==
    ASSUME NEW row \in Tenants
    PROVE  row.grace \in Nat /\ row.offline \in Nat /\ row.offline <= MaxLease
<1>1. row.grace \in GraceEnds /\ row.offline \in OfflineLeases
  BY DEF Tenants
<1>2. GraceEnds \subseteq Nat /\ OfflineLeases \subseteq 1..MaxLease /\ MaxLease \in Nat
  BY ConstantsAssumption
<1>3. row.grace \in Nat /\ row.offline \in 1..MaxLease
  BY <1>1, <1>2, Zenon
<1> QED
  BY <1>2, <1>3

\* Types are kept by every step.
LEMMA TypeStep ==
    ASSUME TypeOK, RequestShape, [Next]_vars
    PROVE  TypeOK'
<1> USE ConstantsAssumption DEF TypeOK, busVars, taskVars, snapshotVars, requestVars,
        historyVars, counters, Never, NoToken
<1>1. CASE Tick
  BY <1>1 DEF Tick, IsDue, NoteLosses
<1>2. ASSUME NEW row \in Tenants, UpdateTenant(row)
      PROVE  TypeOK'
  BY <1>2 DEF UpdateTenant, NoteLosses
<1>3. CASE RevokeInstance
  BY <1>3 DEF RevokeInstance, NoteLosses, Statuses
<1>4. CASE RestoreInstance
  BY <1>4 DEF RestoreInstance, NoteLosses, Statuses
<1>5. CASE RotateSecret
  <2>1. changes' \in Nat /\ restarts' \in Nat /\ changes' + restarts' <= MaxEvents
    BY <1>5 DEF RotateSecret
  <2>2. secretKnown' \in BOOLEAN /\ purging' \in BOOLEAN /\ credentialsChanged' \in BOOLEAN
    BY <1>5, Zenon DEF RotateSecret
  <2> QED
    BY <1>5, <2>1, <2>2 DEF RotateSecret
<1>6. CASE DeleteTokens
  BY <1>6 DEF DeleteTokens
<1>7. CASE CheckOnce
  BY <1>7 DEF CheckOnce, Send, Forget, NoAnswer, Answer, Answers, Statuses
<1>8. CASE ReceiveToken
  BY <1>8 DEF ReceiveToken, Send, Forget, NoAnswer, Answer, Answers, Statuses, LocalNow
<1>9. CASE ApplyGrant
  BY <1>9 DEF ApplyGrant, Sleep, Forget, NoAnswer, Answer, Answers, Statuses
<1>10. CASE ApplyRejection
  <2>1. lease' \in Int /\ deadline' \in Nat /\ now' <= deadline'
    BY <1>10 DEF ApplyRejection, Sleep, LocalNow
  <2>2. allowed' \in BOOLEAN
    BY <1>10, Zenon DEF ApplyRejection
  <2>3. cached' \in Nat \cup {NoToken} /\ refreshAt' \in Int
    BY <1>10 DEF ApplyRejection
  <2> QED
    BY <1>10, <2>1, <2>2, <2>3
    DEF ApplyRejection, Sleep, Forget, NoAnswer, Answer, Answers, Statuses
<1>11. CASE ApplyFailure
  BY <1>11 DEF ApplyFailure, LeaseValid, Sleep, Forget, NoAnswer, Answer, Answers, Statuses
<1>12. CASE Restart
  <2>1. changes' \in Nat /\ restarts' \in Nat /\ changes' + restarts' <= MaxEvents
    BY <1>12 DEF Restart
  <2>2. secretKnown' \in BOOLEAN /\ allowed' \in BOOLEAN
    BY <1>12, Zenon DEF Restart
  <2> QED
    BY <1>12, <2>1, <2>2 DEF Restart, Forget, NoAnswer, Answer, Answers, Statuses
<1>13. CASE VerifySecret
  BY <1>13 DEF VerifySecret, Answer, Answers
<1>14. CASE CreateToken
  <2>1. now + TokenLife \in Nat
    OBVIOUS
  <2>2. tokens' \subseteq Nat
    BY <1>14, <2>1 DEF CreateToken
  <2>3. answer' \in Answers
    BY <1>14, <2>1 DEF CreateToken, Answer, Answers
  <2> QED
    BY <1>14, <2>2, <2>3 DEF CreateToken
<1>15. CASE FindToken
  BY <1>15 DEF FindToken, Answer, Answers
<1>16. CASE ReadInstance
  BY <1>16 DEF ReadInstance
<1>17. CASE ReadTenant
  BY <1>17 DEF ReadTenant
<1>18. CASE EvaluateEntitlement
  <2>1. seenTenant \in Tenants
    BY <1>18 DEF EvaluateEntitlement, RequestShape
  <2>2. seenTenant.grace \in Nat /\ seenTenant.offline \in Nat
    BY <2>1, TenantTypes
  <2>3. answer' \in Answers
    BY <1>18, <2>2 DEF EvaluateEntitlement, LeaseEnd, Answer, Answers
  <2> QED
    BY <1>18, <2>3 DEF EvaluateEntitlement
<1>19. CASE UNCHANGED vars
  BY <1>19 DEF vars
<1> QED
  BY <1>1, <1>2, <1>3, <1>4, <1>5, <1>6, <1>7, <1>8, <1>9, <1>10, <1>11, <1>12, <1>13, <1>14,
     <1>15, <1>16, <1>17, <1>18, <1>19 DEF Next, Administer, Check, Serve

\* What administrators and the bus leave alone.
LEMMA AdministerFrame ==
    ASSUME Administer
    PROVE  UNCHANGED <<now, phase, deadline, cached, refreshAt, allowed, lease,
                       handler, seenInstance, seenTenant, answer, restarts>>
BY Zenon DEF Administer, UpdateTenant, RevokeInstance, RestoreInstance, RotateSecret, DeleteTokens,
     taskVars, snapshotVars, requestVars, counters

LEMMA ServeFrame ==
    ASSUME Serve
    PROVE  UNCHANGED <<now, tenantRow, instance, secretKnown, purging, phase, deadline, cached,
                       refreshAt, allowed, lease, lostAt, credentialsChanged, changes, restarts>>
BY Zenon DEF Serve, VerifySecret, CreateToken, FindToken, ReadInstance, ReadTenant, EvaluateEntitlement,
     busVars, taskVars, snapshotVars, historyVars, counters

LEMMA CheckFrame ==
    ASSUME Check
    PROVE  /\ UNCHANGED <<now, tenantRow, instance, tokens, purging, lostAt, credentialsChanged,
                          changes>>
           /\ Forget
BY Zenon DEF Check, CheckOnce, ReceiveToken, ApplyGrant, ApplyRejection, ApplyFailure, Restart, Send,
     Sleep, busVars, historyVars, counters

\* Requests are as far as their phase allows.
LEMMA ShapeStep ==
    ASSUME TypeOK, RequestShape, [Next]_vars
    PROVE  RequestShape'
<1> USE ConstantsAssumption DEF RequestShape
<1>1. CASE Tick
  BY <1>1 DEF Tick, IsDue, taskVars, requestVars, TypeOK
<1>2. CASE Administer
  BY <1>2, AdministerFrame
<1>3. CASE Check
  <2>1. Forget
    BY <1>3, CheckFrame
  <2>2. handler' = "idle" /\ answer'.kind = "none"
    BY <2>1 DEF Forget, NoAnswer, Answer
  <2>3. now' = now /\ now \in Nat
    BY <1>3, CheckFrame DEF TypeOK
  <2>4. \/ phase' = "sleeping" /\ deadline' \in {now, now + Interval}
        \/ phase' \in {"fetching", "checking"} /\ deadline' = now + Timeout
    BY <1>3 DEF Check, CheckOnce, ReceiveToken, ApplyGrant, ApplyRejection, ApplyFailure, Restart,
         Send, Sleep
  <2> QED
    BY <2>2, <2>3, <2>4
<1>4. CASE Serve
  <2>1. UNCHANGED <<now, phase, deadline>>
    BY <1>4, ServeFrame
  <2>2. CASE VerifySecret
    BY <2>1, <2>2 DEF VerifySecret, Answer
  <2>3. CASE CreateToken
    BY <2>1, <2>3 DEF CreateToken, Answer
  <2>4. CASE FindToken
    BY <2>1, <2>4 DEF FindToken, Answer
  <2>5. CASE ReadInstance
    BY <2>1, <2>5 DEF ReadInstance
  <2>6. CASE ReadTenant
    BY <2>1, <2>6 DEF ReadTenant, TypeOK
  <2>7. CASE EvaluateEntitlement
    BY <2>1, <2>7 DEF EvaluateEntitlement, Answer
  <2> QED
    BY <1>4, <2>2, <2>3, <2>4, <2>5, <2>6, <2>7 DEF Serve
<1>5. CASE UNCHANGED vars
  BY <1>5 DEF vars, taskVars, requestVars
<1> QED
  BY <1>1, <1>2, <1>3, <1>4, <1>5 DEF Next

-----------------------------------------------------------------------------
(* Losses: they are noted when they happen, and not later.                 *)

LossesGrow ==
    \A x \in Conditions :
        lostAt'[x] # Never =>
            lostAt'[x] = now' \/ (lostAt[x] # Never /\ lostAt'[x] = lostAt[x])

LEMMA LossesOf ==
    ASSUME TypeOK, LossesNoted, NEW status, NEW row, NEW time \in Nat, now <= time,
           NoteLosses(status, row, time)
    PROVE  \A x \in Conditions :
             /\ lostAt'[x] = Never <=> Met(x, status, row, time)
             /\ lostAt'[x] <= time
             /\ lostAt'[x] # Never =>
                   lostAt'[x] = time \/ (lostAt[x] # Never /\ lostAt'[x] = lostAt[x])
<1> SUFFICES ASSUME NEW x \in Conditions
             PROVE  /\ lostAt'[x] = Never <=> Met(x, status, row, time)
                    /\ lostAt'[x] <= time
                    /\ lostAt'[x] # Never =>
                          lostAt'[x] = time \/ (lostAt[x] # Never /\ lostAt'[x] = lostAt[x])
  OBVIOUS
<1>1. lostAt[x] \in Nat \cup {Never} /\ lostAt[x] <= now /\ now \in Nat
  BY DEF TypeOK, LossesNoted
<1>2. lostAt'[x] = IF Met(x, status, row, time) THEN Never
                   ELSE IF lostAt[x] = Never THEN time ELSE lostAt[x]
  BY Zenon DEF NoteLosses
<1>3. CASE Met(x, status, row, time)
  BY <1>2, <1>3 DEF Never
<1>4. CASE ~Met(x, status, row, time)
  BY <1>1, <1>2, <1>4 DEF Never
<1> QED
  BY <1>3, <1>4

LEMMA LossStep ==
    ASSUME TypeOK, LossesNoted, [Next]_vars
    PROVE  LossesNoted' /\ LossesGrow
<1>1. CASE UNCHANGED <<now, lostAt, instance, tenantRow>>
  BY <1>1 DEF LossesNoted, LossesGrow, Met
<1>2. ASSUME NoteLosses(instance', tenantRow', now'), now' \in Nat, now <= now'
      PROVE  LossesNoted' /\ LossesGrow
  BY <1>2, LossesOf DEF LossesNoted, LossesGrow
<1>3. CASE Tick
  BY <1>2, <1>3 DEF Tick, busVars, TypeOK
<1>4. CASE Administer
  BY <1>1, <1>2, <1>4 DEF Administer, UpdateTenant, RevokeInstance, RestoreInstance, RotateSecret,
       DeleteTokens, historyVars, TypeOK
<1>5. CASE Check
  BY <1>1, <1>5, CheckFrame
<1>6. CASE Serve
  BY <1>1, <1>6, ServeFrame
<1>7. CASE UNCHANGED vars
  BY <1>1, <1>7 DEF vars, busVars, historyVars
<1> QED
  BY <1>3, <1>4, <1>5, <1>6, <1>7 DEF Next

-----------------------------------------------------------------------------
(* Requests: whatever one has read as met was lost after it was sent.      *)

LEMMA Transitive ==
    ASSUME NEW a \in Nat, NEW b \in Nat, NEW c \in Nat, NEW t \in Nat, a <= b + t, b <= c
    PROVE  a <= c + t
OBVIOUS

LEMMA SentBeforeKept ==
    ASSUME TypeOK, RequestShape, LossesGrow, now' \in Nat, now <= now', deadline' = deadline,
           phase # "sleeping", NEW x \in Conditions, SentBefore(x)
    PROVE  lostAt'[x] # Never => deadline' <= lostAt'[x] + Timeout
<1> SUFFICES ASSUME lostAt'[x] # Never
             PROVE  deadline' <= lostAt'[x] + Timeout
  OBVIOUS
<1>1. deadline <= now + Timeout /\ deadline \in Nat /\ now \in Nat
  BY DEF RequestShape, TypeOK
<1>2. CASE lostAt'[x] = now'
  <2>1. Timeout \in Nat
    BY ConstantsAssumption
  <2>2. deadline <= now' + Timeout
    BY <1>1, <2>1, Transitive, Zenon
  <2> QED
    BY <1>2, <2>2
<1>3. CASE lostAt[x] # Never /\ lostAt'[x] = lostAt[x]
  BY <1>3 DEF SentBefore
<1> QED
  BY <1>2, <1>3 DEF LossesGrow

LEMMA ReadWhileUnchanged ==
    ASSUME TypeOK, RequestShape, LossesGrow, ReadBeforeLoss, now' \in Nat, now <= now',
           UNCHANGED <<phase, deadline, handler, seenInstance, seenTenant, answer>>
    PROVE  ReadBeforeLoss'
<1>1. ASSUME NEW x \in Conditions, SentBefore(x), phase # "sleeping"
      PROVE  SentBefore(x)'
  BY <1>1, SentBeforeKept DEF SentBefore
<1>2. /\ handler \in {"instance", "tenant"} => phase # "sleeping"
      /\ answer.kind = "grant" => phase # "sleeping"
  BY DEF RequestShape
<1>3. {"instance", "tenant", "license"} \subseteq Conditions
  BY DEF Conditions
<1>4. now' <= seenTenant'.grace /\ handler = "tenant" => now <= seenTenant.grace
  <2> SUFFICES ASSUME now' <= seenTenant.grace, handler = "tenant"
               PROVE  now <= seenTenant.grace
    OBVIOUS
  <2>1. seenTenant.grace \in Nat
    BY TenantTypes DEF RequestShape
  <2> QED
    BY <2>1 DEF TypeOK
<1> QED
  BY <1>1, <1>2, <1>3, <1>4 DEF ReadBeforeLoss

LEMMA ReadStep ==
    ASSUME TypeOK, RequestShape, LossesNoted, LossesGrow, ReadBeforeLoss, [Next]_vars
    PROVE  ReadBeforeLoss'
<1>1. CASE Tick
  BY <1>1, ReadWhileUnchanged DEF Tick, taskVars, requestVars, TypeOK
<1>2. CASE Administer
  BY <1>2, AdministerFrame, ReadWhileUnchanged DEF TypeOK
<1>3. CASE Check
  BY <1>3, CheckFrame DEF Forget, NoAnswer, Answer, ReadBeforeLoss
<1>4. CASE Serve
  <2>1. UNCHANGED <<now, tenantRow, instance, deadline, lostAt>>
    BY <1>4, ServeFrame
  <2>2. \A x \in Conditions : SentBefore(x)' <=> SentBefore(x)
    BY <2>1 DEF SentBefore
  <2>3. \A x \in Conditions : Met(x, instance, tenantRow, now) => SentBefore(x)
    BY DEF LossesNoted, SentBefore
  <2>4. {"instance", "tenant", "license"} = Conditions
    BY DEF Conditions
  <2>5. ASSUME handler \in {"idle", "verified", "token"}, handler' # "tenant",
               handler' = "instance" => seenInstance' = instance,
               answer'.kind # "grant"
        PROVE  ReadBeforeLoss'
    BY <2>2, <2>3, <2>4, <2>5 DEF ReadBeforeLoss, Met
  <2>6. CASE VerifySecret
    BY <2>5, <2>6 DEF VerifySecret, Answer, RequestShape
  <2>7. CASE CreateToken
    BY <2>5, <2>7 DEF CreateToken, Answer, RequestShape
  <2>8. CASE FindToken
    BY <2>5, <2>8 DEF FindToken, Answer, RequestShape
  <2>9. CASE ReadInstance
    BY <2>5, <2>9 DEF ReadInstance, RequestShape
  <2>10. CASE ReadTenant
    <3>1. handler = "instance" /\ handler' = "tenant" /\ answer'.kind = "none"
      BY <2>10 DEF ReadTenant, RequestShape
    <3>2. seenInstance' = seenInstance /\ seenTenant' = tenantRow
      BY <2>10 DEF ReadTenant
    <3> QED
      BY <2>1, <2>2, <2>3, <2>4, <3>1, <3>2 DEF ReadBeforeLoss, Met
  <2>11. CASE EvaluateEntitlement
    <3>1. handler = "tenant" /\ handler' = "answered"
      BY <2>11 DEF EvaluateEntitlement
    <3>2. answer'.kind = "grant" => Grants(seenTenant)
      BY <2>11 DEF EvaluateEntitlement, Answer
    <3>3. Grants(seenTenant) => \A x \in Conditions : SentBefore(x)
      BY <2>4, <3>1 DEF Grants, ReadBeforeLoss
    <3> QED
      BY <2>2, <3>1, <3>2, <3>3 DEF ReadBeforeLoss
  <2> QED
    BY <1>4, <2>6, <2>7, <2>8, <2>9, <2>10, <2>11 DEF Serve
<1>5. CASE UNCHANGED vars
  BY <1>5, ReadWhileUnchanged DEF vars, taskVars, requestVars, TypeOK
<1> QED
  BY <1>1, <1>2, <1>3, <1>4, <1>5 DEF Next

\* The lease of a grant begins with its evaluation.
LEMMA LeaseOfGrant ==
    ASSUME TypeOK, NEW row \in Tenants, Grants(row)
    PROVE  /\ LeaseEnd(row) \in Nat
           /\ now <= LeaseEnd(row)
           /\ LeaseEnd(row) <= now + MaxLease
           /\ LeaseEnd(row) <= row.grace
<1>1. row.grace \in Nat /\ row.offline \in Nat /\ row.offline <= MaxLease /\ now \in Nat
  BY TenantTypes DEF TypeOK
<1> QED
  BY <1>1, ConstantsAssumption DEF LeaseEnd, Grants

LEMMA FreshStep ==
    ASSUME TypeOK, RequestShape, GrantIsFresh, [Next]_vars
    PROVE  GrantIsFresh'
<1>1. now \in Nat /\ deadline \in Nat /\ now <= deadline /\ answer.time \in Nat
  BY DEF TypeOK, Answers
<1>2. CASE Tick
  BY <1>1, <1>2, ConstantsAssumption DEF Tick, taskVars, requestVars, GrantIsFresh
<1>3. CASE Administer
  BY <1>3, AdministerFrame DEF GrantIsFresh
<1>4. CASE Check
  BY <1>4, CheckFrame DEF Forget, NoAnswer, Answer, GrantIsFresh
<1>5. CASE Serve
  <2>1. now' = now /\ deadline' = deadline
    BY <1>5, ServeFrame
  <2>2. CASE EvaluateEntitlement /\ Grants(seenTenant)
    <3>1. seenTenant \in Tenants /\ deadline <= now + Timeout
      BY <2>2 DEF EvaluateEntitlement, RequestShape
    <3>2. answer'.time = LeaseEnd(seenTenant)
      BY <2>2 DEF EvaluateEntitlement, Answer
    <3> QED
      BY <1>1, <2>1, <2>2, <3>1, <3>2, LeaseOfGrant, ConstantsAssumption DEF GrantIsFresh
  <2>3. CASE ~(EvaluateEntitlement /\ Grants(seenTenant))
    <3>1. answer' = answer \/ answer'.kind # "grant"
      BY <1>5, <2>3 DEF Serve, VerifySecret, CreateToken, FindToken, ReadInstance, ReadTenant,
           EvaluateEntitlement, Answer
    <3> QED
      BY <2>1, <3>1 DEF GrantIsFresh
  <2> QED
    BY <2>2, <2>3
<1>6. CASE UNCHANGED vars
  BY <1>6 DEF vars, taskVars, requestVars, GrantIsFresh
<1> QED
  BY <1>2, <1>3, <1>4, <1>5, <1>6 DEF Next

-----------------------------------------------------------------------------
(* Verdicts: the next one is near, and a lease ends soon after its grounds.*)

LEMMA HorizonIsNear ==
    ASSUME TypeOK, RequestShape
    PROVE  /\ Horizon \in Nat
           /\ now <= Horizon
           /\ Horizon <= now + Interval + 2 * Timeout
BY ConstantsAssumption DEF TypeOK, RequestShape, Horizon

\* A step without a verdict leaves the bounds, also those on new losses.
LEMMA LeaseOfEarlier ==
    ASSUME NEW n \in Nat, NEW m \in Nat, NEW h \in Nat, NEW k \in Nat, NEW l \in Int,
           n <= m, k <= h, h <= n + Interval + 2 * Timeout, l <= n + MaxLease
    PROVE  /\ l <= m + MaxLease
           /\ l <= m + Timeout + MaxLease
           /\ k <= m + Interval + 3 * Timeout
           /\ \A end \in Int :
                h <= end + Interval + 3 * Timeout => k <= end + Interval + 3 * Timeout
           /\ h < l + Lag + Interval + 2 * Timeout => k < l + Lag + Interval + 2 * Timeout
BY ConstantsAssumption

LEMMA LeaseWithoutVerdict ==
    ASSUME TypeOK, TypeOK', RequestShape, RequestShape', LossesGrow, LeaseIsBounded,
           now <= now', Horizon' <= Horizon, lease' = lease, allowed' => allowed
    PROVE  LeaseIsBounded'
<1> SUFFICES ASSUME allowed'
             PROVE  /\ lease' <= now' + MaxLease
                    /\ EndsSoonAfter(lease)'
                    /\ \A x \in Conditions : lostAt'[x] # Never =>
                          /\ lease' <= lostAt'[x] + Timeout + MaxLease
                          /\ EndsSoonAfter(lostAt[x])'
  BY DEF LeaseIsBounded
<1>1. /\ now \in Nat /\ now' \in Nat /\ lease \in Int
      /\ \A x \in Conditions : lostAt[x] # Never => lostAt[x] \in Nat
  BY DEF TypeOK
<1>2. /\ Horizon \in Nat /\ Horizon' \in Nat
      /\ Horizon <= now + Interval + 2 * Timeout
  <2>1. Horizon \in Nat /\ Horizon <= now + Interval + 2 * Timeout
    BY HorizonIsNear
  <2>2. Horizon' \in Nat
    <3>1. deadline' \in Nat
      BY DEF TypeOK
    <3>2. Horizon' \in {deadline', deadline' + Timeout, deadline' + 2 * Timeout}
      BY DEF Horizon
    <3>3. \A d \in Nat : {d, d + Timeout, d + 2 * Timeout} \subseteq Nat
      BY ConstantsAssumption
    <3> QED
      BY <3>1, <3>2, <3>3, Zenon
  <2> QED
    BY <2>1, <2>2
<1>3. /\ lease <= now + MaxLease
      /\ EndsSoonAfter(lease)
      /\ \A x \in Conditions : lostAt[x] # Never =>
            lease <= lostAt[x] + Timeout + MaxLease /\ EndsSoonAfter(lostAt[x])
  BY DEF LeaseIsBounded
<1>4. /\ lease <= now' + MaxLease
      /\ lease <= now' + Timeout + MaxLease
      /\ Horizon' <= now' + Interval + 3 * Timeout
      /\ \A end \in Int : Horizon <= end + Interval + 3 * Timeout
                             => Horizon' <= end + Interval + 3 * Timeout
      /\ Horizon < lease + Lag + Interval + 2 * Timeout
             => Horizon' < lease + Lag + Interval + 2 * Timeout
  BY <1>1, <1>2, <1>3, LeaseOfEarlier, Zenon
<1>5. EndsSoonAfter(lease)'
  BY <1>1, <1>3, <1>4 DEF EndsSoonAfter
<1>6. ASSUME NEW x \in Conditions, lostAt'[x] # Never
      PROVE  lease' <= lostAt'[x] + Timeout + MaxLease /\ EndsSoonAfter(lostAt[x])'
  <2>1. CASE lostAt'[x] = now'
    BY <1>4, <2>1, Zenon DEF EndsSoonAfter
  <2>2. CASE lostAt[x] # Never /\ lostAt'[x] = lostAt[x]
    <3>1. lostAt[x] \in Int /\ EndsSoonAfter(lostAt[x])
      BY <1>1, <1>3, <2>2
    <3>2. EndsSoonAfter(lostAt[x])'
      BY <1>4, <2>2, <3>1 DEF EndsSoonAfter
    <3> QED
      BY <1>3, <2>2, <3>2
  <2> QED
    BY <1>6, <2>1, <2>2 DEF LossesGrow
<1> QED
  BY <1>4, <1>5, <1>6

\* A request that goes on without a verdict leads to none later.
LEMMA HorizonShrinks ==
    ASSUME TypeOK, CheckOnce \/ ReceiveToken
    PROVE  Horizon \in Nat /\ Horizon' \in Nat /\ Horizon' <= Horizon
<1>1. now \in Nat /\ deadline \in Nat /\ now <= deadline /\ Timeout \in Nat
  BY ConstantsAssumption DEF TypeOK
<1>2. CASE CheckOnce
  <2>1. Horizon = now + 2 * Timeout
    BY <1>2 DEF CheckOnce, Horizon
  <2>2. deadline' = now + Timeout /\ phase' \in {"fetching", "checking"}
    BY <1>2 DEF CheckOnce, Send
  <2>3. Horizon' = (now + Timeout) + Timeout \/ Horizon' = now + Timeout
    BY <2>2 DEF Horizon
  <2> QED
    BY <1>1, <2>1, <2>3
<1>3. CASE ReceiveToken
  <2>1. Horizon = deadline + Timeout
    BY <1>3 DEF ReceiveToken, Horizon
  <2>2. Horizon' = now + Timeout
    BY <1>3 DEF ReceiveToken, Send, Horizon
  <2> QED
    BY <1>1, <2>1, <2>2
<1> QED
  BY <1>2, <1>3

LEMMA LeaseStep ==
    ASSUME TypeOK, TypeOK', RequestShape, RequestShape', ReadBeforeLoss, GrantIsFresh, LossesGrow,
           LeaseIsBounded, [Next]_vars
    PROVE  LeaseIsBounded'
<1>1. CASE UNCHANGED <<phase, deadline, allowed, lease>> /\ now <= now'
  <2>1. Horizon' = Horizon
    BY <1>1 DEF Horizon
  <2> QED
    BY <1>1, <2>1, HorizonIsNear, LeaseWithoutVerdict
<1>2. CASE Tick
  BY <1>1, <1>2 DEF Tick, taskVars, snapshotVars, TypeOK
<1>3. CASE Administer
  BY <1>1, <1>3, AdministerFrame DEF TypeOK
<1>4. CASE Serve
  BY <1>1, <1>4, ServeFrame DEF TypeOK
<1>5. CASE CheckOnce \/ ReceiveToken
  <2>1. UNCHANGED <<now, allowed, lease>>
    BY <1>5 DEF CheckOnce, ReceiveToken, snapshotVars
  <2>2. Horizon' <= Horizon
    BY <1>5, HorizonShrinks
  <2> QED
    BY <2>1, <2>2, LeaseWithoutVerdict DEF TypeOK
<1>6. CASE ApplyGrant
  <2> SUFFICES ASSUME allowed'
               PROVE  /\ lease' <= now' + MaxLease
                      /\ EndsSoonAfter(lease)'
                      /\ \A x \in Conditions : lostAt'[x] # Never =>
                            /\ lease' <= lostAt'[x] + Timeout + MaxLease
                            /\ EndsSoonAfter(lostAt[x])'
    BY DEF LeaseIsBounded
  <2>1. /\ now' = now /\ lostAt' = lostAt /\ lease' = answer.time
        /\ phase' = "sleeping" /\ deadline' = now + Interval /\ answer.kind = "grant"
    BY <1>6 DEF ApplyGrant, Sleep, historyVars
  <2>2. /\ deadline <= answer.time + Timeout
        /\ answer.time <= deadline + MaxLease
        /\ answer.time <= now + MaxLease
        /\ \A x \in Conditions : lostAt[x] # Never => deadline <= lostAt[x] + Timeout
    BY <2>1 DEF GrantIsFresh, ReadBeforeLoss, SentBefore
  <2>3. /\ now \in Nat /\ deadline \in Nat /\ now <= deadline /\ answer.time \in Nat
        /\ \A x \in Conditions : lostAt[x] \in Int
    BY DEF TypeOK, Answers, Never
  <2>4. Horizon' = now + Interval + 2 * Timeout
    BY <2>1 DEF Horizon
  <2>5. ASSUME NEW end \in Int, deadline <= end + Timeout
        PROVE  /\ Horizon' <= end + Interval + 3 * Timeout
               /\ answer.time <= end + Timeout + MaxLease
    BY <2>2, <2>3, <2>4, <2>5, ConstantsAssumption
  <2> QED
    BY <2>1, <2>2, <2>3, <2>5 DEF EndsSoonAfter
<1>7. CASE ApplyRejection \/ Restart
  BY <1>7 DEF ApplyRejection, Restart, LeaseIsBounded
<1>8. CASE ApplyFailure
  <2> SUFFICES ASSUME allowed'
               PROVE  /\ lease' <= now' + MaxLease
                      /\ EndsSoonAfter(lease)'
                      /\ \A x \in Conditions : lostAt'[x] # Never =>
                            /\ lease' <= lostAt'[x] + Timeout + MaxLease
                            /\ EndsSoonAfter(lostAt[x])'
    BY DEF LeaseIsBounded
  <2>1. /\ now' = now /\ lostAt' = lostAt /\ lease' = lease
        /\ phase' = "sleeping" /\ deadline' = now + Interval
    BY <1>8 DEF ApplyFailure, Sleep, historyVars
  <2>2. allowed /\ lease > now - Lag
    BY <1>8 DEF ApplyFailure, LeaseValid, LocalNow
  <2>3. Horizon' = now + Interval + 2 * Timeout
    BY <2>1 DEF Horizon
  <2>4. Horizon' < lease' + Lag + Interval + 2 * Timeout
    BY <2>1, <2>2, <2>3, ConstantsAssumption DEF TypeOK
  <2> QED
    BY <2>1, <2>2, <2>4 DEF LeaseIsBounded, EndsSoonAfter
<1>9. CASE UNCHANGED vars
  BY <1>1, <1>9 DEF vars, taskVars, snapshotVars, TypeOK
<1> QED
  BY <1>2, <1>3, <1>4, <1>5, <1>6, <1>7, <1>8, <1>9 DEF Next, Check

-----------------------------------------------------------------------------
(* The grace period, as long as the tenant is not edited.                  *)

LEMMA GraceStep ==
    ASSUME TypeOK, TypeOK', RequestShape, RequestShape', GraceIsKept, [Next]_vars
    PROVE  GraceIsKept'
<1> SUFFICES ASSUME changes' = 0
             PROVE  /\ handler' = "tenant" => seenTenant' = tenantRow'
                    /\ answer'.kind = "grant" =>
                          /\ answer'.time <= tenantRow'.grace
                          /\ deadline' <= tenantRow'.grace + Timeout
                    /\ allowed' =>
                          lease' <= tenantRow'.grace /\ EndsSoonAfter(tenantRow.grace)'
  BY DEF GraceIsKept
<1>1. changes = 0 /\ tenantRow' = tenantRow
  <2>1. CASE Administer
    <3>1. \/ tenantRow' = tenantRow /\ changes' = changes
          \/ changes' = changes + 1
      BY <2>1 DEF Administer, UpdateTenant, RevokeInstance, RestoreInstance, RotateSecret,
           DeleteTokens, counters
    <3> QED
      BY <3>1 DEF TypeOK
  <2>2. CASE Tick \/ UNCHANGED vars
    BY <2>2 DEF Tick, vars, busVars, counters
  <2> QED
    BY <2>1, <2>2, CheckFrame, ServeFrame DEF Next
<1>2. /\ handler = "tenant" => seenTenant = tenantRow
      /\ answer.kind = "grant" =>
            answer.time <= tenantRow.grace /\ deadline <= tenantRow.grace + Timeout
      /\ allowed => lease <= tenantRow.grace /\ EndsSoonAfter(tenantRow.grace)
  BY <1>1 DEF GraceIsKept
<1>3. /\ tenantRow.grace \in Nat /\ now \in Nat /\ deadline \in Nat /\ now <= deadline
      /\ lease \in Int /\ answer.time \in Nat
  BY TenantTypes DEF TypeOK, Answers
<1>4. CASE UNCHANGED <<phase, deadline, allowed, lease, handler, seenTenant, answer>>
  <2>1. Horizon' = Horizon
    BY <1>4 DEF Horizon
  <2> QED
    BY <1>1, <1>2, <1>4, <2>1 DEF EndsSoonAfter
<1>5. CASE Tick
  BY <1>4, <1>5 DEF Tick, taskVars, snapshotVars, requestVars
<1>6. CASE Administer
  BY <1>4, <1>6, AdministerFrame
<1>7. CASE Serve
  <2>1. UNCHANGED <<now, phase, deadline, allowed, lease>>
    BY <1>7, ServeFrame
  <2>2. Horizon' = Horizon
    BY <2>1 DEF Horizon
  <2>3. allowed' => lease' <= tenantRow'.grace /\ EndsSoonAfter(tenantRow.grace)'
    BY <1>1, <1>2, <2>1, <2>2 DEF EndsSoonAfter
  <2>4. handler' = "tenant" => seenTenant' = tenantRow'
    BY <1>1, <1>7 DEF Serve, VerifySecret, CreateToken, FindToken, ReadInstance, ReadTenant,
         EvaluateEntitlement
  <2>5. CASE EvaluateEntitlement /\ Grants(seenTenant)
    <3>1. seenTenant = tenantRow /\ deadline <= now + Timeout
      BY <1>2, <2>5 DEF EvaluateEntitlement, RequestShape
    <3>2. answer'.time = LeaseEnd(tenantRow) /\ now <= tenantRow.grace
      BY <2>5, <3>1 DEF EvaluateEntitlement, Answer, Grants
    <3>3. LeaseEnd(tenantRow) <= tenantRow.grace
      BY <2>5, <3>1, LeaseOfGrant DEF TypeOK
    <3>4. deadline <= tenantRow.grace + Timeout
      BY <1>3, <3>1, <3>2, ConstantsAssumption
    <3> QED
      BY <1>1, <2>1, <2>3, <2>4, <3>2, <3>3, <3>4
  <2>6. CASE ~(EvaluateEntitlement /\ Grants(seenTenant))
    <3>1. answer' = answer \/ answer'.kind # "grant"
      BY <1>7, <2>6 DEF Serve, VerifySecret, CreateToken, FindToken, ReadInstance, ReadTenant,
           EvaluateEntitlement, Answer
    <3> QED
      BY <1>1, <1>2, <2>1, <2>3, <2>4, <3>1
  <2> QED
    BY <2>5, <2>6
<1>8. CASE Check
  <2>1. handler' = "idle" /\ answer'.kind = "none" /\ now' = now
    BY <1>8, CheckFrame DEF Forget, NoAnswer, Answer
  <2>2. CASE CheckOnce \/ ReceiveToken
    <3>1. UNCHANGED <<allowed, lease>>
      BY <2>2 DEF CheckOnce, ReceiveToken, snapshotVars
    <3>2. Horizon \in Nat /\ Horizon' \in Nat /\ Horizon' <= Horizon
      BY <2>2, HorizonShrinks
    <3>3. allowed' => EndsSoonAfter(tenantRow.grace)'
      <4>1. \A h \in Nat, k \in Nat, g \in Nat : k <= h =>
               /\ h <= g + Interval + 3 * Timeout => k <= g + Interval + 3 * Timeout
               /\ h < lease + Lag + Interval + 2 * Timeout
                     => k < lease + Lag + Interval + 2 * Timeout
        BY <1>3, ConstantsAssumption
      <4> QED
        BY <1>1, <1>2, <1>3, <3>1, <3>2, <4>1, Zenon DEF EndsSoonAfter
    <3> QED
      BY <1>1, <1>2, <2>1, <3>1, <3>3
  <2>3. CASE ApplyGrant /\ allowed'
    <3>1. lease' = answer.time /\ answer.kind = "grant"
      BY <2>3 DEF ApplyGrant
    <3>2. Horizon' = now + Interval + 2 * Timeout
      BY <2>3 DEF ApplyGrant, Sleep, Horizon
    <3>3. Horizon' <= tenantRow.grace + Interval + 3 * Timeout
      BY <1>2, <1>3, <3>1, <3>2, ConstantsAssumption
    <3> QED
      BY <1>1, <1>2, <2>1, <3>1, <3>3 DEF EndsSoonAfter
  <2>4. CASE ApplyFailure /\ allowed'
    <3>1. allowed /\ lease > now - Lag /\ lease' = lease
      BY <2>4 DEF ApplyFailure, LeaseValid, LocalNow
    <3>2. Horizon' = now + Interval + 2 * Timeout
      BY <2>4 DEF ApplyFailure, Sleep, Horizon
    <3>3. Horizon' < lease' + Lag + Interval + 2 * Timeout
      BY <1>3, <3>1, <3>2, ConstantsAssumption
    <3> QED
      BY <1>1, <1>2, <2>1, <3>1, <3>3 DEF EndsSoonAfter
  <2>5. CASE ApplyRejection \/ Restart
    BY <2>1, <2>5 DEF ApplyRejection, Restart
  <2> QED
    BY <1>8, <2>1, <2>2, <2>3, <2>4, <2>5 DEF Check
<1>9. CASE UNCHANGED vars
  BY <1>4, <1>9 DEF vars, taskVars, snapshotVars, requestVars
<1> QED
  BY <1>5, <1>6, <1>7, <1>8, <1>9 DEF Next

-----------------------------------------------------------------------------
(* Tokens, as long as nobody withdraws credentials.                        *)

LEMMA TokenStep ==
    ASSUME TypeOK, RequestShape, TokenIsKept, [Next]_vars
    PROVE  TokenIsKept'
<1> SUFFICES ASSUME RefreshMargin, ~credentialsChanged'
             PROVE  TokenIsKept'
  BY DEF TokenIsKept, RefreshMargin
<1>1. ~credentialsChanged
  BY CheckFrame, ServeFrame, Zenon DEF Next, Tick, Administer, UpdateTenant, RevokeInstance,
     RestoreInstance, RotateSecret, DeleteTokens, historyVars, vars
<1>2. /\ instance = "active" /\ secretKnown /\ ~purging
      /\ answer.kind # "unauthorized"
      /\ answer.kind = "token" =>
            answer.time \in tokens /\ answer.time >= deadline - Timeout + TokenLife
      /\ cached > now => cached \in tokens
      /\ cached # NoToken => cached >= refreshAt + Lag + Timeout
      /\ phase = "checking" => deadline < cached
  BY <1>1 DEF TokenIsKept
<1>3. /\ now \in Nat /\ deadline \in Nat /\ now <= deadline /\ cached \in Int
      /\ refreshAt \in Int /\ answer.time \in Nat
  BY DEF TypeOK, Answers, NoToken
<1>4. CASE Tick
  <2>1. UNCHANGED <<instance, secretKnown, purging, answer, tokens, cached, refreshAt, phase, deadline>>
    BY <1>4 DEF Tick, busVars, taskVars, requestVars
  <2>2. cached > now + 1 => cached > now
    BY <1>3
  <2> QED
    BY <1>2, <1>4, <2>1, <2>2 DEF Tick, TokenIsKept
<1>5. CASE Administer
  <2>1. UNCHANGED <<now, answer, cached, refreshAt, phase, deadline>>
    BY <1>5, AdministerFrame
  <2>2. UNCHANGED <<instance, secretKnown, purging, tokens>>
    BY <1>2, <1>5 DEF Administer, UpdateTenant, RevokeInstance, RestoreInstance, RotateSecret,
         DeleteTokens
  <2> QED
    BY <1>2, <2>1, <2>2 DEF TokenIsKept
<1>6. CASE Check
  <2>1. /\ UNCHANGED <<now, instance, tokens, purging>>
        /\ answer'.kind = "none"
    BY <1>6, CheckFrame DEF Forget, NoAnswer, Answer
  <2>2. CASE CheckOnce
    <3>1. UNCHANGED <<cached, refreshAt, secretKnown>> /\ deadline' = now + Timeout
      BY <2>2 DEF CheckOnce, Send, busVars
    <3>2. phase' = "checking" => cached # NoToken /\ ~(refreshAt <= now - Lag)
      BY <2>2 DEF CheckOnce, Send, LocalNow
    <3>3. phase' = "checking" => deadline' < cached'
      BY <1>2, <1>3, <3>1, <3>2, ConstantsAssumption
    <3> QED
      BY <1>2, <2>1, <3>1, <3>3 DEF TokenIsKept
  <2>3. CASE ReceiveToken
    <3>1. /\ cached' = answer.time /\ refreshAt' = now - Lag + RefreshAfter
          /\ deadline' = now + Timeout /\ answer.kind = "token" /\ UNCHANGED secretKnown
      BY <2>3 DEF ReceiveToken, Send, LocalNow, busVars
    <3>2. answer.time >= deadline - Timeout + TokenLife /\ answer.time \in tokens
      BY <1>2, <3>1
    <3>3. answer.time >= now - Lag + RefreshAfter + Lag + Timeout /\ now + Timeout < answer.time
      BY <1>3, <3>2, ConstantsAssumption DEF RefreshMargin
    <3> QED
      BY <1>2, <2>1, <3>1, <3>2, <3>3 DEF TokenIsKept
  <2>4. CASE ApplyGrant \/ ApplyFailure
    <3>1. UNCHANGED <<cached, refreshAt, secretKnown>> /\ phase' = "sleeping"
      BY <2>4 DEF ApplyGrant, ApplyFailure, Sleep, busVars
    <3> QED
      BY <1>2, <2>1, <3>1 DEF TokenIsKept
  <2>5. CASE ApplyRejection
    BY <1>2, <2>5 DEF ApplyRejection
  <2>6. CASE Restart
    <3>1. cached' = NoToken /\ phase' = "sleeping" /\ secretKnown'
      BY <1>2, <2>6 DEF Restart
    <3>2. ~(NoToken > now)
      BY <1>3 DEF NoToken
    <3> QED
      BY <1>2, <2>1, <3>1, <3>2 DEF TokenIsKept
  <2> QED
    BY <1>6, <2>2, <2>3, <2>4, <2>5, <2>6 DEF Check
<1>7. CASE Serve
  <2>1. UNCHANGED <<now, instance, secretKnown, purging, phase, deadline, cached, refreshAt>>
    BY <1>7, ServeFrame
  <2>2. ASSUME UNCHANGED tokens, answer' = answer \/ answer'.kind \notin {"token", "unauthorized"}
        PROVE  TokenIsKept'
    BY <1>2, <2>1, <2>2 DEF TokenIsKept
  <2>3. CASE VerifySecret
    BY <1>2, <2>2, <2>3 DEF VerifySecret, busVars
  <2>4. CASE CreateToken
    <3>1. phase = "fetching" /\ deadline <= now + Timeout
      BY <2>4 DEF CreateToken, RequestShape
    <3>2. /\ answer'.kind = "token" /\ answer'.time = now + TokenLife
          /\ tokens' = {t \in tokens : t > now} \cup {now + TokenLife}
      BY <2>4 DEF CreateToken, Answer
    <3>3. now + TokenLife >= deadline - Timeout + TokenLife
      BY <1>3, <3>1, ConstantsAssumption
    <3> QED
      BY <1>2, <2>1, <3>1, <3>2, <3>3 DEF TokenIsKept
  <2>5. CASE FindToken
    <3>1. cached > now
      BY <1>2, <1>3, <2>5 DEF FindToken
    <3> QED
      BY <1>2, <2>2, <2>5, <3>1 DEF FindToken, IsValid, busVars
  <2>6. CASE ReadInstance \/ ReadTenant
    BY <2>2, <2>6 DEF ReadInstance, ReadTenant, busVars
  <2>7. CASE EvaluateEntitlement
    BY <2>2, <2>7 DEF EvaluateEntitlement, Answer, busVars
  <2> QED
    BY <1>7, <2>3, <2>4, <2>5, <2>6, <2>7 DEF Serve
<1>8. CASE UNCHANGED vars
  BY <1>2, <1>8 DEF vars, busVars, taskVars, requestVars, TokenIsKept
<1> QED
  BY <1>4, <1>5, <1>6, <1>7, <1>8 DEF Next

-----------------------------------------------------------------------------
LEMMA InvariantInit ==
    ASSUME Init
    PROVE  InductiveInvariant
<1>1. TypeOK
  <2>1. answer \in Answers
    BY DEF Init, NoAnswer, Answer, Answers
  <2>2. lostAt \in [Conditions -> Nat \cup {Never}]
    BY DEF Init
  <2>3. /\ secretKnown \in BOOLEAN /\ purging \in BOOLEAN /\ allowed \in BOOLEAN
        /\ credentialsChanged \in BOOLEAN
    BY Zenon DEF Init
  <2>4. /\ now \in 0..MaxTime /\ deadline \in Nat /\ now <= deadline
        /\ refreshAt \in Int /\ lease \in Int
        /\ changes \in Nat /\ restarts \in Nat /\ changes + restarts <= MaxEvents
    BY ConstantsAssumption DEF Init
  <2>5. /\ tenantRow \in Tenants /\ instance \in Statuses /\ seenInstance \in Statuses
        /\ tokens \subseteq Nat /\ cached \in Nat \cup {NoToken}
        /\ seenTenant \in Tenants \cup {NoTenant}
    BY DEF Init, Statuses
  <2>6. /\ phase \in {"fetching", "checking", "sleeping"}
        /\ handler \in {"idle", "verified", "token", "instance", "tenant", "answered"}
    BY DEF Init
  <2> QED
    BY <2>1, <2>2, <2>3, <2>4, <2>5, <2>6, Zenon DEF TypeOK
<1>2. RequestShape
  BY ConstantsAssumption DEF Init, RequestShape, NoAnswer, Answer
<1>3. LossesNoted
  <2>1. tenantRow.grace \in Nat
    BY TenantTypes DEF Init
  <2>2. \A x \in Conditions : lostAt[x] = Never
    BY DEF Init
  <2>3. \A x \in Conditions : Met(x, instance, tenantRow, now)
    BY <2>1 DEF Init, Conditions, Met
  <2> QED
    BY <2>2, <2>3 DEF Init, LossesNoted, Never
<1>4. ReadBeforeLoss /\ GrantIsFresh /\ LeaseIsBounded /\ GraceIsKept
  BY DEF Init, NoAnswer, Answer, ReadBeforeLoss, GrantIsFresh, LeaseIsBounded, GraceIsKept
<1>5. TokenIsKept
  BY DEF Init, NoAnswer, Answer, NoToken, TokenIsKept
<1> QED
  BY <1>1, <1>2, <1>3, <1>4, <1>5 DEF InductiveInvariant

LEMMA InvariantStep ==
    ASSUME InductiveInvariant, [Next]_vars
    PROVE  InductiveInvariant'
<1>1. TypeOK' /\ RequestShape'
  BY TypeStep, ShapeStep DEF InductiveInvariant
<1>2. LossesNoted' /\ LossesGrow
  BY LossStep DEF InductiveInvariant
<1>3. ReadBeforeLoss' /\ GrantIsFresh'
  BY <1>2, ReadStep, FreshStep DEF InductiveInvariant
<1>4. LeaseIsBounded' /\ GraceIsKept' /\ TokenIsKept'
  BY <1>1, <1>2, LeaseStep, GraceStep, TokenStep DEF InductiveInvariant
<1> QED
  BY <1>1, <1>2, <1>3, <1>4 DEF InductiveInvariant

\* The inductive invariant of the lease.
THEOREM LeaseInvariance == Spec => []InductiveInvariant
<1>1. Init => InductiveInvariant
  BY InvariantInit
<1>2. InductiveInvariant /\ [Next]_vars => InductiveInvariant'
  BY InvariantStep
<1> QED
  BY <1>1, <1>2, PTL DEF Spec

\* Types, and no deadline that has passed.
THEOREM LeaseTypeCorrect == Spec => []TypeOK
<1>1. InductiveInvariant => TypeOK
  BY DEF InductiveInvariant
<1> QED
  BY <1>1, LeaseInvariance, PTL

\* A withdrawal takes effect within a lease, an interval and three timeouts,
\* whatever the lengths of these and the difference of the clocks
\* (authority.rs 131-185, 245-266).
THEOREM LeaseFailsClosed == Spec => []WithdrawalTakesEffect
<1>1. InductiveInvariant => WithdrawalTakesEffect
  <2> SUFFICES ASSUME InductiveInvariant, NEW x \in Conditions, allowed, lostAt[x] # Never
               PROVE  \/ now <= lostAt[x] + Interval + 3 * Timeout
                      \/ now < lostAt[x] + MaxLease + Lag + Interval + 3 * Timeout
    BY DEF WithdrawalTakesEffect
  <2>1. lease <= lostAt[x] + Timeout + MaxLease /\ EndsSoonAfter(lostAt[x])
    BY DEF InductiveInvariant, LeaseIsBounded
  <2>2. Horizon \in Nat /\ now <= Horizon
    BY HorizonIsNear DEF InductiveInvariant
  <2>3. now \in Nat /\ lease \in Int /\ lostAt[x] \in Int
    BY DEF InductiveInvariant, TypeOK, Never
  <2> QED
    BY <2>1, <2>2, <2>3, ConstantsAssumption DEF EndsSoonAfter
<1> QED
  BY <1>1, LeaseInvariance, PTL

\* An expired lease is honoured until the next verdict (authority.rs 248-251).
THEOREM ExpiredLeasesEnd == Spec => []ExpiredLeaseEnds
<1>1. InductiveInvariant => ExpiredLeaseEnds
  <2> SUFFICES ASSUME InductiveInvariant, allowed
               PROVE  \/ now <= lease + Interval + 3 * Timeout
                      \/ now - Lag < lease + Interval + 2 * Timeout
    BY DEF ExpiredLeaseEnds, LocalNow
  <2>1. EndsSoonAfter(lease)
    BY DEF InductiveInvariant, LeaseIsBounded
  <2>2. Horizon \in Nat /\ now <= Horizon
    BY HorizonIsNear DEF InductiveInvariant
  <2>3. now \in Nat /\ lease \in Int
    BY DEF InductiveInvariant, TypeOK
  <2> QED
    BY <2>1, <2>2, <2>3, ConstantsAssumption DEF EndsSoonAfter
<1> QED
  BY <1>1, LeaseInvariance, PTL

\* No lease outlives the grace period (api/authority.rs 516-524).
THEOREM GraceEndsLeases == Spec => []GraceIsTheEnd
<1>1. InductiveInvariant => GraceIsTheEnd
  <2> SUFFICES ASSUME InductiveInvariant, allowed, changes = 0
               PROVE  \/ now <= tenantRow.grace + Interval + 3 * Timeout
                      \/ now - Lag < tenantRow.grace + Interval + 2 * Timeout
    BY DEF GraceIsTheEnd, LocalNow
  <2>1. lease <= tenantRow.grace /\ EndsSoonAfter(tenantRow.grace)
    BY DEF InductiveInvariant, GraceIsKept
  <2>2. Horizon \in Nat /\ now <= Horizon
    BY HorizonIsNear DEF InductiveInvariant
  <2>3. now \in Nat /\ lease \in Int /\ tenantRow.grace \in Nat
    BY TenantTypes DEF InductiveInvariant, TypeOK
  <2> QED
    BY <2>1, <2>2, <2>3, ConstantsAssumption DEF EndsSoonAfter
<1> QED
  BY <1>1, LeaseInvariance, PTL

\* A token is replaced before the bus refuses it, if the margin of a refresh
\* is two request timeouts (authority.rs 159-165, 217-220).
THEOREM TokensOutliveTheirUse == Spec => []TokensAreRefreshedInTime
<1>1. InductiveInvariant => TokensAreRefreshedInTime
  BY DEF InductiveInvariant, TokenIsKept, TokensAreRefreshedInTime
<1> QED
  BY <1>1, LeaseInvariance, PTL
=============================================================================
