--------------------------- MODULE AccountsProofs ---------------------------
(***************************************************************************)
(* Proofs about Accounts, for any people, passwords, handlers, sessions    *)
(* and tokens, any limit and any number of requests.                       *)
(***************************************************************************)
EXTENDS Accounts, FiniteSetTheorems, TLAPS

\* What a handler has when it begins.
Starting(job) ==
    /\ job \in Jobs
    /\ job.step \in {"initialize", "register", "import", "open_session", "update_write",
                     "count", "issue", "reset"}
    /\ job.step = "update_write" =>
          /\ job.by \in People /\ job.user \in People /\ job.row.status \in Statuses
          /\ RequireAdmin(job.by) /\ Exists(job.user)
          /\ job.by = job.user => job.row.role = users[job.by].role
                                  /\ job.row.status = users[job.by].status
    /\ job.step = "issue" => ~job.public
    /\ job.step = "reset" => \E t \in TokenIds : job.seen = {t} /\ tokens[t].mailed
    /\ job.step \in {"register", "initialize", "open_session", "count", "issue"} =>
          job.user \in People
Begins == \E r \in Requests, job \in Jobs : Starting(job) /\ Begin(r, job)

LEMMA Somebody ==
    ASSUME TypeOK, NEW u \in People
    PROVE  NoUser \in UserRows /\ NoPassword \in Passwords
<1>1. users[u] \in UserRows
  BY DEF TypeOK
<1>2. users[u].password \in Passwords
  BY <1>1 DEF UserRows
<1> QED
  BY <1>2 DEF NoUser, UserRows, NoPassword, Statuses, Roles

LEMMA IdleType ==
    ASSUME NoUser \in UserRows
    PROVE  Idle \in Jobs /\ Idle.step = "idle"
  BY DEF Idle, Jobs, Steps

\* The disjuncts of Next that start a handler.
LEMMA BeginCases ==
    ASSUME TypeOK,
           \/ \E r \in Requests, u \in People, p \in Passwords :
                \/ Initialize(r, u, p) \/ Register(r, u, p) \/ Login(r, u, p)
           \/ \E r \in Requests, admin \in People, role \in Roles, status \in Statuses :
                \/ \E group \in SUBSET People : ImportUsers(r, admin, group, role, status)
                \/ \E u \in People : UpdateUser(r, admin, u, role, status)
           \/ \E r \in Requests, u \in People :
                \/ ForgotPassword(r, u)
                \/ \E admin \in People : SendReset(r, admin, u)
           \/ \E r \in Requests, t \in TokenIds, p \in Passwords : ResetPassword(r, t, p)
    PROVE  Begins
<1>1. ASSUME NEW r \in Requests, NEW u \in People, NEW p \in Passwords,
             Initialize(r, u, p) \/ Register(r, u, p) \/ Login(r, u, p)
      PROVE  Begins
  <2>1. NoUser \in UserRows /\ NoPassword \in Passwords
    BY Somebody
  <2> DEFINE first == [Idle EXCEPT !.step = "initialize", !.user = u,
                   !.row = [status |-> "active", role |-> "admin", password |-> p]]
             new == [Idle EXCEPT !.step = "register", !.user = u,
                   !.row = [status |-> "inactive", role |-> "member", password |-> p]]
             login == [Idle EXCEPT !.step = "open_session", !.user = u, !.row.password = p]
  <2>2. Starting(first)
    BY <2>1 DEF Starting, Idle, Jobs, Steps, UserRows, Statuses, Roles
  <2>3. Starting(new)
    BY <2>1 DEF Starting, Idle, Jobs, Steps, UserRows, Statuses, Roles
  <2>4. Starting(login)
    BY <2>1 DEF Starting, Idle, Jobs, Steps, UserRows, Statuses, Roles
  <2>5. Begin(r, first) \/ Begin(r, new) \/ Begin(r, login)
    BY <1>1 DEF Initialize, Register, Login
  <2> HIDE DEF first, new, login
  <2> QED
    BY <2>2, <2>3, <2>4, <2>5 DEF Begins, Starting
<1>2. ASSUME NEW r \in Requests, NEW admin \in People, NEW role \in Roles,
             NEW status \in Statuses, NEW group \in SUBSET People,
             ImportUsers(r, admin, group, role, status)
      PROVE  Begins
  <2>1. NoUser \in UserRows /\ NoPassword \in Passwords
    BY Somebody
  <2> DEFINE job == [Idle EXCEPT !.step = "import", !.group = group,
                   !.row = [status |-> status, role |-> role, password |-> NoPassword]]
  <2>2. Starting(job)
    BY <2>1 DEF Starting, Idle, Jobs, Steps, UserRows
  <2>3. Begin(r, job)
    BY <1>2 DEF ImportUsers
  <2> HIDE DEF job
  <2> QED
    BY <2>2, <2>3 DEF Begins, Starting
<1>3. ASSUME NEW r \in Requests, NEW admin \in People, NEW role \in Roles,
             NEW status \in Statuses, NEW u \in People,
             UpdateUser(r, admin, u, role, status)
      PROVE  Begins
  <2>1. NoUser \in UserRows /\ NoPassword \in Passwords
    BY Somebody
  <2> DEFINE job == [Idle EXCEPT !.step = "update_write", !.by = admin, !.user = u,
                   !.row.status = status, !.row.role = role]
  <2>2. job \in Jobs /\ job.step = "update_write" /\ job.by = admin /\ job.user = u
        /\ job.row.status = status /\ job.row.role = role
    BY <2>1 DEF Idle, Jobs, Steps, UserRows
  <2>3. Begin(r, job) /\ RequireAdmin(admin) /\ Exists(u)
        /\ (admin = u => role = users[admin].role /\ status = users[admin].status)
    BY <1>3 DEF UpdateUser
  <2> HIDE DEF job
  <2>4. Starting(job)
    BY <2>2, <2>3 DEF Starting
  <2> QED
    BY <2>2, <2>4, <2>3 DEF Begins
<1>4. ASSUME NEW r \in Requests, NEW u \in People,
             ForgotPassword(r, u) \/ \E admin \in People : SendReset(r, admin, u)
      PROVE  Begins
  <2>1. NoUser \in UserRows /\ NoPassword \in Passwords
    BY Somebody
  <2> DEFINE count == [Idle EXCEPT !.step = "count", !.user = u, !.public = TRUE]
             issue == [Idle EXCEPT !.step = "issue", !.user = u]
  <2>2. Starting(count)
    BY <2>1 DEF Starting, Idle, Jobs, Steps
  <2>3. Starting(issue)
    BY <2>1 DEF Starting, Idle, Jobs, Steps
  <2>4. Begin(r, count) \/ Begin(r, issue)
    BY <1>4 DEF ForgotPassword, SendReset
  <2> HIDE DEF count, issue
  <2> QED
    BY <2>2, <2>3, <2>4 DEF Begins, Starting
<1>5. ASSUME NEW r \in Requests, NEW t \in TokenIds, NEW p \in Passwords, ResetPassword(r, t, p)
      PROVE  Begins
  <2> DEFINE job == [Idle EXCEPT !.step = "reset", !.user = tokens[t].user, !.seen = {t},
                   !.row = [NoUser EXCEPT !.password = p]]
  <2>1. NoUser \in UserRows
    BY DEF NoUser, UserRows, NoPassword, Statuses, Roles
  <2>2. tokens[t].user \in People \cup {Nobody}
    BY DEF TypeOK, TokenRows
  <2>3. tokens[t].mailed /\ Begin(r, job)
    BY <1>5 DEF ResetPassword
  <2>4. job \in Jobs /\ job.step = "reset" /\ job.seen = {t}
    BY <2>1, <2>2 DEF Idle, Jobs, Steps, UserRows
  <2> HIDE DEF job
  <2>5. Starting(job)
    BY <2>3, <2>4 DEF Starting
  <2> QED
    BY <2>3, <2>4, <2>5 DEF Begins
<1> QED
  BY <1>1, <1>2, <1>3, <1>4, <1>5

\* The next statement of a handler that has begun.
Statement(r) ==
    \/ InitializeCommit(r) \/ RegisterCommit(r) \/ ImportCommit(r) \/ OpenSession(r)
    \/ UpdateWrite(r) \/ UpdateRevoke(r)
    \/ CountRequests(r) \/ IssueSnapshot(r) \/ IssueStore(r)
    \/ ResetSelect(r) \/ ResetCommit(r)
    \/ RequestFails(r)

LEMMA NextCases ==
    ASSUME TypeOK, Next
    PROVE  \/ Begins
           \/ \E r \in Requests : Statement(r)
           \/ \E s \in SessionIds : SessionEnds(s)
           \/ \E t \in TokenIds : TokenExpires(t) \/ TokenAges(t)
<1>1. CASE \E r \in Requests : Statement(r)
  BY <1>1
<1>2. CASE \/ \E s \in SessionIds : SessionEnds(s)
           \/ \E t \in TokenIds : TokenExpires(t) \/ TokenAges(t)
  BY <1>2
<1>3. CASE ~((\E r \in Requests : Statement(r)) \/ (\E s \in SessionIds : SessionEnds(s))
             \/ \E t \in TokenIds : TokenExpires(t) \/ TokenAges(t))
  BY <1>3, BeginCases DEF Next, Statement
<1> QED
  BY <1>1, <1>2, <1>3

LEMMA BeginEffect ==
    ASSUME TypeOK, NEW r \in Requests, NEW job, Starting(job), Begin(r, job)
    PROVE  /\ requests' = [requests EXCEPT ![r] = job]
           /\ requests' \in [Requests -> Jobs]
           /\ UNCHANGED <<installed, users, sessions, tokens, founders, crossed>>
           /\ begun' \in 0..MaxRequests
<1>1. begun + 1 \in 0..MaxRequests
  BY ConstantsAssumption DEF Begin, TypeOK
<1> QED
  BY <1>1 DEF Begin, Starting, TypeOK

\* A statement leaves the handler at another step, or is its last one.
LEMMA StepEffect ==
    ASSUME TypeOK, NEW r \in Requests, NEW step \in Steps, GoTo(r, step)
    PROVE  /\ requests' \in [Requests -> Jobs]
           /\ requests'[r] = [requests[r] EXCEPT !.step = step]
           /\ \A other \in Requests \ {r} : requests'[other] = requests[other]
  BY DEF GoTo, TypeOK, Jobs

LEMMA FinishEffect ==
    ASSUME TypeOK, NEW r \in Requests, Finish(r)
    PROVE  /\ requests' \in [Requests -> Jobs]
           /\ requests'[r] = Idle /\ Idle.step = "idle"
           /\ \A other \in Requests \ {r} : requests'[other] = requests[other]
<1>1. requests[r].row \in UserRows
  BY DEF TypeOK, Jobs
<1>2. requests[r].row.password \in Passwords
  BY <1>1 DEF UserRows
<1>3. NoUser \in UserRows
  BY <1>2 DEF NoUser, UserRows, NoPassword, Statuses, Roles
<1> QED
  BY <1>3, IdleType DEF Finish, TypeOK

-----------------------------------------------------------------------------
(* Types, what a handler carries, and what a token has been through.       *)

JobIsSound(r) ==
    LET job == requests[r]
    IN  /\ job.step \in {"reset", "commit"} => \E t \in TokenIds : job.seen = {t}
        /\ job.step = "commit" => \A t \in job.seen : tokens[t].holder = r
        /\ job.step \in {"initialize", "register", "open_session", "update_write",
                         "update_revoke", "count", "issue", "store"} => job.user \in People
        /\ job.step \in {"update_write", "update_revoke"} => Exists(job.user)
        /\ job.step = "update_write" =>
              /\ job.by \in People /\ job.row.status \in Statuses
              /\ job.by = job.user => job.row.status = "active" /\ job.row.role = "admin"
JobsAreSound == \A r \in Requests : JobIsSound(r)

TokensAreSound ==
    \A t \in TokenIds :
        /\ tokens[t].uses <= 1
        /\ tokens[t].live \/ tokens[t].holder # Nobody =>
              tokens[t].uses = 0 /\ tokens[t].user # Nobody

Sound == TypeOK /\ JobsAreSound /\ TokensAreSound

LEMMA TokenOf ==
    ASSUME NEW r \in Requests, Sound, requests[r].step \in {"reset", "commit"}
    PROVE  TheToken(r) \in TokenIds /\ requests[r].seen = {TheToken(r)}
<1>1. PICK t \in TokenIds : requests[r].seen = {t}
  BY DEF Sound, JobsAreSound, JobIsSound
<1> QED
  BY <1>1 DEF TheToken

LEMMA TypeStep ==
    ASSUME Sound, Next
    PROVE  TypeOK'
<1> USE DEF Sound
<1>1. CASE Begins
  BY <1>1, BeginEffect DEF Begins, TypeOK
<1>2. ASSUME NEW r \in Requests, InitializeCommit(r)
      PROVE  TypeOK'
  <2>1. requests' \in [Requests -> Jobs]
    BY <1>2, StepEffect, FinishEffect DEF InitializeCommit, Steps
  <2>2. requests[r].user \in People /\ requests[r].row \in UserRows
    BY <1>2 DEF InitializeCommit, At, JobsAreSound, JobIsSound, TypeOK, Jobs
  <2> QED
    BY <1>2, <2>1, <2>2 DEF InitializeCommit, TypeOK
<1>3. ASSUME NEW r \in Requests, RegisterCommit(r) \/ ImportCommit(r)
      PROVE  TypeOK'
  <2>1. requests' \in [Requests -> Jobs]
    BY <1>3, FinishEffect DEF RegisterCommit, ImportCommit
  <2>2. requests[r].row \in UserRows
    BY DEF TypeOK, Jobs
  <2> QED
    BY <1>3, <2>1, <2>2 DEF RegisterCommit, ImportCommit, TypeOK
<1>4. ASSUME NEW r \in Requests, OpenSession(r)
      PROVE  TypeOK'
  <2>1. requests' \in [Requests -> Jobs]
    BY <1>4, FinishEffect DEF OpenSession
  <2>2. requests[r].user \in People /\ requests[r].row \in UserRows
    BY <1>4 DEF OpenSession, At, JobsAreSound, JobIsSound, TypeOK, Jobs
  <2>3. requests[r].row.password \in Passwords
    BY <2>2 DEF UserRows
  <2>4. sessions' \in [SessionIds -> SessionRows]
    BY <1>4, <2>2, <2>3 DEF OpenSession, TypeOK, SessionRows
  <2> QED
    BY <1>4, <2>1, <2>4 DEF OpenSession, TypeOK
<1>5. ASSUME NEW r \in Requests, UpdateWrite(r)
      PROVE  TypeOK'
  <2>1. requests' \in [Requests -> Jobs]
    BY <1>5, StepEffect, FinishEffect DEF UpdateWrite, Steps
  <2>2. requests[r].user \in People /\ requests[r].row \in UserRows
    BY <1>5 DEF UpdateWrite, At, JobsAreSound, JobIsSound, TypeOK, Jobs
  <2>3. users' \in [People -> UserRows]
    BY <1>5, <2>2 DEF UpdateWrite, TypeOK, UserRows
  <2>4. crossed' \in BOOLEAN
    BY <1>5, Zenon DEF UpdateWrite, TypeOK
  <2> QED
    BY <1>5, <2>1, <2>3, <2>4 DEF UpdateWrite, TypeOK
<1>6. NoSession \in SessionRows \/ SessionIds = {}
  <2>1. ASSUME NEW s \in SessionIds PROVE NoSession \in SessionRows
    <3>1. sessions[s] \in SessionRows
      BY DEF TypeOK
    <3>2. NoPassword \in Passwords
      BY <3>1 DEF SessionRows, NoPassword
    <3> QED
      BY <3>2 DEF NoSession, SessionRows
  <2> QED
    BY <2>1
<1>7. ASSUME NEW u \in People \cup {Nobody}
      PROVE  SessionsWithout(u) \in [SessionIds -> SessionRows]
  BY <1>6 DEF SessionsWithout, TypeOK
<1>8. ASSUME NEW r \in Requests, UpdateRevoke(r)
      PROVE  TypeOK'
  <2>1. requests' \in [Requests -> Jobs]
    BY <1>8, FinishEffect DEF UpdateRevoke
  <2>2. requests[r].user \in People
    BY <1>8 DEF UpdateRevoke, At, JobsAreSound, JobIsSound
  <2> QED
    BY <1>8, <2>1, <2>2, <1>7 DEF UpdateRevoke, TypeOK
<1>9. ASSUME NEW r \in Requests, CountRequests(r)
      PROVE  TypeOK'
  <2>1. requests' \in [Requests -> Jobs]
    BY <1>9, StepEffect, FinishEffect DEF CountRequests, Steps
  <2> QED
    BY <1>9, <2>1 DEF CountRequests, TypeOK
<1>10. ASSUME NEW r \in Requests, IssueSnapshot(r)
       PROVE  TypeOK'
  <2>1. requests' \in [Requests -> Jobs]
    <3> DEFINE seen == {t \in TokenIds : tokens[t].user = requests[r].user /\ tokens[t].live}
    <3>1. requests' = [requests EXCEPT ![r].step = "store", ![r].seen = seen]
      BY <1>10 DEF IssueSnapshot
    <3>2. seen \subseteq TokenIds
      OBVIOUS
    <3> HIDE DEF seen
    <3>3. [requests[r] EXCEPT !.step = "store", !.seen = seen] \in Jobs
      BY <3>2, Zenon DEF TypeOK, Jobs, Steps
    <3>4. requests' = [requests EXCEPT ![r] = [requests[r] EXCEPT !.step = "store", !.seen = seen]]
      BY <3>1, Zenon DEF TypeOK
    <3> QED
      BY <3>3, <3>4 DEF TypeOK
  <2> QED
    BY <1>10, <2>1 DEF IssueSnapshot, TypeOK
<1>11. ASSUME NEW r \in Requests, IssueStore(r)
       PROVE  TypeOK'
  <2>1. requests' \in [Requests -> Jobs]
    BY <1>11, FinishEffect DEF IssueStore
  <2>2. requests[r].user \in People /\ requests[r].public \in BOOLEAN
    BY <1>11 DEF IssueStore, At, JobsAreSound, JobIsSound, TypeOK, Jobs
  <2>3. \A mailed \in BOOLEAN :
          [user |-> requests[r].user, public |-> requests[r].public, mailed |-> mailed,
           live |-> TRUE, recent |-> TRUE, uses |-> 0, holder |-> Nobody] \in TokenRows
    BY <2>2 DEF TokenRows
  <2>4. \A t \in TokenIds : [tokens[t] EXCEPT !.live = FALSE] \in TokenRows
    BY DEF TypeOK, TokenRows
  <2>5. tokens' \in [TokenIds -> TokenRows]
    BY <1>11, <2>3, <2>4 DEF IssueStore, TypeOK
  <2> QED
    BY <1>11, <2>1, <2>5 DEF IssueStore, TypeOK
<1>12. ASSUME NEW r \in Requests, ResetSelect(r)
       PROVE  TypeOK'
  <2>1. requests' \in [Requests -> Jobs]
    BY <1>12, StepEffect, FinishEffect DEF ResetSelect, Steps
  <2>2. tokens' \in [TokenIds -> TokenRows]
    BY <1>12 DEF ResetSelect, TypeOK, TokenRows
  <2> QED
    BY <1>12, <2>1, <2>2 DEF ResetSelect, TypeOK
<1>13. ASSUME NEW r \in Requests, ResetCommit(r)
       PROVE  TypeOK'
  <2>1. requests' \in [Requests -> Jobs]
    BY <1>13, FinishEffect DEF ResetCommit
  <2>2. TheToken(r) \in TokenIds
    BY <1>13, TokenOf DEF ResetCommit, At
  <2>3. tokens[TheToken(r)].user \in People \cup {Nobody} /\ tokens[TheToken(r)].uses \in 0..1
    BY <2>2 DEF TypeOK, TokenRows, TokensAreSound
  <2>4. requests[r].row.password \in Passwords
    BY DEF TypeOK, Jobs, UserRows
  <2>5. tokens' \in [TokenIds -> TokenRows]
    BY <1>13, <2>2, <2>3 DEF ResetCommit, TypeOK, TokenRows
  <2>6. users' \in [People -> UserRows]
    BY <1>13, <2>4 DEF ResetCommit, TypeOK, UserRows
  <2>7. sessions' \in [SessionIds -> SessionRows]
    BY <1>13, <2>3, <1>7 DEF ResetCommit
  <2> QED
    BY <1>13, <2>1, <2>5, <2>6, <2>7 DEF ResetCommit, TypeOK
<1>14. ASSUME NEW r \in Requests, RequestFails(r)
       PROVE  TypeOK'
  <2>1. requests' \in [Requests -> Jobs]
    BY <1>14, FinishEffect DEF RequestFails
  <2>2. tokens' \in [TokenIds -> TokenRows]
    BY <1>14 DEF RequestFails, TypeOK, TokenRows
  <2>3. sessions' \in [SessionIds -> SessionRows]
    BY <1>14 DEF RequestFails, TypeOK, SessionRows
  <2> QED
    BY <1>14, <2>1, <2>2, <2>3 DEF RequestFails, TypeOK
<1>15. ASSUME NEW s \in SessionIds, SessionEnds(s)
       PROVE  TypeOK'
  BY <1>15, <1>6 DEF SessionEnds, TypeOK
<1>16. ASSUME NEW t \in TokenIds, TokenExpires(t) \/ TokenAges(t)
       PROVE  TypeOK'
  <2>1. tokens' \in [TokenIds -> TokenRows]
    <3>1. [tokens[t] EXCEPT !.live = FALSE] \in TokenRows
          /\ [tokens[t] EXCEPT !.recent = FALSE] \in TokenRows
      BY DEF TypeOK, TokenRows
    <3> QED
      BY <1>16, <3>1 DEF TokenExpires, TokenAges, TypeOK
  <2> QED
    BY <1>16, <2>1 DEF TokenExpires, TokenAges, TypeOK
<1> QED
  BY NextCases, <1>1, <1>2, <1>3, <1>4, <1>5, <1>8, <1>9, <1>10, <1>11, <1>12, <1>13, <1>14,
     <1>15, <1>16 DEF Statement

LEMMA RowsStay ==
    ASSUME Sound, Next, NEW u \in People, Exists(u)
    PROVE  Exists(u)'
<1> USE DEF Sound
<1>1. CASE UNCHANGED users
  BY <1>1 DEF Exists
<1>2. ASSUME NEW r \in Requests,
             InitializeCommit(r) \/ RegisterCommit(r) \/ ImportCommit(r)
      PROVE  users'[u] = users[u]
  BY <1>2 DEF InitializeCommit, RegisterCommit, ImportCommit, TypeOK
<1>3. ASSUME NEW r \in Requests, UpdateWrite(r)
      PROVE  Exists(u)'
  <2>1. requests[r].row.status \in Statuses
    BY <1>3 DEF UpdateWrite, At, JobsAreSound, JobIsSound
  <2>2. users[u] \in UserRows
    BY DEF TypeOK
  <2> QED
    BY <1>3, <2>1, <2>2 DEF UpdateWrite, Exists, TypeOK, Statuses, UserRows
<1>4. ASSUME NEW r \in Requests, ResetCommit(r)
      PROVE  Exists(u)'
  <2>1. users[u] \in UserRows
    BY DEF TypeOK
  <2> QED
    BY <1>4, <2>1 DEF ResetCommit, Exists, TypeOK, UserRows
<1>5. Begins => UNCHANGED users
  BY BeginEffect DEF Begins
<1>6. \A r \in Requests :
        OpenSession(r) \/ UpdateRevoke(r) \/ CountRequests(r) \/ IssueSnapshot(r)
        \/ IssueStore(r) \/ ResetSelect(r) \/ RequestFails(r) => UNCHANGED users
  BY DEF OpenSession, UpdateRevoke, CountRequests, IssueSnapshot, IssueStore, ResetSelect,
         RequestFails
<1>7. (\E s \in SessionIds : SessionEnds(s)) \/ (\E t \in TokenIds : TokenExpires(t) \/ TokenAges(t))
        => UNCHANGED users
  BY DEF SessionEnds, TokenExpires, TokenAges
<1> QED
  BY NextCases, <1>1, <1>2, <1>3, <1>4, <1>5, <1>6, <1>7 DEF Statement, Exists

\* A row lock is given up by its holder only.
LEMMA LocksStay ==
    ASSUME Sound, Next, NEW q \in Requests, NEW t \in TokenIds,
           requests'[q] = requests[q], tokens[t].holder = q
    PROVE  tokens'[t].holder = q
<1> USE DEF Sound
<1>1. tokens[t] \in TokenRows /\ q # Nobody
  BY ConstantsAssumption DEF TypeOK
<1>2. ASSUME NEW r \in Requests, ResetSelect(r)
      PROVE  tokens'[t].holder = q
  <2>1. TheToken(r) \in TokenIds
    BY <1>2, TokenOf DEF ResetSelect, At
  <2> QED
    BY <1>1, <1>2, <2>1 DEF ResetSelect, TypeOK
<1>3. ASSUME NEW r \in Requests, ResetCommit(r)
      PROVE  tokens'[t].holder = q
  <2>1. TheToken(r) \in TokenIds /\ requests[r].seen = {TheToken(r)}
    BY <1>3, TokenOf DEF ResetCommit, At
  <2>2. tokens[TheToken(r)].holder = r
    BY <1>3, <2>1 DEF ResetCommit, At, JobsAreSound, JobIsSound
  <2>3. q # r
    <3>1. requests'[r] = Idle /\ Idle.step = "idle"
      BY <1>3, FinishEffect DEF ResetCommit
    <3> QED
      BY <3>1, <1>3 DEF ResetCommit, At
  <2> QED
    BY <1>3, <2>1, <2>2, <2>3 DEF ResetCommit, TypeOK
<1>4. ASSUME NEW r \in Requests, IssueStore(r)
      PROVE  tokens'[t].holder = q
  <2>1. tokens[t].user # Nobody
    BY <1>1 DEF TokensAreSound
  <2>2. [tokens[t] EXCEPT !.live = FALSE].holder = q
    BY <1>1 DEF TokenRows
  <2> QED
    BY <1>4, <2>1, <2>2 DEF IssueStore
<1>5. ASSUME NEW r \in Requests, RequestFails(r)
      PROVE  tokens'[t].holder = q
  <2>1. requests'[r] = Idle /\ Idle.step = "idle"
    BY <1>5, FinishEffect DEF RequestFails
  <2>2. q # r
    BY <1>5, <2>1 DEF RequestFails, At
  <2> QED
    BY <1>5, <2>2 DEF RequestFails
<1>6. ASSUME NEW x \in TokenIds, TokenExpires(x) \/ TokenAges(x)
      PROVE  tokens'[t].holder = q
  <2>1. [tokens[t] EXCEPT !.live = FALSE].holder = q /\ [tokens[t] EXCEPT !.recent = FALSE].holder = q
    BY <1>1 DEF TokenRows
  <2> QED
    BY <1>6, <2>1 DEF TokenExpires, TokenAges, TypeOK
<1>7. Begins => UNCHANGED tokens
  BY BeginEffect DEF Begins
<1>8. \A r \in Requests :
        InitializeCommit(r) \/ RegisterCommit(r) \/ ImportCommit(r) \/ OpenSession(r)
        \/ UpdateWrite(r) \/ UpdateRevoke(r) \/ CountRequests(r) \/ IssueSnapshot(r)
            => UNCHANGED tokens
  BY DEF InitializeCommit, RegisterCommit, ImportCommit, OpenSession, UpdateWrite, UpdateRevoke,
         CountRequests, IssueSnapshot
<1>9. \A s \in SessionIds : SessionEnds(s) => UNCHANGED tokens
  BY DEF SessionEnds
<1> QED
  BY NextCases, <1>2, <1>3, <1>4, <1>5, <1>6, <1>7, <1>8, <1>9 DEF Statement

LEMMA JobsStep ==
    ASSUME Sound, Next
    PROVE  JobsAreSound'
<1> USE DEF Sound
<1> SUFFICES ASSUME NEW q \in Requests
             PROVE  JobIsSound(q)'
  BY DEF JobsAreSound
<1>1. CASE requests'[q] = requests[q]
  <2>1. JobIsSound(q)
    BY DEF JobsAreSound
  <2>2. requests[q].step = "commit" => \A t \in requests[q].seen : tokens'[t].holder = q
    BY <1>1, <2>1, LocksStay DEF JobIsSound
  <2> QED
    BY <1>1, <2>1, <2>2, RowsStay DEF JobIsSound
<1>2. ASSUME NEW r \in Requests, NEW job, Starting(job), Begin(r, job)
      PROVE  JobIsSound(q)'
  <2>1. requests' = [requests EXCEPT ![r] = job] /\ UNCHANGED users
    BY <1>2, BeginEffect
  <2>2. q = r \/ requests'[q] = requests[q]
    BY <2>1 DEF TypeOK
  <2>3. CASE q = r
    <3>1. requests'[q] = job
      BY <2>1, <2>3 DEF TypeOK
    <3>2. job.by \in People /\ job.step = "update_write" =>
            users[job.by].status = "active" /\ users[job.by].role = "admin"
      BY <1>2 DEF Starting, RequireAdmin, Authenticated
    <3> QED
      BY <1>2, <2>1, <3>1, <3>2 DEF Starting, JobIsSound, Exists
  <2> QED
    BY <2>2, <2>3, <1>1
<1>3. ASSUME NEW r \in Requests, Statement(r)
      PROVE  JobIsSound(q)'
  <2>1. CASE Finish(r)
    <3>1. requests'[r] = Idle /\ Idle.step = "idle"
          /\ (q # r => requests'[q] = requests[q])
      BY <2>1, FinishEffect
    <3> QED
      BY <3>1, <1>1 DEF JobIsSound
  <2>2. CASE InitializeCommit(r) /\ GoTo(r, "open_session")
    <3>1. requests'[r] = [requests[r] EXCEPT !.step = "open_session"]
          /\ (q # r => requests'[q] = requests[q])
      BY <2>2, StepEffect DEF Steps
    <3>2. requests[r].user \in People /\ requests[r] \in Jobs
      BY <2>2 DEF InitializeCommit, At, JobsAreSound, JobIsSound, TypeOK
    <3> QED
      BY <3>1, <3>2, <1>1 DEF JobIsSound, Jobs
  <2>3. CASE UpdateWrite(r) /\ GoTo(r, "update_revoke")
    <3>1. requests'[r] = [requests[r] EXCEPT !.step = "update_revoke"]
          /\ (q # r => requests'[q] = requests[q])
      BY <2>3, StepEffect DEF Steps
    <3>2. requests[r].user \in People /\ requests[r] \in Jobs /\ Exists(requests[r].user)
      BY <2>3 DEF UpdateWrite, At, JobsAreSound, JobIsSound, TypeOK
    <3>3. Exists(requests[r].user)'
      BY <3>2, <2>3, RowsStay DEF UpdateWrite, GoTo, Exists, TypeOK, UserRows, Statuses, At,
            JobsAreSound, JobIsSound
    <3> QED
      BY <3>1, <3>2, <3>3, <1>1 DEF JobIsSound, Jobs, Exists
  <2>4. CASE CountRequests(r) /\ GoTo(r, "issue")
    <3>1. requests'[r] = [requests[r] EXCEPT !.step = "issue"]
          /\ (q # r => requests'[q] = requests[q])
      BY <2>4, StepEffect DEF Steps
    <3>2. requests[r].user \in People /\ requests[r] \in Jobs
      BY <2>4 DEF CountRequests, At, JobsAreSound, JobIsSound, TypeOK
    <3> QED
      BY <3>1, <3>2, <1>1 DEF JobIsSound, Jobs
  <2>5. CASE IssueSnapshot(r)
    <3>1. requests[r].user \in People /\ requests[r] \in Jobs
      BY <2>5 DEF IssueSnapshot, At, JobsAreSound, JobIsSound, TypeOK
    <3>2. requests'[r].step = "store" /\ requests'[r].user = requests[r].user
          /\ (q # r => requests'[q] = requests[q])
      BY <2>5, <3>1 DEF IssueSnapshot, TypeOK, Jobs
    <3> QED
      BY <3>1, <3>2, <1>1 DEF JobIsSound
  <2>6. CASE ResetSelect(r) /\ GoTo(r, "commit")
    <3>1. requests'[r] = [requests[r] EXCEPT !.step = "commit"]
          /\ (q # r => requests'[q] = requests[q])
      BY <2>6, StepEffect DEF Steps
    <3>2. TheToken(r) \in TokenIds /\ requests[r].seen = {TheToken(r)} /\ requests[r] \in Jobs
      BY <2>6, TokenOf DEF ResetSelect, At, TypeOK
    <3>3. tokens'[TheToken(r)].holder = r
      <4>1. tokens' = [tokens EXCEPT ![TheToken(r)].holder = r]
        <5>1. Idle.step = "idle" /\ (Finish(r) => requests'[r] = Idle)
          BY FinishEffect, IdleType DEF Idle
        <5>2. ~Finish(r)
          BY <3>1, <3>2, <5>1 DEF Jobs
        <5> QED
          BY <2>6, <5>2 DEF ResetSelect
      <4> QED
        BY <4>1, <3>2 DEF TypeOK, TokenRows
    <3> QED
      BY <3>1, <3>2, <3>3, <1>1 DEF JobIsSound, Jobs
  <2> QED
    BY <1>3, <2>1, <2>2, <2>3, <2>4, <2>5, <2>6
    DEF Statement, InitializeCommit, RegisterCommit, ImportCommit, OpenSession, UpdateWrite,
        UpdateRevoke, CountRequests, IssueStore, ResetSelect, ResetCommit, RequestFails
<1>4. ASSUME \/ \E s \in SessionIds : SessionEnds(s)
             \/ \E t \in TokenIds : TokenExpires(t) \/ TokenAges(t)
      PROVE  JobIsSound(q)'
  BY <1>4, <1>1 DEF SessionEnds, TokenExpires, TokenAges
<1> QED
  BY NextCases, <1>2, <1>3, <1>4 DEF Begins

LEMMA TokensStep ==
    ASSUME Sound, Next
    PROVE  TokensAreSound'
<1> USE DEF Sound
<1>1. ASSUME NEW r \in Requests, ResetSelect(r)
      PROVE  TokensAreSound'
  <2>1. TheToken(r) \in TokenIds /\ Nobody \notin Requests
    BY <1>1, TokenOf, ConstantsAssumption DEF ResetSelect, At
  <2> QED
    BY <1>1, <2>1 DEF ResetSelect, TokensAreSound, TypeOK, TokenRows
<1>2. ASSUME NEW r \in Requests, ResetCommit(r)
      PROVE  TokensAreSound'
  <2>1. TheToken(r) \in TokenIds /\ requests[r].seen = {TheToken(r)} /\ r # Nobody
    BY <1>2, TokenOf, ConstantsAssumption DEF ResetCommit, At
  <2>2. tokens[TheToken(r)].holder = r
    BY <1>2, <2>1 DEF ResetCommit, At, JobsAreSound, JobIsSound
  <2>3. tokens[TheToken(r)].uses = 0
    BY <2>1, <2>2 DEF TokensAreSound
  <2> QED
    BY <1>2, <2>1, <2>3 DEF ResetCommit, TokensAreSound, TypeOK, TokenRows
<1>3. ASSUME NEW r \in Requests, IssueStore(r)
      PROVE  TokensAreSound'
  <2>1. requests[r].user \in People /\ Nobody \notin People
    BY <1>3, ConstantsAssumption DEF IssueStore, At, JobsAreSound, JobIsSound
  <2>2. ASSUME NEW t \in TokenIds
        PROVE  LET row == [tokens[t] EXCEPT !.live = FALSE]
               IN  row.uses = tokens[t].uses /\ row.user = tokens[t].user
                   /\ row.holder = tokens[t].holder /\ ~row.live
    BY DEF TypeOK, TokenRows
  <2> QED
    BY <1>3, <2>1, <2>2 DEF IssueStore, TokensAreSound
<1>4. ASSUME NEW r \in Requests, RequestFails(r)
      PROVE  TokensAreSound'
  BY <1>4 DEF RequestFails, TokensAreSound, TypeOK, TokenRows
<1>5. ASSUME NEW x \in TokenIds, TokenExpires(x) \/ TokenAges(x)
      PROVE  TokensAreSound'
  <2>1. CASE TokenExpires(x)
    BY <2>1 DEF TokenExpires, TokensAreSound, TypeOK, TokenRows
  <2>2. CASE TokenAges(x)
    BY <2>2 DEF TokenAges, TokensAreSound, TypeOK, TokenRows
  <2> QED
    BY <1>5, <2>1, <2>2
<1>6. UNCHANGED tokens => TokensAreSound'
  BY DEF TokensAreSound
<1>7. Begins => UNCHANGED tokens
  BY BeginEffect DEF Begins
<1>8. \A r \in Requests :
        InitializeCommit(r) \/ RegisterCommit(r) \/ ImportCommit(r) \/ OpenSession(r)
        \/ UpdateWrite(r) \/ UpdateRevoke(r) \/ CountRequests(r) \/ IssueSnapshot(r)
            => UNCHANGED tokens
  BY DEF InitializeCommit, RegisterCommit, ImportCommit, OpenSession, UpdateWrite, UpdateRevoke,
         CountRequests, IssueSnapshot
<1>9. \A s \in SessionIds : SessionEnds(s) => UNCHANGED tokens
  BY DEF SessionEnds
<1> QED
  BY NextCases, <1>1, <1>2, <1>3, <1>4, <1>5, <1>6, <1>7, <1>8, <1>9 DEF Statement

LEMMA InitSound ==
    ASSUME Init
    PROVE  Sound
<1>1. NoUser \in UserRows /\ NoPassword \in Passwords /\ NoSession \in SessionRows
      /\ NoToken \in TokenRows
  BY ConstantsAssumption DEF NoUser, UserRows, NoPassword, Statuses, Roles, NoSession, SessionRows, NoToken, TokenRows
<1>2. Idle \in Jobs /\ Idle.step = "idle"
  BY <1>1, IdleType
<1>3. PICK old \in SUBSET People, oldest \in People :
        /\ installed = (old # {})
        /\ founders = old \cap {oldest}
        /\ users = [u \in People |->
                [NoUser EXCEPT !.status = IF u \in old THEN "active" ELSE "none",
                               !.role = IF u \in old /\ u = oldest THEN "admin" ELSE "member"]]
        /\ sessions \in [SessionIds ->
                {NoSession} \cup {[NoSession EXCEPT !.user = u] : u \in old \cap {oldest}}]
  BY DEF Init
<1>4. users \in [People -> UserRows]
  BY <1>1, <1>3 DEF UserRows, Statuses, Roles
<1>5. \A u \in People : [NoSession EXCEPT !.user = u] \in SessionRows
  BY <1>1 DEF NoSession, SessionRows
<1>6. sessions \in [SessionIds -> SessionRows]
  BY <1>1, <1>3, <1>5
<1>7. TypeOK
  <2>1. requests \in [Requests -> Jobs] /\ tokens \in [TokenIds -> TokenRows]
    BY <1>1, <1>2 DEF Init
  <2>2. begun \in 0..MaxRequests /\ founders \subseteq People
    <3>1. begun = 0 /\ MaxRequests \in Nat
      BY ConstantsAssumption DEF Init
    <3>2. founders \subseteq People
      BY <1>3
    <3> QED
      BY <3>1, <3>2
  <2>3. installed \in BOOLEAN /\ crossed \in BOOLEAN
    <3>1. installed \in BOOLEAN
      BY <1>3, Zenon
    <3>2. crossed \in BOOLEAN
      BY Zenon DEF Init
    <3> QED
      BY <3>1, <3>2, Zenon
  <2> QED
    BY <1>4, <1>6, <2>1, <2>2, <2>3 DEF TypeOK
<1>8. JobsAreSound
  BY <1>2 DEF Init, JobsAreSound, JobIsSound
<1>9. TokensAreSound
  <2>1. NoToken.uses = 0 /\ ~NoToken.live /\ NoToken.holder = Nobody
    BY Zenon DEF NoToken
  <2> QED
    <3>1. \A t \in TokenIds : tokens[t] = NoToken
      BY DEF Init
    <3> QED
      BY <2>1, <3>1 DEF TokensAreSound
<1> QED
  BY <1>7, <1>8, <1>9 DEF Sound

\* Types, what every handler carries and the life of every token, for any
\* interleaving of handlers that may fail at every statement.
THEOREM AccountsAreSound == Spec => []Sound
<1>1. Init => Sound
  BY InitSound
<1>2. ASSUME Sound, [Next]_vars
      PROVE  Sound'
  <2>1. CASE Next
    BY <1>2, <2>1, TypeStep, JobsStep, TokensStep DEF Sound
  <2>2. CASE UNCHANGED vars
    BY <1>2, <2>2
    DEF vars, Sound, TypeOK, JobsAreSound, JobIsSound, TokensAreSound, Exists
  <2> QED
    BY <1>2, <2>1, <2>2
<1> QED
  BY <1>1, <1>2, PTL DEF Spec

-----------------------------------------------------------------------------
(* The setup: the transaction looks again under the locks.                 *)

\* However many setup requests race, one account founds the system
\* (storage/mod.rs 381: initialize_system).
THEOREM FounderIsAlone == Spec => []OneFounder
<1>1. Init => OneFounder
  BY DEF Init, OneFounder
<1>2. ASSUME Sound, OneFounder, [Next]_vars
      PROVE  OneFounder'
  <2>1. ASSUME NEW r \in Requests, InitializeCommit(r)
        PROVE  OneFounder'
    <3>1. CASE UNCHANGED <<installed, founders>>
      BY <3>1, <1>2 DEF OneFounder
    <3>2. CASE ~installed /\ installed' = TRUE /\ founders' = founders \cup {requests[r].user}
      BY <3>2, <1>2 DEF OneFounder
    <3> QED
      BY <2>1, <3>1, <3>2 DEF InitializeCommit
  <2>2. UNCHANGED <<installed, founders>> => OneFounder'
    BY <1>2 DEF OneFounder
  <2>3. Begins => UNCHANGED <<installed, founders>>
    BY <1>2, BeginEffect DEF Begins, Sound
  <2>4. \A r \in Requests : Statement(r) /\ ~InitializeCommit(r)
          => UNCHANGED <<installed, founders>>
    BY DEF Statement, RegisterCommit, ImportCommit, OpenSession, UpdateWrite, UpdateRevoke,
           CountRequests, IssueSnapshot, IssueStore, ResetSelect, ResetCommit, RequestFails
  <2>5. (\E s \in SessionIds : SessionEnds(s)) \/ (\E t \in TokenIds : TokenExpires(t) \/ TokenAges(t))
          => UNCHANGED <<installed, founders>>
    BY DEF SessionEnds, TokenExpires, TokenAges
  <2> QED
    BY <1>2, <2>1, <2>2, <2>3, <2>4, <2>5, NextCases DEF vars, Sound
<1> QED
  BY <1>1, <1>2, AccountsAreSound, PTL DEF Spec

-----------------------------------------------------------------------------
(* Administrators, who cannot edit themselves.                             *)

\* A system that has an active administrator keeps one, unless two suspend
\* each other at the same moment (api.rs 578: admin_update_user).
THEOREM AdministratorStays == Spec => AdministratorRemains
<1>1. ASSUME Sound, [Next]_vars, NEW a \in People, IsActiveAdmin(a), ~crossed'
      PROVE  \E u \in People : IsActiveAdmin(u)'
  <2>1. users'[a] = users[a] => IsActiveAdmin(a)'
    BY <1>1 DEF IsActiveAdmin
  <2>2. users[a] \in UserRows
    BY <1>1 DEF Sound, TypeOK
  <2>3. ASSUME NEW r \in Requests,
               InitializeCommit(r) \/ RegisterCommit(r) \/ ImportCommit(r)
        PROVE  users'[a] = users[a]
    <3>1. Exists(a)
      BY <1>1 DEF IsActiveAdmin, Exists
    <3> QED
      BY <1>1, <2>3, <3>1
      DEF InitializeCommit, RegisterCommit, ImportCommit, Sound, TypeOK
  <2>4. ASSUME NEW r \in Requests, UpdateWrite(r)
        PROVE  \E u \in People : IsActiveAdmin(u)'
    <3>1. PICK by \in People, u \in People : by = requests[r].by /\ u = requests[r].user
      BY <1>1, <2>4 DEF UpdateWrite, At, Sound, JobsAreSound, JobIsSound
    <3>2. PICK new \in UserRows : new = requests[r].row
      BY <1>1 DEF Sound, TypeOK, Jobs
    <3>3. by = u => new.status = "active" /\ new.role = "admin"
      BY <1>1, <2>4, <3>1, <3>2 DEF UpdateWrite, At, Sound, JobsAreSound, JobIsSound
    <3>4. IsActiveAdmin(by) /\ users[by] \in UserRows
      BY <1>1, <2>4, <3>1 DEF UpdateWrite, Sound, TypeOK
    <3>5. users' = [users EXCEPT ![u].status = new.status, ![u].role = new.role]
      BY <2>4, <3>1, <3>2 DEF UpdateWrite
    <3>6. users'[by].status = "active" /\ users'[by].role = "admin"
      BY <1>1, <3>3, <3>4, <3>5 DEF IsActiveAdmin, Sound, TypeOK, UserRows
    <3> QED
      BY <3>6 DEF IsActiveAdmin
  <2>5. ASSUME NEW r \in Requests, ResetCommit(r)
        PROVE  IsActiveAdmin(a)'
    BY <1>1, <2>2, <2>5 DEF ResetCommit, IsActiveAdmin, Sound, TypeOK, UserRows
  <2>6. Begins => UNCHANGED users
    BY <1>1, BeginEffect DEF Begins, Sound
  <2>7. \A r \in Requests :
          OpenSession(r) \/ UpdateRevoke(r) \/ CountRequests(r) \/ IssueSnapshot(r)
          \/ IssueStore(r) \/ ResetSelect(r) \/ RequestFails(r) => UNCHANGED users
    BY DEF OpenSession, UpdateRevoke, CountRequests, IssueSnapshot, IssueStore, ResetSelect,
           RequestFails
  <2>8. (\E s \in SessionIds : SessionEnds(s)) \/ (\E t \in TokenIds : TokenExpires(t) \/ TokenAges(t))
          => UNCHANGED users
    BY DEF SessionEnds, TokenExpires, TokenAges
  <2> QED
    BY <1>1, <2>1, <2>3, <2>4, <2>5, <2>6, <2>7, <2>8, NextCases DEF Statement, vars, Sound
<1>2. ASSUME Sound, [Next]_vars
      PROVE  [(\E u \in People : IsActiveAdmin(u)) /\ ~crossed'
                => \E u \in People : IsActiveAdmin(u)']_vars
  BY <1>1, <1>2
<1> QED
  BY <1>2, AccountsAreSound, PTL DEF Spec, AdministratorRemains

-----------------------------------------------------------------------------
(* Sessions, which resets and suspensions take with them.                  *)

Follows(s) ==
    LET u == sessions[s].user
    IN  u # Nobody /\ ~sessions[s].excused =>
            /\ sessions[s].password = users[u].password
            /\ users[u].status = "active" \/ RevocationPending(u)

\* A revocation is pending until its handler takes the next step.
LEMMA PendingStays ==
    ASSUME TypeOK, NEW r \in Requests, NEW u,
           \A other \in Requests \ {r} : requests'[other] = requests[other],
           requests[r].step # "update_revoke" \/ requests[r].user # u,
           RevocationPending(u)
    PROVE  RevocationPending(u)'
  BY DEF RevocationPending, At

LEMMA FollowsStays ==
    ASSUME Sound, NEW s \in SessionIds, Follows(s), sessions'[s] = sessions[s],
           NEW u, u = sessions[s].user,
           u \in People => users'[u].password = users[u].password,
           users[u].status = "active" => users'[u].status = "active" \/ RevocationPending(u)',
           RevocationPending(u) => users'[u].status = "active" \/ RevocationPending(u)'
    PROVE  Follows(s)'
<1>1. u \in People \cup {Nobody}
  BY DEF Sound, TypeOK, SessionRows
<1> QED
  BY <1>1 DEF Follows

LEMMA SessionsStep ==
    ASSUME Sound, Next, NEW s \in SessionIds, Follows(s)
    PROVE  Follows(s)'
<1> USE DEF Sound
<1>1. PICK u \in People \cup {Nobody} : u = sessions[s].user
  BY DEF TypeOK, SessionRows
<1>2. CASE sessions'[s] = NoSession
  BY <1>2 DEF Follows, NoSession
<1>3. ASSUME NEW r \in Requests, UNCHANGED users, sessions'[s] = sessions[s],
             requests[r].step # "update_revoke" \/ requests[r].user # u,
             \A other \in Requests \ {r} : requests'[other] = requests[other]
      PROVE  Follows(s)'
  BY <1>1, <1>3, PendingStays, FollowsStays
<1>4. ASSUME NEW r \in Requests, NEW job, Starting(job), Begin(r, job)
      PROVE  Follows(s)'
  <2>1. UNCHANGED <<users, sessions>> /\ requests' = [requests EXCEPT ![r] = job]
        /\ requests[r] = Idle
    BY <1>4, BeginEffect DEF Begin
  <2>2. \A other \in Requests \ {r} : requests'[other] = requests[other]
    BY <2>1 DEF TypeOK
  <2>3. requests[r].step # "update_revoke"
    BY <2>1 DEF Idle
  <2> QED
    BY <1>3, <2>1, <2>2, <2>3
<1>5. ASSUME NEW r \in Requests,
             InitializeCommit(r) \/ RegisterCommit(r) \/ ImportCommit(r)
      PROVE  Follows(s)'
  <2>1. sessions' = sessions /\ requests[r].step # "update_revoke"
    BY <1>5 DEF InitializeCommit, RegisterCommit, ImportCommit, At
  <2>2. \A other \in Requests \ {r} : requests'[other] = requests[other]
    BY <1>5, StepEffect, FinishEffect
    DEF InitializeCommit, RegisterCommit, ImportCommit, Steps
  <2>3. u \in People /\ Exists(u) => users'[u] = users[u]
    BY <1>5 DEF InitializeCommit, RegisterCommit, ImportCommit, TypeOK
  <2>4. RevocationPending(u) => u \in People /\ Exists(u)
    BY DEF RevocationPending, At, JobsAreSound, JobIsSound
  <2>5. CASE u \in People /\ Exists(u)
    BY <1>1, <2>1, <2>2, <2>3, <2>5, PendingStays, FollowsStays
  <2>6. CASE ~(u \in People /\ Exists(u))
    <3>1. u = Nobody \/ sessions[s].excused
      BY <1>1, <2>4, <2>6 DEF Follows, Exists
    <3> QED
      BY <1>1, <2>1, <3>1 DEF Follows
  <2> QED
    BY <2>5, <2>6
<1>6. ASSUME NEW r \in Requests, OpenSession(r)
      PROVE  Follows(s)'
  <2>1. UNCHANGED users /\ requests[r].step # "update_revoke"
        /\ \A other \in Requests \ {r} : requests'[other] = requests[other]
    BY <1>6, FinishEffect DEF OpenSession, At
  <2>2. PICK new \in SessionIds :
          sessions' = [sessions EXCEPT ![new] =
             [user |-> requests[r].user, password |-> requests[r].row.password,
              excused |-> \/ users[requests[r].user].password # requests[r].row.password
                          \/ users[requests[r].user].status # "active"]]
    BY <1>6 DEF OpenSession
  <2>3. CASE new = s
    BY <2>1, <2>2, <2>3 DEF Follows, TypeOK
  <2>4. CASE new # s
    BY <1>3, <2>1, <2>2, <2>4 DEF TypeOK
  <2> QED
    BY <2>3, <2>4
<1>7. ASSUME NEW r \in Requests, UpdateWrite(r)
      PROVE  Follows(s)'
  <2>1. PICK v \in People : v = requests[r].user
    BY <1>7 DEF UpdateWrite, At, JobsAreSound, JobIsSound
  <2>2. PICK new \in UserRows : new = requests[r].row
    BY DEF TypeOK, Jobs
  <2>3. users' = [users EXCEPT ![v].status = new.status, ![v].role = new.role]
        /\ sessions' = sessions /\ requests[r].step # "update_revoke"
    BY <1>7, <2>1, <2>2 DEF UpdateWrite, At
  <2>4. \A other \in Requests \ {r} : requests'[other] = requests[other]
    BY <1>7, StepEffect, FinishEffect DEF UpdateWrite, Steps
  <2>5. RevocationPending(u) => RevocationPending(u)'
    BY <2>3, <2>4, PendingStays
  <2>6. CASE u # v
    <3>1. u \in People => users'[u] = users[u]
      BY <2>3, <2>6 DEF TypeOK
    <3>2. CASE u = Nobody
      BY <1>1, <2>3, <3>2 DEF Follows
    <3>3. CASE u \in People
      BY <1>1, <2>3, <2>5, <3>1, <3>3, FollowsStays
    <3> QED
      BY <3>2, <3>3
  <2>7. CASE u = v
    <3>1. users[v] \in UserRows
      BY DEF TypeOK
    <3>2. users'[v].password = users[v].password /\ users'[v].status = new.status
      BY <2>3, <3>1 DEF TypeOK, UserRows
    <3>3. new.status = "active" \/ RevocationPending(v)'
      <4>1. CASE GoTo(r, "update_revoke")
        <5>1. requests'[r] = [requests[r] EXCEPT !.step = "update_revoke"]
          BY <4>1, StepEffect DEF Steps
        <5>2. requests[r] \in Jobs
          BY DEF TypeOK
        <5>3. requests'[r].step = "update_revoke" /\ requests'[r].user = v
          BY <5>1, <5>2, <2>1 DEF Jobs
        <5> QED
          BY <5>3 DEF RevocationPending, At
      <4> QED
        BY <1>7, <2>2, <4>1 DEF UpdateWrite
    <3> QED
      BY <1>1, <2>3, <2>7, <3>2, <3>3, FollowsStays
  <2> QED
    BY <2>6, <2>7
<1>8. ASSUME NEW r \in Requests, UpdateRevoke(r)
      PROVE  Follows(s)'
  <2>1. UNCHANGED users /\ sessions' = SessionsWithout(requests[r].user)
        /\ \A other \in Requests \ {r} : requests'[other] = requests[other]
    BY <1>8, FinishEffect DEF UpdateRevoke
  <2> QED
    BY <1>1, <1>2, <1>3, <2>1 DEF SessionsWithout
<1>9. ASSUME NEW r \in Requests, ResetCommit(r)
      PROVE  Follows(s)'
  <2>1. PICK v : v = tokens[TheToken(r)].user
    OBVIOUS
  <2>2. sessions' = SessionsWithout(v)
        /\ users' = [users EXCEPT ![v].password = requests[r].row.password]
        /\ requests[r].step # "update_revoke"
        /\ \A other \in Requests \ {r} : requests'[other] = requests[other]
    BY <1>9, <2>1, FinishEffect DEF ResetCommit, At
  <2>3. CASE u = v
    BY <1>1, <1>2, <2>2, <2>3 DEF SessionsWithout
  <2>4. CASE u # v
    <3>1. sessions'[s] = sessions[s] /\ (u \in People => users'[u] = users[u])
      BY <1>1, <2>2, <2>4 DEF SessionsWithout, TypeOK
    <3>2. CASE u = Nobody
      BY <1>1, <3>1, <3>2 DEF Follows
    <3>3. CASE u \in People
      BY <1>1, <2>2, <3>1, <3>3, PendingStays, FollowsStays
    <3> QED
      BY <3>2, <3>3
  <2> QED
    BY <2>3, <2>4
<1>10. ASSUME NEW r \in Requests, RequestFails(r)
       PROVE  Follows(s)'
  <2>1. UNCHANGED users /\ \A other \in Requests \ {r} : requests'[other] = requests[other]
    BY <1>10, FinishEffect DEF RequestFails
  <2>2. CASE At(r, "update_revoke") /\ sessions[s].user = requests[r].user
    <3>1. sessions'[s] = [sessions[s] EXCEPT !.excused = TRUE] /\ sessions[s] \in SessionRows
      BY <1>10, <2>2 DEF RequestFails, TypeOK
    <3>2. sessions'[s].excused
      BY <3>1 DEF SessionRows
    <3> QED
      BY <3>2 DEF Follows
  <2>3. CASE ~(At(r, "update_revoke") /\ sessions[s].user = requests[r].user)
    <3>1. sessions'[s] = sessions[s]
      BY <1>10, <2>3 DEF RequestFails
    <3> QED
      BY <1>1, <1>3, <2>1, <2>3, <3>1 DEF At
  <2> QED
    BY <2>2, <2>3
<1>11. ASSUME NEW r \in Requests,
              CountRequests(r) \/ IssueSnapshot(r) \/ IssueStore(r) \/ ResetSelect(r)
       PROVE  Follows(s)'
  <2>1. UNCHANGED <<users, sessions>> /\ requests[r].step # "update_revoke"
    BY <1>11 DEF CountRequests, IssueSnapshot, IssueStore, ResetSelect, At
  <2>2. \A other \in Requests \ {r} : requests'[other] = requests[other]
    <3>1. IssueSnapshot(r) => \A other \in Requests \ {r} : requests'[other] = requests[other]
      BY DEF IssueSnapshot, TypeOK
    <3> QED
      BY <1>11, <3>1, StepEffect, FinishEffect
      DEF CountRequests, IssueStore, ResetSelect, Steps
  <2> QED
    BY <1>3, <2>1, <2>2
<1>12. ASSUME NEW x \in SessionIds, SessionEnds(x)
       PROVE  Follows(s)'
  <2>1. sessions'[s] = NoSession \/ (sessions'[s] = sessions[s] /\ UNCHANGED <<users, requests>>)
    BY <1>12 DEF SessionEnds, TypeOK
  <2> QED
    BY <1>1, <1>2, <2>1 DEF Follows, RevocationPending, At
<1>13. ASSUME NEW t \in TokenIds, TokenExpires(t) \/ TokenAges(t)
       PROVE  Follows(s)'
  <2>1. UNCHANGED <<users, sessions, requests>>
    BY <1>13 DEF TokenExpires, TokenAges
  <2> QED
    BY <2>1 DEF Follows, RevocationPending, At
<1> QED
  BY NextCases, <1>4, <1>5, <1>6, <1>7, <1>8, <1>9, <1>10, <1>11, <1>12, <1>13
  DEF Begins, Statement

\* A session proves the password its account has now, and its account is not
\* suspended, but for the exceptions the session names (storage/mod.rs 566, 1168).
THEOREM SessionsAreRevoked == Spec => []SessionsFollowAccounts
<1>1. ASSUME Init
      PROVE  \A s \in SessionIds : Follows(s)
  <2>1. PICK old \in SUBSET People, oldest \in People :
        /\ users = [u \in People |->
                [NoUser EXCEPT !.status = IF u \in old THEN "active" ELSE "none",
                               !.role = IF u \in old /\ u = oldest THEN "admin" ELSE "member"]]
        /\ sessions \in [SessionIds ->
                {NoSession} \cup {[NoSession EXCEPT !.user = u] : u \in old \cap {oldest}}]
    BY <1>1 DEF Init
  <2>2. TAKE s \in SessionIds
  <2>3. CASE sessions[s] = NoSession
    BY <2>3 DEF NoSession, Follows
  <2>4. ASSUME NEW u \in old, sessions[s] = [NoSession EXCEPT !.user = u]
        PROVE  Follows(s)
    <3>1. sessions[s].user = u /\ sessions[s].password = NoPassword
      BY <2>4 DEF NoSession
    <3>2. users[u].status = "active" /\ users[u].password = NoPassword
      BY <2>1, <2>4 DEF NoUser
    <3> QED
      BY <3>1, <3>2 DEF Follows
  <2> QED
    BY <2>1, <2>3, <2>4
<1>2. ASSUME Sound, \A s \in SessionIds : Follows(s), [Next]_vars
      PROVE  (\A s \in SessionIds : Follows(s))'
  <2>1. CASE Next
    BY <1>2, <2>1, SessionsStep
  <2>2. CASE UNCHANGED vars
    BY <1>2, <2>2 DEF vars, Follows, RevocationPending, At
  <2> QED
    BY <1>2, <2>1, <2>2
<1>3. (\A s \in SessionIds : Follows(s)) => SessionsFollowAccounts
  BY DEF Follows, SessionsFollowAccounts
<1> QED
  BY <1>1, <1>2, <1>3, AccountsAreSound, PTL DEF Spec

-----------------------------------------------------------------------------
(* Reset links: their number, and that each is used once.                  *)

Recent(u) == {t \in RecentTokens(u) : tokens[t].public}
Limited(u) == Cardinality(Recent(u)) + Cardinality(Issuing(u))
                  <= ResetLimit - 1 + Cardinality(Requests)

LEMMA AllFinite ==
    ASSUME NEW u
    PROVE  /\ IsFiniteSet(Requests) /\ Cardinality(Requests) \in Nat \ {0}
           /\ IsFiniteSet(RecentTokens(u)) /\ Cardinality(RecentTokens(u)) \in Nat
           /\ IsFiniteSet(Recent(u)) /\ Cardinality(Recent(u)) \in Nat
           /\ IsFiniteSet(Issuing(u)) /\ Cardinality(Issuing(u)) \in Nat
<1>1. RecentTokens(u) \subseteq TokenIds /\ Recent(u) \subseteq TokenIds
      /\ Issuing(u) \subseteq Requests
  BY DEF RecentTokens, Recent, Issuing
<1>2. IsFiniteSet(Requests) /\ Requests # {} /\ IsFiniteSet(TokenIds)
  BY ConstantsAssumption
<1> QED
  BY <1>1, <1>2, FS_Subset, FS_CardinalityType, FS_EmptySet

LEMMA LimitStays ==
    ASSUME NEW u, Limited(u), Recent(u)' \subseteq Recent(u), Issuing(u)' \subseteq Issuing(u)
    PROVE  Limited(u)'
<1>1. PICK fewer : fewer = Recent(u)'
  OBVIOUS
<1>2. PICK left : left = Issuing(u)'
  OBVIOUS
<1>3. Cardinality(fewer) <= Cardinality(Recent(u)) /\ Cardinality(left) <= Cardinality(Issuing(u))
      /\ Cardinality(fewer) \in Nat /\ Cardinality(left) \in Nat
  BY <1>1, <1>2, AllFinite, FS_Subset, FS_CardinalityType
<1> QED
  BY <1>1, <1>2, <1>3, AllFinite, ConstantsAssumption DEF Limited

\* A step of one handler adds no other handler to those that issue a link.
LEMMA IssuingStays ==
    ASSUME NEW u, NEW r \in Requests,
           \A other \in Requests \ {r} : requests'[other] = requests[other],
           r \in Issuing(u)' => r \in Issuing(u)
    PROVE  Issuing(u)' \subseteq Issuing(u)
  BY DEF Issuing

LEMMA LimitStep ==
    ASSUME Sound, Next, NEW u \in People, Limited(u)
    PROVE  Limited(u)'
<1> USE DEF Sound
<1>1. ASSUME NEW r \in Requests, NEW job, Starting(job), Begin(r, job)
      PROVE  Limited(u)'
  <2>1. requests' = [requests EXCEPT ![r] = job] /\ UNCHANGED tokens
    BY <1>1, BeginEffect
  <2>2. requests'[r] = job /\ \A other \in Requests \ {r} : requests'[other] = requests[other]
    BY <2>1 DEF TypeOK
  <2>3. r \notin Issuing(u)'
    BY <1>1, <2>2 DEF Issuing, Starting
  <2>4. Recent(u)' = Recent(u)
    BY <2>1 DEF Recent, RecentTokens
  <2> QED
    BY <2>2, <2>3, <2>4, IssuingStays, LimitStays
<1>2. ASSUME NEW r \in Requests, CountRequests(r)
      PROVE  Limited(u)'
  <2>1. Recent(u)' = Recent(u)
    BY <1>2 DEF CountRequests, Recent, RecentTokens
  <2>2. CASE Finish(r)
    <3>1. r \notin Issuing(u)' /\ \A other \in Requests \ {r} : requests'[other] = requests[other]
      BY <2>2, FinishEffect DEF Issuing
    <3> QED
      BY <2>1, <3>1, IssuingStays, LimitStays
  <2>3. CASE ~Finish(r)
    <3>1. Cardinality(RecentTokens(requests[r].user)) < ResetLimit /\ GoTo(r, "issue")
      BY <1>2, <2>3, AllFinite, ConstantsAssumption DEF CountRequests
    <3>2. requests'[r] = [requests[r] EXCEPT !.step = "issue"] /\ requests[r] \in Jobs
          /\ \A other \in Requests \ {r} : requests'[other] = requests[other]
      BY <3>1, StepEffect DEF Steps, TypeOK
    <3>3. CASE u = requests[r].user
      <4>1. PICK now : now = Issuing(u)'
        OBVIOUS
      <4>2. now \subseteq Requests
        BY <4>1 DEF Issuing
      <4>3. Cardinality(now) <= Cardinality(Requests) /\ Cardinality(now) \in Nat
        BY <4>2, AllFinite, FS_Subset, FS_CardinalityType
      <4>4. Recent(u) \subseteq RecentTokens(u)
        BY DEF Recent
      <4>5. Cardinality(Recent(u)) <= Cardinality(RecentTokens(u))
        BY <4>4, AllFinite, FS_Subset
      <4>6. Cardinality(Recent(u)) + Cardinality(now) <= ResetLimit - 1 + Cardinality(Requests)
        BY <3>1, <3>3, <4>3, <4>5, AllFinite, ConstantsAssumption
      <4> QED
        BY <2>1, <4>1, <4>6 DEF Limited
    <3>4. CASE u # requests[r].user
      <4>1. r \notin Issuing(u)'
        BY <3>2, <3>4 DEF Issuing, Jobs
      <4> QED
        BY <2>1, <3>2, <4>1, IssuingStays, LimitStays
    <3> QED
      BY <3>3, <3>4
  <2> QED
    BY <2>2, <2>3
<1>3. ASSUME NEW r \in Requests, IssueSnapshot(r)
      PROVE  Limited(u)'
  <2>1. Recent(u)' = Recent(u)
    BY <1>3 DEF IssueSnapshot, Recent, RecentTokens
  <2>2. requests'[r].user = requests[r].user /\ requests'[r].public = requests[r].public
        /\ \A other \in Requests \ {r} : requests'[other] = requests[other]
    BY <1>3 DEF IssueSnapshot, TypeOK, Jobs
  <2>3. requests[r].step = "issue"
    BY <1>3 DEF IssueSnapshot, At
  <2> QED
    BY <2>1, <2>2, <2>3, IssuingStays, LimitStays DEF Issuing
<1>4. ASSUME NEW r \in Requests, IssueStore(r)
      PROVE  Limited(u)'
  <2>1. r \notin Issuing(u)' /\ \A other \in Requests \ {r} : requests'[other] = requests[other]
    BY <1>4, FinishEffect DEF IssueStore, Issuing
  <2>2. PICK new \in TokenIds, mailed \in BOOLEAN :
          /\ tokens[new].user = Nobody
          /\ tokens' = [t \in TokenIds |->
               IF t = new
                 THEN [user |-> requests[r].user, public |-> requests[r].public,
                       mailed |-> mailed, live |-> TRUE, recent |-> TRUE, uses |-> 0,
                       holder |-> Nobody]
               ELSE IF t \in requests[r].seen
                 THEN [tokens[t] EXCEPT !.live = FALSE]
               ELSE tokens[t]]
    BY <1>4 DEF IssueStore
  <2>3. \A t \in TokenIds \ {new} :
          /\ tokens'[t].user = tokens[t].user /\ tokens'[t].public = tokens[t].public
          /\ tokens'[t].recent = tokens[t].recent
    BY <2>2 DEF TypeOK, TokenRows
  <2>4. tokens'[new].user = requests[r].user /\ tokens'[new].public = requests[r].public
    BY <2>2
  <2>5. new \notin Recent(u)
    BY <2>2, ConstantsAssumption DEF Recent, RecentTokens
  <2>6. CASE requests[r].user = u /\ requests[r].public
    <3>1. r \in Issuing(u)
      BY <1>4, <2>6 DEF IssueStore, At, Issuing
    <3>2. Issuing(u)' \subseteq Issuing(u) \ {r} /\ Recent(u)' \subseteq Recent(u) \cup {new}
      BY <2>1, <2>3 DEF Issuing, Recent, RecentTokens
    <3>3. PICK now : now = Issuing(u)'
      OBVIOUS
    <3>4. PICK more : more = Recent(u)'
      OBVIOUS
    <3>5. /\ IsFiniteSet(Issuing(u) \ {r})
          /\ Cardinality(Issuing(u) \ {r}) = Cardinality(Issuing(u)) - 1
      BY <3>1, AllFinite, FS_RemoveElement
    <3>6. /\ IsFiniteSet(Recent(u) \cup {new})
          /\ Cardinality(Recent(u) \cup {new}) = Cardinality(Recent(u)) + 1
      BY <2>5, AllFinite, FS_AddElement
    <3>7. Cardinality(now) <= Cardinality(Issuing(u)) - 1 /\ Cardinality(now) \in Nat
      BY <3>2, <3>3, <3>5, FS_Subset, FS_CardinalityType
    <3>8. Cardinality(more) <= Cardinality(Recent(u)) + 1 /\ Cardinality(more) \in Nat
      BY <3>2, <3>4, <3>6, FS_Subset, FS_CardinalityType
    <3> QED
      BY <3>3, <3>4, <3>7, <3>8, AllFinite, ConstantsAssumption DEF Limited
  <2>7. CASE ~(requests[r].user = u /\ requests[r].public)
    <3>1. Recent(u)' \subseteq Recent(u)
      BY <2>3, <2>4, <2>7 DEF Recent, RecentTokens
    <3> QED
      BY <2>1, <3>1, IssuingStays, LimitStays
  <2> QED
    BY <2>6, <2>7
<1>5. ASSUME NEW r \in Requests,
             \/ InitializeCommit(r) \/ RegisterCommit(r) \/ ImportCommit(r) \/ OpenSession(r)
             \/ UpdateWrite(r) \/ UpdateRevoke(r)
      PROVE  Limited(u)'
  <2>1. Recent(u)' = Recent(u)
    BY <1>5 DEF InitializeCommit, RegisterCommit, ImportCommit, OpenSession, UpdateWrite,
                UpdateRevoke, Recent, RecentTokens
  <2>2. requests'[r].step \in {"idle", "open_session", "update_revoke"}
        /\ \A other \in Requests \ {r} : requests'[other] = requests[other]
    <3>1. CASE Finish(r)
      BY <3>1, FinishEffect
    <3>2. ASSUME NEW step \in {"open_session", "update_revoke"}, GoTo(r, step)
          PROVE  /\ requests'[r].step \in {"idle", "open_session", "update_revoke"}
                 /\ \A other \in Requests \ {r} : requests'[other] = requests[other]
      <4>1. requests'[r] = [requests[r] EXCEPT !.step = step] /\ requests[r] \in Jobs
            /\ \A other \in Requests \ {r} : requests'[other] = requests[other]
        BY <3>2, StepEffect DEF Steps, TypeOK
      <4> QED
        BY <4>1 DEF Jobs
    <3> QED
      BY <1>5, <3>1, <3>2
      DEF InitializeCommit, RegisterCommit, ImportCommit, OpenSession, UpdateWrite, UpdateRevoke
  <2>3. r \notin Issuing(u)'
    BY <2>2 DEF Issuing
  <2> QED
    BY <2>1, <2>2, <2>3, IssuingStays, LimitStays
<1>6. ASSUME NEW r \in Requests, ResetSelect(r) \/ ResetCommit(r) \/ RequestFails(r)
      PROVE  Limited(u)'
  <2>1. \A t \in TokenIds :
          /\ tokens'[t].user = tokens[t].user /\ tokens'[t].public = tokens[t].public
          /\ tokens'[t].recent = tokens[t].recent
    <3>1. CASE ResetSelect(r)
      BY <3>1 DEF ResetSelect, TypeOK, TokenRows
    <3>2. CASE ResetCommit(r)
      BY <3>2 DEF ResetCommit, TypeOK, TokenRows
    <3>3. CASE RequestFails(r)
      BY <3>3 DEF RequestFails, TypeOK, TokenRows
    <3> QED
      BY <1>6, <3>1, <3>2, <3>3
  <2>2. Recent(u)' = Recent(u)
    BY <2>1 DEF Recent, RecentTokens
  <2>3. requests'[r].step \in {"idle", "commit"}
        /\ \A other \in Requests \ {r} : requests'[other] = requests[other]
    <3>1. CASE Finish(r)
      BY <3>1, FinishEffect
    <3>2. CASE GoTo(r, "commit")
      <4>1. requests'[r] = [requests[r] EXCEPT !.step = "commit"] /\ requests[r] \in Jobs
            /\ \A other \in Requests \ {r} : requests'[other] = requests[other]
        BY <3>2, StepEffect DEF Steps, TypeOK
      <4> QED
        BY <4>1 DEF Jobs
    <3> QED
      BY <1>6, <3>1, <3>2 DEF ResetSelect, ResetCommit, RequestFails
  <2>4. r \notin Issuing(u)'
    BY <2>3 DEF Issuing
  <2> QED
    BY <2>2, <2>3, <2>4, IssuingStays, LimitStays
<1>7. ASSUME \/ \E s \in SessionIds : SessionEnds(s)
             \/ \E t \in TokenIds : TokenExpires(t) \/ TokenAges(t)
      PROVE  Limited(u)'
  <2>1. Issuing(u)' = Issuing(u)
    BY <1>7 DEF SessionEnds, TokenExpires, TokenAges, Issuing
  <2>2. ASSUME NEW t \in TokenIds, TokenExpires(t) \/ TokenAges(t)
        PROVE  Recent(u)' \subseteq Recent(u)
    <3>1. CASE TokenExpires(t)
      BY <3>1 DEF TokenExpires, TypeOK, TokenRows, Recent, RecentTokens
    <3>2. CASE TokenAges(t)
      BY <3>2 DEF TokenAges, TypeOK, TokenRows, Recent, RecentTokens
    <3> QED
      BY <2>2, <3>1, <3>2
  <2>3. (\E s \in SessionIds : SessionEnds(s)) => Recent(u)' = Recent(u)
    BY DEF SessionEnds, Recent, RecentTokens
  <2> QED
    BY <1>7, <2>1, <2>2, <2>3, LimitStays
<1> QED
  BY NextCases, <1>1, <1>2, <1>3, <1>4, <1>5, <1>6, <1>7 DEF Begins, Statement

\* Reset links are few and each is used once, however many handlers count,
\* store and open them at the same time (api/accounts.rs 461, storage/mod.rs 566).
THEOREM ResetLinksStayBounded == Spec => []ResetLinksAreBounded
<1>1. ASSUME Init
      PROVE  \A u \in People : Limited(u)
  <2>1. TAKE u \in People
  <2>2. \A t \in TokenIds : tokens[t].user # u
    <3>1. NoToken.user = Nobody /\ u # Nobody
      BY ConstantsAssumption DEF NoToken
    <3>2. \A t \in TokenIds : tokens[t] = NoToken
      BY <1>1 DEF Init
    <3> QED
      BY <3>1, <3>2
  <2>3. \A r \in Requests : requests[r].step = "idle"
    BY <1>1 DEF Init, Idle
  <2>4. Recent(u) = {} /\ Issuing(u) = {}
    BY <2>2, <2>3 DEF Recent, RecentTokens, Issuing
  <2> QED
    BY <2>4, AllFinite, FS_EmptySet, ConstantsAssumption DEF Limited
<1>2. ASSUME Sound, \A u \in People : Limited(u), [Next]_vars
      PROVE  (\A u \in People : Limited(u))'
  <2>1. CASE Next
    BY <1>2, <2>1, LimitStep
  <2>2. CASE UNCHANGED vars
    BY <1>2, <2>2 DEF vars, Limited, Recent, RecentTokens, Issuing
  <2> QED
    BY <1>2, <2>1, <2>2
<1>3. (\A u \in People : Limited(u)) => ResetRequestsAreLimited
  BY DEF Limited, Recent, ResetRequestsAreLimited
<1>4. Sound => ResetLinksWorkOnce
  BY DEF Sound, TokensAreSound, ResetLinksWorkOnce
<1> QED
  BY <1>1, <1>2, <1>3, <1>4, AccountsAreSound, PTL DEF Spec, ResetLinksAreBounded
=============================================================================
