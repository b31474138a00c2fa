------------------------------ MODULE Accounts ------------------------------
(***************************************************************************)
(* Accounts, login sessions and password recovery (server/src/api.rs,      *)
(* api/accounts.rs, api/setup.rs and their statements in storage/mod.rs).  *)
(*                                                                         *)
(* Every HTTP handler is a task of its own; between two of its statements  *)
(* any other handler may run.  `requests' holds, for each task, what it    *)
(* carries from one statement to the next.  A transaction is one action at *)
(* its commit, plus one at the point where it took its snapshot or a row   *)
(* lock (`holder').  Passwords stand for their Argon2 hashes and rows are  *)
(* found by their keys.  verified_at, last_login_at and email addresses     *)
(* decide no step here and are left out (an account without an address     *)
(* gets no mail), and so is the authority check of every handler, which    *)
(* only refuses (AuthorityLease models it).                                *)
(***************************************************************************)
EXTENDS Naturals, FiniteSets

CONSTANTS
    People,         \* user names, which are unique in table users
    Passwords,
    Requests,       \* concurrent handler tasks, of both services
    SessionIds,     \* bound: rows of auth_sessions at one time
    TokenIds,       \* bound: password reset tokens ever issued
    ResetLimit,     \* PUBLIC_RESET_LIMIT
    MaxRequests,    \* bound: requests made in all
    Nobody

ASSUME ConstantsAssumption ==
    /\ Nobody \notin People \cup Requests
    /\ ResetLimit \in Nat \ {0}
    /\ MaxRequests \in Nat
    /\ IsFiniteSet(Requests) /\ Requests # {}
    /\ IsFiniteSet(TokenIds) /\ Passwords # {}

VARIABLES
    installed,      \* a row of system_installations exists
    users,          \* table users
    sessions,       \* table auth_sessions
    tokens,         \* table password_reset_tokens
    requests,
    begun,          \* requests made so far
    founders,       \* initialized_by of the installations, none of which goes
    crossed         \* history: an administrator's update was written after
                    \* that administrator had lost the role or the status
vars == <<installed, users, sessions, tokens, requests, begun, founders, crossed>>

Roles    == {"admin", "member"}
\* Pending and suspended accounts differ in the message of a refusal only.
Statuses == {"active", "inactive"}

\* status "none": no such row.
UserRows == [status : Statuses \cup {"none"}, role : Roles,
             password : Passwords]
\* excused: written by a login that read the account before it changed, or
\* left behind by an update that failed between its two statements.
SessionRows == [user : People \cup {Nobody}, password : Passwords, excused : BOOLEAN]
\* live: neither consumed nor expired, which every reader treats alike.
TokenRows == [user : People \cup {Nobody}, public : BOOLEAN, mailed : BOOLEAN,
              live : BOOLEAN, recent : BOOLEAN, uses : 0..2,
              holder : Requests \cup {Nobody}]

\* Flat records: a handler uses the fields its step needs.
Steps == {"idle", "initialize", "register", "import", "open_session",
          "update_write", "update_revoke",
          "count", "issue", "store", "reset", "commit"}
Jobs == [step : Steps, by : People \cup {Nobody}, user : People \cup {Nobody},
         row : UserRows, group : SUBSET People, public : BOOLEAN,
         seen : SUBSET TokenIds]

NoPassword == CHOOSE p \in Passwords : TRUE
NoUser    == [status |-> "none", role |-> "member", password |-> NoPassword]
NoSession == [user |-> Nobody, password |-> NoPassword, excused |-> FALSE]
NoToken   == [user |-> Nobody, public |-> FALSE, mailed |-> FALSE, live |-> FALSE,
              recent |-> FALSE, uses |-> 0, holder |-> Nobody]
Idle      == [step |-> "idle", by |-> Nobody, user |-> Nobody, row |-> NoUser,
              group |-> {}, public |-> FALSE, seen |-> {}]

Exists(u)        == users[u].status # "none"
IsActiveAdmin(u) == users[u].status = "active" /\ users[u].role = "admin"

\* user_by_session_hash joins the session with an active user.
Authenticated(u) ==
    /\ users[u].status = "active"
    /\ \E s \in SessionIds : sessions[s].user = u
RequireAdmin(u) == Authenticated(u) /\ users[u].role = "admin"

\* Either an empty database, or one upgraded from before there were roles: its
\* users are active, the oldest is an administrator and may still be logged in,
\* and the migration counts that one as the founder.
Init ==
    /\ \E old \in SUBSET People, oldest \in People :
          /\ old # {} => oldest \in old
          /\ installed = (old # {})
          /\ founders = old \cap {oldest}
          /\ users = [u \in People |->
                [NoUser EXCEPT !.status = IF u \in old THEN "active" ELSE "none",
                               !.role = IF u \in old /\ u = oldest THEN "admin" ELSE "member"]]
          /\ sessions \in [SessionIds ->
                {NoSession} \cup {[NoSession EXCEPT !.user = u] : u \in old \cap {oldest}}]
    /\ tokens = [t \in TokenIds |-> NoToken]
    /\ requests = [r \in Requests |-> Idle]
    /\ begun = 0
    /\ crossed = FALSE

Begin(r, job) ==
    /\ requests[r] = Idle
    /\ begun < MaxRequests
    /\ begun' = begun + 1
    /\ requests' = [requests EXCEPT ![r] = job]
    /\ UNCHANGED <<installed, users, sessions, tokens, founders, crossed>>

At(r, step) == requests[r].step = step
GoTo(r, step) == requests' = [requests EXCEPT ![r].step = step]
Finish(r) == requests' = [requests EXCEPT ![r] = Idle]

-----------------------------------------------------------------------------
(* First-run setup: a check before, and the same check under the lock.     *)

Initialize(r, u, p) ==
    /\ ~installed
    /\ Begin(r, [Idle EXCEPT !.step = "initialize", !.user = u,
                   !.row = [status |-> "active", role |-> "admin", password |-> p]])

\* Mutant: the transaction relies on the check that the handler made before.
InitializeUnlocked(r) ==
    /\ At(r, "initialize")
    /\ LET u == requests[r].user
       IN  IF Exists(u)
             THEN Finish(r) /\ UNCHANGED <<installed, users, founders>>
             ELSE /\ installed' = TRUE
                  /\ users' = [users EXCEPT ![u] = requests[r].row]
                  /\ founders' = founders \cup {u}
                  /\ GoTo(r, "open_session")
    /\ UNCHANGED <<sessions, tokens, crossed, begun>>

\* The table locks make it one step.  A user name that is taken already
\* rolls everything back.
InitializeCommit(r) ==
    /\ At(r, "initialize")
    /\ LET u == requests[r].user
       IN  IF installed \/ Exists(u)
             THEN Finish(r) /\ UNCHANGED <<installed, users, founders>>
             ELSE /\ installed' = TRUE
                  /\ users' = [users EXCEPT ![u] = requests[r].row]
                  /\ founders' = founders \cup {u}
                  /\ GoTo(r, "open_session")
    /\ UNCHANGED <<sessions, tokens, crossed, begun>>

-----------------------------------------------------------------------------
(* Registration, and the users an administrator creates or imports.  The   *)
(* names were free when the handler looked; the unique index decides.      *)

Register(r, u, p) ==
    /\ installed
    /\ ~Exists(u)
    /\ Begin(r, [Idle EXCEPT !.step = "register", !.user = u,
                   !.row = [status |-> "inactive", role |-> "member", password |-> p]])

RegisterCommit(r) ==
    /\ At(r, "register")
    /\ users' = IF Exists(requests[r].user) THEN users
                ELSE [users EXCEPT ![requests[r].user] = requests[r].row]
    /\ Finish(r)
    /\ UNCHANGED <<installed, sessions, tokens, founders, crossed, begun>>

ImportUsers(r, admin, group, role, status) ==
    /\ RequireAdmin(admin)
    /\ group # {} /\ \A u \in group : ~Exists(u)
    /\ Begin(r, [Idle EXCEPT !.step = "import", !.group = group,
                   !.row = [status |-> status, role |-> role, password |-> NoPassword]])

\* One transaction: one name that was taken since rolls all of them back.
ImportCommit(r) ==
    /\ At(r, "import")
    /\ LET group == requests[r].group
       IN  users' = IF \E u \in group : Exists(u) THEN users
                    ELSE [u \in People |->
                            IF u \in group THEN requests[r].row ELSE users[u]]
    /\ Finish(r)
    /\ UNCHANGED <<installed, sessions, tokens, founders, crossed, begun>>

-----------------------------------------------------------------------------
(* Login reads the account once; the password is verified and the session  *)
(* is written from what was read.                                          *)

Login(r, u, p) ==
    /\ installed
    /\ users[u].status = "active"
    /\ users[u].password = p
    /\ Begin(r, [Idle EXCEPT !.step = "open_session", !.user = u, !.row.password = p])

OpenSession(r) ==
    /\ At(r, "open_session")
    /\ LET u == requests[r].user
           p == requests[r].row.password
       IN  \E s \in SessionIds :
             /\ sessions[s].user = Nobody
             /\ sessions' = [sessions EXCEPT ![s] =
                    [user |-> u, password |-> p,
                     excused |-> users[u].password # p \/ users[u].status # "active"]]
    /\ Finish(r)
    /\ UNCHANGED <<installed, users, tokens, founders, crossed, begun>>

\* logout, or seven days later: an expired row authenticates nobody.
SessionEnds(s) ==
    /\ sessions[s].user # Nobody
    /\ sessions' = [sessions EXCEPT ![s] = NoSession]
    /\ UNCHANGED <<installed, users, tokens, requests, founders, crossed, begun>>

SessionsWithout(u) ==
    [s \in SessionIds |-> IF sessions[s].user = u THEN NoSession ELSE sessions[s]]

-----------------------------------------------------------------------------
(* An administrator edits a user: SELECT, UPDATE, and, when the account is *)
(* not active any more, DELETE of its sessions, without a transaction.     *)

\* Mutant: administrators may edit themselves like anybody else.
UpdateAnyUser(r, admin, u, role, status) ==
    /\ RequireAdmin(admin)
    /\ Exists(u)
    /\ Begin(r, [Idle EXCEPT !.step = "update_write", !.by = admin, !.user = u,
                   !.row.status = status, !.row.role = role])

\* Up to the SELECT of the current row, whose email and verified_at it reuses.
UpdateUser(r, admin, u, role, status) ==
    /\ RequireAdmin(admin)
    /\ admin = u => role = users[admin].role /\ status = users[admin].status
    /\ Exists(u)
    /\ Begin(r, [Idle EXCEPT !.step = "update_write", !.by = admin, !.user = u,
                   !.row.status = status, !.row.role = role])

UpdateWrite(r) ==
    /\ At(r, "update_write")
    /\ LET u == requests[r].user
           new == requests[r].row
       IN  /\ users' = [users EXCEPT ![u].status = new.status, ![u].role = new.role]
           /\ IF new.status = "active" THEN Finish(r) ELSE GoTo(r, "update_revoke")
    /\ crossed' = (crossed \/ ~IsActiveAdmin(requests[r].by))
    /\ UNCHANGED <<installed, sessions, tokens, founders, begun>>

\* Then the rooms are left and the command is published (RoomHub, CommandBus).
UpdateRevoke(r) ==
    /\ At(r, "update_revoke")
    /\ sessions' = SessionsWithout(requests[r].user)
    /\ Finish(r)
    /\ UNCHANGED <<installed, users, tokens, founders, crossed, begun>>

-----------------------------------------------------------------------------
(* Reset links.  The public endpoint counts the requests of the last hour, *)
(* an administrator's request does not; both then mark the user's open     *)
(* tokens as consumed and insert a new one in one transaction.             *)

ForgotPassword(r, u) ==
    /\ installed
    /\ Exists(u)
    /\ Begin(r, [Idle EXCEPT !.step = "count", !.user = u, !.public = TRUE])

SendReset(r, admin, u) ==
    /\ RequireAdmin(admin)
    /\ Exists(u)
    /\ Begin(r, [Idle EXCEPT !.step = "issue", !.user = u])

RecentTokens(u) == {t \in TokenIds : tokens[t].user = u /\ tokens[t].recent}

CountRequests(r) ==
    /\ At(r, "count")
    /\ IF Cardinality(RecentTokens(requests[r].user)) >= ResetLimit
         THEN Finish(r) ELSE GoTo(r, "issue")
    /\ UNCHANGED <<installed, users, sessions, tokens, founders, crossed, begun>>

\* The snapshot of the UPDATE: a token inserted after it is not consumed.
IssueSnapshot(r) ==
    /\ At(r, "issue")
    /\ requests' = [requests EXCEPT ![r].step = "store",
           ![r].seen = {t \in TokenIds : tokens[t].user = requests[r].user /\ tokens[t].live}]
    /\ UNCHANGED <<installed, users, sessions, tokens, founders, crossed, begun>>

\* The UPDATE waits for a reset that holds one of the rows.  The mail goes out
\* after the commit, if it does.
IssueStore(r) ==
    /\ At(r, "store")
    /\ LET job == requests[r]
       IN  /\ \A t \in job.seen : tokens[t].live => tokens[t].holder = Nobody
           /\ \E new \in TokenIds, mailed \in BOOLEAN :
                /\ tokens[new].user = Nobody
                /\ tokens' = [t \in TokenIds |->
                     IF t = new
                       THEN [user |-> job.user, public |-> job.public, mailed |-> mailed,
                             live |-> TRUE, recent |-> TRUE, uses |-> 0, holder |-> Nobody]
                     ELSE IF t \in job.seen
                       THEN [tokens[t] EXCEPT !.live = FALSE]
                     ELSE tokens[t]]
    /\ Finish(r)
    /\ UNCHANGED <<installed, users, sessions, founders, crossed, begun>>

\* Somebody opens a link of a mail and sends a new password.
ResetPassword(r, t, p) ==
    /\ installed
    /\ tokens[t].mailed
    /\ Begin(r, [Idle EXCEPT !.step = "reset", !.user = tokens[t].user, !.seen = {t},
                   !.row = [NoUser EXCEPT !.password = p]])

TheToken(r) == CHOOSE t \in requests[r].seen : TRUE

\* Mutant: SELECT without FOR UPDATE.
ResetSelectUnlocked(r) ==
    /\ At(r, "reset")
    /\ IF tokens[TheToken(r)].live THEN GoTo(r, "commit") ELSE Finish(r)
    /\ UNCHANGED <<installed, users, sessions, tokens, founders, crossed, begun>>

\* SELECT ... FOR UPDATE waits for the row and tests it again.
ResetSelect(r) ==
    /\ At(r, "reset")
    /\ LET t == TheToken(r)
       IN  /\ tokens[t].holder = Nobody
           /\ IF tokens[t].live
                THEN tokens' = [tokens EXCEPT ![t].holder = r] /\ GoTo(r, "commit")
                ELSE Finish(r) /\ UNCHANGED tokens
    /\ UNCHANGED <<installed, users, sessions, founders, crossed, begun>>

\* Mutant: the sessions of the account survive its new password.
ResetKeepSessions(r) ==
    /\ At(r, "commit")
    /\ LET t == TheToken(r)
           u == tokens[t].user
       IN  /\ users' = [users EXCEPT ![u].password = requests[r].row.password]
           /\ tokens' = [tokens EXCEPT ![t].live = FALSE, ![t].holder = Nobody,
                           ![t].uses = @ + 1]
    /\ Finish(r)
    /\ UNCHANGED <<installed, sessions, founders, crossed, begun>>

ResetCommit(r) ==
    /\ At(r, "commit")
    /\ LET t == TheToken(r)
           u == tokens[t].user
       IN  /\ users' = [users EXCEPT ![u].password = requests[r].row.password]
           /\ tokens' = [tokens EXCEPT ![t].live = FALSE, ![t].holder = Nobody,
                           ![t].uses = @ + 1]
           /\ sessions' = SessionsWithout(u)
    /\ Finish(r)
    /\ UNCHANGED <<installed, founders, crossed, begun>>

TokenExpires(t) ==
    /\ tokens[t].live
    /\ tokens' = [tokens EXCEPT ![t].live = FALSE]
    /\ UNCHANGED <<installed, users, sessions, requests, founders, crossed, begun>>

\* An hour has passed since the token was issued.
TokenAges(t) ==
    /\ tokens[t].recent
    /\ tokens' = [tokens EXCEPT ![t].recent = FALSE]
    /\ UNCHANGED <<installed, users, sessions, requests, founders, crossed, begun>>

-----------------------------------------------------------------------------
(* A statement fails or a service dies: the handler ends where it is, an   *)
(* open transaction is rolled back and gives up its row lock.              *)
RequestFails(r) ==
    /\ ~At(r, "idle")
    /\ tokens' = [t \in TokenIds |->
                    IF tokens[t].holder = r THEN [tokens[t] EXCEPT !.holder = Nobody]
                    ELSE tokens[t]]
    /\ sessions' = [s \in SessionIds |->
                      IF At(r, "update_revoke") /\ sessions[s].user = requests[r].user
                        THEN [sessions[s] EXCEPT !.excused = TRUE]
                        ELSE sessions[s]]
    /\ Finish(r)
    /\ UNCHANGED <<installed, users, founders, crossed, begun>>

Next ==
    \/ \E r \in Requests, u \in People, p \in Passwords :
          \/ Initialize(r, u, p) \/ Register(r, u, p) \/ Login(r, u, p)
    \/ \E r \in Requests, admin \in People, role \in Roles, status \in Statuses :
          \/ \E group \in SUBSET People : ImportUsers(r, admin, group, role, status)
          \/ \E u \in People : UpdateUser(r, admin, u, role, status)
    \/ \E r \in Requests, u \in People :
          \/ ForgotPassword(r, u)
          \/ \E admin \in People : SendReset(r, admin, u)
    \/ \E r \in Requests, t \in TokenIds, p \in Passwords : ResetPassword(r, t, p)
    \/ \E r \in Requests :
          \/ InitializeCommit(r) \/ RegisterCommit(r) \/ ImportCommit(r) \/ OpenSession(r)
          \/ UpdateWrite(r) \/ UpdateRevoke(r)
          \/ CountRequests(r) \/ IssueSnapshot(r) \/ IssueStore(r)
          \/ ResetSelect(r) \/ ResetCommit(r)
          \/ RequestFails(r)
    \/ \E s \in SessionIds : SessionEnds(s)
    \/ \E t \in TokenIds : TokenExpires(t) \/ TokenAges(t)

Spec == Init /\ [][Next]_vars

-----------------------------------------------------------------------------
TypeOK ==
    /\ installed \in BOOLEAN
    /\ users \in [People -> UserRows]
    /\ sessions \in [SessionIds -> SessionRows]
    /\ tokens \in [TokenIds -> TokenRows]
    /\ requests \in [Requests -> Jobs]
    /\ begun \in 0..MaxRequests
    /\ founders \subseteq People
    /\ crossed \in BOOLEAN

\* A reset link changes a password once, however many clients open it at the
\* same moment (storage/mod.rs 566: SELECT ... FOR UPDATE).
ResetLinksWorkOnce == \A t \in TokenIds : tokens[t].uses <= 1

\* The revocation of u's sessions is the next statement of some handler.
RevocationPending(u) ==
    \E r \in Requests : At(r, "update_revoke") /\ requests[r].user = u

\* A session proves the password its account has now, and its account is not
\* suspended: resets and suspensions take the sessions that exist with them.
\* The exceptions are named: a login that overlapped the change, an update that
\* failed half way, and the moment before the second statement of an update.
SessionsFollowAccounts ==
    \A s \in SessionIds :
        LET u == sessions[s].user
        IN  u # Nobody /\ ~sessions[s].excused =>
                /\ sessions[s].password = users[u].password
                /\ users[u].status = "active" \/ RevocationPending(u)

\* The setup happens once: however many setup requests race, one account is
\* its founder, and the system counts as installed exactly from then on.
OneFounder ==
    /\ \A u, v \in founders : u = v
    /\ installed <=> founders # {}

\* A system that has an active administrator keeps one, although no statement
\* counts them: administrators cannot edit themselves.  (Two who suspend each
\* other at the same moment are the exception, `crossed'.)
AdministratorRemains ==
    [][(\E u \in People : IsActiveAdmin(u)) /\ ~crossed'
         => \E u \in People : IsActiveAdmin(u)']_vars

\* The public requests of an hour exceed the limit by no more than the other
\* requests that were counted at the same time.
Issuing(u) == {r \in Requests : /\ requests[r].user = u /\ requests[r].public
                                /\ requests[r].step \in {"issue", "store"}}
ResetRequestsAreLimited ==
    \A u \in People :
        Cardinality({t \in RecentTokens(u) : tokens[t].public}) + Cardinality(Issuing(u))
            <= ResetLimit - 1 + Cardinality(Requests)

\* Reset links are few, and each is used once.
ResetLinksAreBounded == ResetLinksWorkOnce /\ ResetRequestsAreLimited
=============================================================================
