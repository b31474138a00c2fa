---------------------------- MODULE MeetingRooms ----------------------------
(***************************************************************************)
(* Rooms, memberships and who may read a room's records (server/src/api.rs,*)
(* api/exports.rs, authorize_media in lib.rs, storage/mod.rs).             *)
(*                                                                         *)
(* A handler is a task that reads the room, then reads it again together   *)
(* with the membership, then reads the records; other handlers run in      *)
(* between.  Names, languages, searches and pages are left out, and so are *)
(* the live connections of a room with their mutes (RoomHub) and the login *)
(* (Accounts).                                                             *)
(***************************************************************************)
EXTENDS Naturals, FiniteSets

CONSTANTS
    Rooms, Users,
    Admins,         \* users whose role is admin
    Tasks,          \* handlers that run at the same time
    NoOwner

ASSUME RoomsAssumption == Admins \subseteq Users /\ NoOwner \notin Users

VARIABLES
    rooms,          \* table rooms; owner NoOwner: no such row
    members,        \* table room_members
    tasks,
    seen            \* history: what was true at some moment since a task began
roomVars == <<rooms, members, tasks, seen>>

RoomStatuses == {"active", "ended", "archived"}
RoomRows == [owner : Users \cup {NoOwner}, status : RoomStatuses, deleted : BOOLEAN]

MemberKinds == {"list", "detail", "history", "export", "media", "join", "create", "update"}
AdminKinds  == {"inspect", "status"}
TaskKinds   == MemberKinds \cup AdminKinds
TaskSteps   == {"idle", "asked", "view", "membership", "insert", "records", "answered"}
Facts       == {"present", "member", "open", "unarchived"}
Resting     == [at |-> "idle", kind |-> "list", user |-> NoOwner, room |-> NoOwner]

RoomsInit ==
    /\ rooms = [r \in Rooms |-> [owner |-> NoOwner, status |-> "active", deleted |-> FALSE]]
    /\ members = [r \in Rooms |-> {}]
    /\ tasks = [t \in Tasks |-> Resting]
    /\ seen = [t \in Tasks |-> {}]

\* get_room: deleted rows are not found.
Found(r) == rooms[r].owner # NoOwner /\ ~rooms[r].deleted

Go(t, at) == tasks' = [tasks EXCEPT ![t].at = at]
Turn(t)   == tasks' = [tasks EXCEPT ![t] = Resting]       \* refused, or failed
OnlyTasks == UNCHANGED <<rooms, members>>

Ask(t, kind, u, r) ==
    /\ tasks[t] = Resting
    /\ kind \in AdminKinds => u \in Admins            \* require_admin
    /\ tasks' = [tasks EXCEPT ![t] = [at |-> "asked", kind |-> kind, user |-> u, room |-> r]]
    /\ OnlyTasks

-----------------------------------------------------------------------------
(* The first statement of each handler.                                    *)

\* create_room inserts the room and, in another statement, its owner.
CreateRoom(t) ==
    LET r == tasks[t].room
    IN  /\ tasks[t].at = "asked" /\ tasks[t].kind = "create"
        /\ rooms[r].owner = NoOwner                     \* a new id
        /\ rooms' = [rooms EXCEPT ![r].owner = tasks[t].user]
        /\ Go(t, "insert")
        /\ UNCHANGED members

\* Mutant: the status of the room is left to the page.
ReadAnyRoom(t) ==
    LET r == tasks[t].room
        kind == tasks[t].kind
    IN  /\ tasks[t].at = "asked" /\ kind \in {"detail", "history", "export", "join", "inspect"}
        /\ IF ~Found(r) THEN Turn(t)
           ELSE Go(t, CASE kind = "join" -> "insert" [] kind = "inspect" -> "records"
                        [] OTHER -> "view")
        /\ OnlyTasks

\* An archived room is hidden from its members; only an active one is joined.
ReadRoom(t) ==
    LET r == tasks[t].room
        kind == tasks[t].kind
        Accepts == CASE kind = "join"    -> rooms[r].status = "active"
                     [] kind = "inspect" -> TRUE
                     [] OTHER            -> rooms[r].status # "archived"
    IN  /\ tasks[t].at = "asked" /\ kind \in {"detail", "history", "export", "join", "inspect"}
        /\ IF ~(Found(r) /\ Accepts) THEN Turn(t)
           ELSE Go(t, CASE kind = "join" -> "insert" [] kind = "inspect" -> "records"
                        [] OTHER -> "view")
        /\ OnlyTasks

\* media_room_for_url finds the room of a file, deleted or not.
FindMedia(t) ==
    /\ tasks[t].at = "asked" /\ tasks[t].kind = "media"
    /\ IF rooms[tasks[t].room].owner = NoOwner THEN Turn(t)
       ELSE Go(t, IF tasks[t].user \in Admins THEN "records" ELSE "view")
    /\ OnlyTasks

\* list_rooms selects the rooms, then summarises one after the other.
ListRooms(t) ==
    LET r == tasks[t].room
    IN  /\ tasks[t].at = "asked" /\ tasks[t].kind = "list"
        /\ IF /\ Found(r) /\ rooms[r].status # "archived"
              /\ tasks[t].user = rooms[r].owner \/ tasks[t].user \in members[r]
             THEN Go(t, "records") ELSE Turn(t)
        /\ OnlyTasks

\* One conditional UPDATE each; the live room is not told of a deletion.
UpdateRoom(t) ==
    LET r == tasks[t].room
    IN  /\ tasks[t].at = "asked" /\ tasks[t].kind = "update"
        /\ IF Found(r) /\ rooms[r].owner = tasks[t].user THEN Go(t, "records") ELSE Turn(t)
        /\ OnlyTasks

DeleteRoom(u, r) ==
    /\ Found(r) /\ rooms[r].owner = u
    /\ rooms' = [rooms EXCEPT ![r].deleted = TRUE]
    /\ UNCHANGED <<members, tasks>>

UpdateStatus(t, status) ==
    LET r == tasks[t].room
    IN  /\ tasks[t].at = "asked" /\ tasks[t].kind = "status"
        /\ IF Found(r)
             THEN rooms' = [rooms EXCEPT ![r].status = status] /\ Go(t, "records")
             ELSE Turn(t) /\ UNCHANGED rooms
        /\ UNCHANGED members

-----------------------------------------------------------------------------
(* The statements that follow.                                             *)

\* can_view_room: the room, and for others than its owner the membership.
CheckView(t) ==
    LET r == tasks[t].room
    IN  /\ tasks[t].at = "view"
        /\ IF ~Found(r) THEN Turn(t)
           ELSE Go(t, IF rooms[r].owner = tasks[t].user THEN "records" ELSE "membership")
        /\ OnlyTasks

CheckMembership(t) ==
    /\ tasks[t].at = "membership"
    /\ IF tasks[t].user \in members[tasks[t].room] THEN Go(t, "records") ELSE Turn(t)
    /\ OnlyTasks

\* INSERT ... ON CONFLICT DO NOTHING: a row that exists keeps its flag.
InsertMember(t) ==
    LET r == tasks[t].room
    IN  /\ tasks[t].at = "insert"
        /\ members' = [members EXCEPT ![r] = @ \cup {tasks[t].user}]
        /\ Go(t, "records")
        /\ UNCHANGED rooms

\* The records are read by the id of the room; list_room_members, in the two
\* handlers that show members, looks for the room once more.
ReadRecords(t) ==
    /\ tasks[t].at = "records"
    /\ IF tasks[t].kind \in {"detail", "inspect"} /\ ~Found(tasks[t].room)
         THEN Turn(t) ELSE Go(t, "answered")
    /\ OnlyTasks

\* The answer is sent; a statement fails; or the client is gone and its handler
\* with it, between two statements.
EndTask(t) ==
    /\ tasks[t].at # "idle"
    /\ Turn(t)
    /\ OnlyTasks

-----------------------------------------------------------------------------
\* History: what the tables have said since a task began.
Observed(t) ==
    LET r == tasks'[t].room
        u == tasks'[t].user
        Present == rooms'[r].owner # NoOwner /\ ~rooms'[r].deleted
    IN  (IF Present THEN {"present"} ELSE {})
        \cup (IF u = rooms'[r].owner \/ u \in members'[r] THEN {"member"} ELSE {})
        \cup (IF Present /\ rooms'[r].status = "active" THEN {"open"} ELSE {})
        \cup (IF Present /\ rooms'[r].status # "archived" THEN {"unarchived"} ELSE {})
Witness ==
    seen' = [t \in Tasks |-> IF tasks'[t] = Resting THEN {} ELSE seen[t] \cup Observed(t)]

RoomsStep ==
    \/ \E t \in Tasks :
          \/ \E kind \in TaskKinds, u \in Users, r \in Rooms : Ask(t, kind, u, r)
          \/ CreateRoom(t) \/ ReadRoom(t) \/ FindMedia(t) \/ ListRooms(t) \/ UpdateRoom(t)
          \/ \E status \in RoomStatuses : UpdateStatus(t, status)
          \/ CheckView(t) \/ CheckMembership(t) \/ InsertMember(t) \/ ReadRecords(t)
          \/ EndTask(t)
    \/ \E u \in Users, r \in Rooms : DeleteRoom(u, r)
RoomsNext == RoomsStep /\ Witness
RoomsSpec == RoomsInit /\ [][RoomsNext]_roomVars

-----------------------------------------------------------------------------
RoomsTypeOK ==
    /\ rooms \in [Rooms -> RoomRows]
    /\ members \in [Rooms -> SUBSET Users]
    /\ tasks \in [Tasks -> [at : TaskSteps, kind : TaskKinds, user : Users \cup {NoOwner},
                            room : Rooms \cup {NoOwner}]]
    /\ seen \in [Tasks -> SUBSET Facts]

\* Summaries, histories, exports and recordings go to others than
\* administrators only if, while the handler ran, the room was not deleted, its
\* user was the owner or a member, and for a room's pages it was not archived.
\* Each held at some moment; a join that was under way may have made the user a
\* member only after the deletion, so they need not have held together.
ContentIsForMembers ==
    \A t \in Tasks :
        tasks[t].at = "answered" /\ tasks[t].kind \notin AdminKinds =>
            \/ tasks[t].kind = "media" /\ tasks[t].user \in Admins
            \/ /\ {"present", "member"} \subseteq seen[t]
               /\ tasks[t].kind \in {"list", "detail", "history", "export"} =>
                      "unarchived" \in seen[t]

\* A user other than the owner becomes a member only by a request during which
\* the room was active, though it may have ended before the row is written.
JoinsNeedOpenRooms ==
    [][\A r \in Rooms : \A u \in members'[r] \ members[r] :
          \E t \in Tasks :
              /\ tasks[t].user = u /\ tasks[t].room = r /\ tasks[t].at = "insert"
              /\ rooms[r].owner = u \/ "open" \in seen[t]]_roomVars

\* Rooms are entered while they are open, and their content is for members.
RoomsAreForMembers == JoinsNeedOpenRooms /\ []ContentIsForMembers
=============================================================================
