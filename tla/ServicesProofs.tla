--------------------------- MODULE ServicesProofs ---------------------------
(***************************************************************************)
(* Proofs about the services around a room: its API (MeetingRooms), the    *)
(* stored files (MediaFiles), the choice of engines (EngineControl) and the *)
(* language policy a session loads and applies (Lexicons), for any users,  *)
(* rooms, files, engines, dictionaries, texts and handlers.                *)
(***************************************************************************)
EXTENDS MeetingRooms, MediaFiles, EngineControl, Lexicons, FiniteSetTheorems,
        SequenceTheorems, WellFoundedInduction, TLAPS

-----------------------------------------------------------------------------
(* MeetingRooms: who is answered, from what its handler has seen.          *)

TaskRows  == [at : TaskSteps, kind : TaskKinds, user : Users \cup {NoOwner},
              room : Rooms \cup {NoOwner}]
Asking(t) == tasks[t].user \in Users /\ tasks[t].room \in Rooms /\ tasks[t].at # "idle"

\* What a handler has seen of its room before it may answer.
PageKinds == {"detail", "history", "export"}
Granted(t) ==
    \/ tasks[t].kind \in AdminKinds
    \/ tasks[t].kind = "media" /\ tasks[t].user \in Admins
    \/ /\ {"present", "member"} \subseteq seen[t]
       /\ tasks[t].kind \in {"list"} \cup PageKinds => "unarchived" \in seen[t]

\* What it has seen by the statement it comes to.
Learned(t) ==
    /\ tasks[t].at \in {"view", "membership"} =>
          \/ tasks[t].kind = "media"
          \/ tasks[t].kind \in PageKinds /\ "unarchived" \in seen[t]
    /\ tasks[t].at = "membership" => "present" \in seen[t]
    /\ tasks[t].at = "insert" =>
          \/ tasks[t].kind = "join" /\ {"present", "open"} \subseteq seen[t]
          \/ /\ tasks[t].kind = "create" /\ rooms[tasks[t].room].owner = tasks[t].user
             /\ {"present", "member"} \subseteq seen[t]
    /\ tasks[t].at \in {"records", "answered"} => Granted(t)

Knows(t) == tasks[t] = Resting \/ (Asking(t) /\ Learned(t))

RoomsInv ==
    /\ RoomsTypeOK
    /\ \A r \in Rooms : rooms[r].owner = NoOwner => ~rooms[r].deleted
    /\ \A t \in Tasks : Knows(t)

-----------------------------------------------------------------------------
(* What the operators on tasks and histories do.                           *)

LEMMA RestingIs ==
    Resting \in TaskRows /\ Resting.at = "idle" /\ Resting.user = NoOwner
BY DEF Resting, TaskRows, TaskSteps, TaskKinds, MemberKinds

LEMMA GoFacts ==
    ASSUME RoomsTypeOK, NEW t \in Tasks, NEW at \in TaskSteps, Go(t, at)
    PROVE  /\ tasks' \in [Tasks -> TaskRows] /\ tasks'[t].at = at
           /\ tasks'[t].kind = tasks[t].kind /\ tasks'[t].user = tasks[t].user
           /\ tasks'[t].room = tasks[t].room
           /\ \A x \in Tasks \ {t} : tasks'[x] = tasks[x]
<1> DEFINE new == [tasks[t] EXCEPT !.at = at]
<1>1. tasks \in [Tasks -> TaskRows] /\ tasks[t] \in TaskRows
  BY DEF RoomsTypeOK, TaskRows
<1>2. /\ new \in TaskRows /\ new.at = at
      /\ new.kind = tasks[t].kind /\ new.user = tasks[t].user /\ new.room = tasks[t].room
  BY <1>1 DEF TaskRows
<1>3. tasks' = [tasks EXCEPT ![t] = new]
  BY <1>1, Zenon DEF Go
<1> HIDE DEF new
<1> QED
  BY <1>1, <1>2, <1>3

LEMMA TurnFacts ==
    ASSUME RoomsTypeOK, NEW t \in Tasks, Turn(t)
    PROVE  /\ tasks' \in [Tasks -> TaskRows] /\ tasks'[t] = Resting
           /\ \A x \in Tasks \ {t} : tasks'[x] = tasks[x]
<1>1. tasks \in [Tasks -> TaskRows]
  BY DEF RoomsTypeOK, TaskRows
<1> QED
  BY <1>1, RestingIs DEF Turn

\* A handler that is under way has seen what the tables say now, and forgets
\* nothing.
LEMMA SeenFacts ==
    ASSUME Witness, NEW t \in Tasks, tasks'[t].at # "idle"
    PROVE  LET r == tasks'[t].room
               u == tasks'[t].user
           IN  /\ seen[t] \subseteq seen'[t]
               /\ rooms'[r].owner # NoOwner /\ ~rooms'[r].deleted => "present" \in seen'[t]
               /\ u = rooms'[r].owner \/ u \in members'[r] => "member" \in seen'[t]
               /\ (/\ rooms'[r].owner # NoOwner /\ ~rooms'[r].deleted
                   /\ rooms'[r].status = "active") => "open" \in seen'[t]
               /\ (/\ rooms'[r].owner # NoOwner /\ ~rooms'[r].deleted
                   /\ rooms'[r].status # "archived") => "unarchived" \in seen'[t]
<1>1. tasks'[t] # Resting
  BY RestingIs
<1>2. seen'[t] = seen[t] \cup Observed(t)
  BY <1>1 DEF Witness
<1> DEFINE r == tasks'[t].room
           u == tasks'[t].user
<1>3. rooms'[r].owner # NoOwner /\ ~rooms'[r].deleted => "present" \in Observed(t)
  BY DEF Observed
<1>4. u = rooms'[r].owner \/ u \in members'[r] => "member" \in Observed(t)
  BY DEF Observed
<1>5. (/\ rooms'[r].owner # NoOwner /\ ~rooms'[r].deleted
       /\ rooms'[r].status = "active") => "open" \in Observed(t)
  BY DEF Observed
<1>6. (/\ rooms'[r].owner # NoOwner /\ ~rooms'[r].deleted
       /\ rooms'[r].status # "archived") => "unarchived" \in Observed(t)
  BY DEF Observed
<1> QED
  BY <1>2, <1>3, <1>4, <1>5, <1>6

LEMMA SeenTyped == ASSUME RoomsTypeOK, Witness PROVE seen' \in [Tasks -> SUBSET Facts]
<1>1. \A t \in Tasks : Observed(t) \subseteq Facts
  BY DEF Observed, Facts
<1>2. seen \in [Tasks -> SUBSET Facts]
  BY DEF RoomsTypeOK
<1> QED
  BY <1>1, <1>2 DEF Witness

\* An owner stays: rows are only marked as deleted.
OwnersStay == \A r \in Rooms : rooms[r].owner # NoOwner => rooms'[r].owner = rooms[r].owner

LEMMA OthersKnow ==
    ASSUME Witness, OwnersStay, NEW t \in Tasks, Knows(t), tasks'[t] = tasks[t]
    PROVE  Knows(t)'
<1>1. CASE tasks[t] = Resting
  BY <1>1 DEF Knows
<1>2. CASE Asking(t) /\ Learned(t)
  <2>1. tasks'[t].at # "idle" /\ tasks[t].room \in Rooms /\ tasks[t].user # NoOwner
    BY <1>2, RoomsAssumption DEF Asking
  <2>2. seen[t] \subseteq seen'[t]
    BY <2>1, SeenFacts
  <2>3. rooms[tasks[t].room].owner = tasks[t].user =>
           rooms'[tasks[t].room].owner = tasks[t].user
    BY <2>1 DEF OwnersStay
  <2> QED
    BY <1>2, <2>2, <2>3 DEF Knows, Asking, Learned, Granted
<1> QED
  BY <1>1, <1>2 DEF Knows

\* What a step of one handler has to show.
LEMMA TaskStep ==
    ASSUME RoomsInv, Witness, NEW t \in Tasks,
           tasks' \in [Tasks -> TaskRows], \A x \in Tasks \ {t} : tasks'[x] = tasks[x],
           rooms' \in [Rooms -> RoomRows], members' \in [Rooms -> SUBSET Users], OwnersStay,
           \A r \in Rooms : rooms'[r].owner = NoOwner => ~rooms'[r].deleted,
           Knows(t)'
    PROVE  RoomsInv'
<1>1. RoomsTypeOK'
  BY SeenTyped DEF RoomsInv, RoomsTypeOK, TaskRows
<1>2. \A x \in Tasks : Knows(x)'
  BY OthersKnow DEF RoomsInv
<1> QED
  BY <1>1, <1>2 DEF RoomsInv

LEMMA TaskTurns ==
    ASSUME RoomsInv, Witness, NEW t \in Tasks, Turn(t), OnlyTasks
    PROVE  RoomsInv'
<1>1. Knows(t)' /\ OwnersStay
  BY TurnFacts DEF RoomsInv, Knows, OwnersStay, OnlyTasks
<1>2. rooms' = rooms /\ members' = members
  BY DEF OnlyTasks
<1> QED
  BY <1>1, <1>2, TurnFacts, TaskStep DEF RoomsInv, RoomsTypeOK

\* A handler that goes on, with the tables as they are.
LEMMA TaskGoes ==
    ASSUME RoomsInv, Witness, NEW t \in Tasks, NEW at \in TaskSteps, Go(t, at), OnlyTasks,
           Knows(t)'
    PROVE  RoomsInv'
<1>1. OwnersStay /\ rooms' = rooms /\ members' = members
  BY DEF OwnersStay, OnlyTasks
<1> QED
  BY <1>1, GoFacts, TaskStep DEF RoomsInv, RoomsTypeOK

LEMMA UnderWay ==
    ASSUME RoomsInv, NEW t \in Tasks, tasks[t].at # "idle"
    PROVE  /\ Asking(t) /\ Learned(t) /\ tasks[t].kind \in TaskKinds
           /\ tasks[t].user # NoOwner /\ rooms[tasks[t].room] \in RoomRows
BY RestingIs, RoomsAssumption DEF RoomsInv, Knows, Asking, RoomsTypeOK

\* Going on, a handler has what it had and what it sees now.
LEMMA GoesWith ==
    ASSUME RoomsInv, Witness, NEW t \in Tasks, tasks[t].at # "idle",
           NEW at \in TaskSteps \ {"idle"}, Go(t, at), OnlyTasks
    PROVE  LET r == tasks[t].room
               u == tasks[t].user
           IN  /\ Asking(t)' /\ tasks'[t].at = at /\ tasks'[t].kind = tasks[t].kind
               /\ tasks'[t].user = u /\ tasks'[t].room = r
               /\ seen[t] \subseteq seen'[t]
               /\ Found(r) => "present" \in seen'[t]
               /\ u = rooms[r].owner \/ u \in members[r] => "member" \in seen'[t]
               /\ Found(r) /\ rooms[r].status = "active" => "open" \in seen'[t]
               /\ Found(r) /\ rooms[r].status # "archived" => "unarchived" \in seen'[t]
<1> DEFINE r == tasks[t].room
           u == tasks[t].user
<1>1. /\ tasks'[t].at = at /\ tasks'[t].kind = tasks[t].kind
      /\ tasks'[t].user = u /\ tasks'[t].room = r
  BY GoFacts DEF RoomsInv
<1>2. Asking(t)'
  BY <1>1, UnderWay DEF Asking
<1>3. rooms' = rooms /\ members' = members
  BY DEF OnlyTasks
<1> QED
  BY <1>1, <1>2, <1>3, SeenFacts DEF Found

-----------------------------------------------------------------------------
(* One lemma for each step of a handler.                                   *)

LEMMA AskKnows ==
    ASSUME RoomsInv, Witness, NEW t \in Tasks, NEW kind \in TaskKinds, NEW u \in Users,
           NEW r \in Rooms, Ask(t, kind, u, r)
    PROVE  RoomsInv'
<1> DEFINE new == [at |-> "asked", kind |-> kind, user |-> u, room |-> r]
<1>1. new \in TaskRows /\ new.at = "asked" /\ new.user = u /\ new.room = r
  BY DEF TaskRows, TaskSteps
<1>2. tasks' = [tasks EXCEPT ![t] = new] /\ UNCHANGED <<rooms, members>>
  BY DEF Ask, OnlyTasks
<1> HIDE DEF new
<1>3. tasks \in [Tasks -> TaskRows]
  BY DEF RoomsInv, RoomsTypeOK, TaskRows
<1>4. /\ tasks' \in [Tasks -> TaskRows] /\ tasks'[t] = new
      /\ \A x \in Tasks \ {t} : tasks'[x] = tasks[x]
  BY <1>1, <1>2, <1>3
<1>5. Knows(t)'
  BY <1>1, <1>4 DEF Knows, Asking, Learned
<1> QED
  BY <1>2, <1>4, <1>5, TaskStep DEF RoomsInv, RoomsTypeOK, OwnersStay

LEMMA CreateKnows ==
    ASSUME RoomsInv, Witness, NEW t \in Tasks, CreateRoom(t)
    PROVE  RoomsInv'
<1> DEFINE r == tasks[t].room
           u == tasks[t].user
<1>1. /\ r \in Rooms /\ u \in Users /\ u # NoOwner /\ rooms[r].owner = NoOwner
      /\ tasks[t].kind = "create" /\ tasks[t].at # "idle" /\ Asking(t)
  BY UnderWay DEF CreateRoom, Asking
<1>2. "insert" \in TaskSteps /\ Go(t, "insert")
  BY DEF CreateRoom, TaskSteps
<1> DEFINE new == [rooms[r] EXCEPT !.owner = u]
<1>3. rooms[r] \in RoomRows /\ ~rooms[r].deleted
  BY <1>1 DEF RoomsInv, RoomsTypeOK
<1>12. new \in RoomRows /\ new.owner = u /\ ~new.deleted
  BY <1>1, <1>3 DEF RoomRows
<1>4. rooms' = [rooms EXCEPT ![r] = new] /\ members' = members
  BY Zenon DEF CreateRoom
<1> HIDE DEF new
<1>5. rooms \in [Rooms -> RoomRows] /\ members \in [Rooms -> SUBSET Users]
  BY DEF RoomsInv, RoomsTypeOK
<1>6. /\ rooms' \in [Rooms -> RoomRows] /\ rooms'[r] = new
      /\ \A x \in Rooms \ {r} : rooms'[x] = rooms[x]
  BY <1>1, <1>4, <1>5, <1>12
<1>7. /\ tasks'[t].at = "insert" /\ tasks'[t].kind = "create" /\ tasks'[t].user = u
      /\ tasks'[t].room = r
  BY <1>1, <1>2, GoFacts DEF RoomsInv
<1>8. {"present", "member"} \subseteq seen'[t]
  BY <1>1, <1>12, <1>6, <1>7, SeenFacts
<1>9. Knows(t)'
  BY <1>1, <1>12, <1>6, <1>7, <1>8 DEF Knows, Asking, Learned
<1>10. OwnersStay /\ \A x \in Rooms : rooms'[x].owner = NoOwner => ~rooms'[x].deleted
  BY <1>1, <1>12, <1>6 DEF OwnersStay, RoomsInv
<1>11. tasks' \in [Tasks -> TaskRows] /\ \A x \in Tasks \ {t} : tasks'[x] = tasks[x]
  BY <1>2, GoFacts DEF RoomsInv
<1> QED
  BY <1>4, <1>5, <1>6, <1>9, <1>10, <1>11, TaskStep

LEMMA ReadKnows ==
    ASSUME RoomsInv, Witness, NEW t \in Tasks, ReadRoom(t)
    PROVE  RoomsInv'
<1> DEFINE r == tasks[t].room
           kind == tasks[t].kind
           next == IF kind = "join" THEN "insert" ELSE IF kind = "inspect" THEN "records" ELSE "view"
<1>1. /\ kind \in PageKinds \cup {"join", "inspect"} /\ OnlyTasks /\ tasks[t].at # "idle"
      /\ \/ Turn(t)
         \/ /\ Go(t, next) /\ Found(r)
            /\ kind = "join" => rooms[r].status = "active"
            /\ kind \in PageKinds => rooms[r].status # "archived"
  BY DEF ReadRoom, PageKinds
<1>2. CASE Turn(t)
  BY <1>1, <1>2, TaskTurns
<1>3. CASE ~Turn(t)
  <2>1. next \in TaskSteps \ {"idle"}
    BY DEF TaskSteps
  <2> HIDE DEF next
  <2>2. /\ Asking(t)' /\ tasks'[t].at = next /\ tasks'[t].kind = kind
        /\ "present" \in seen'[t]
        /\ kind = "join" => "open" \in seen'[t]
        /\ kind \in PageKinds => "unarchived" \in seen'[t]
    BY <1>1, <1>3, <2>1, GoesWith
  <2>3. Learned(t)'
    BY <1>1, <2>2 DEF next, Learned, Granted, PageKinds, AdminKinds
  <2> QED
    BY <1>1, <1>3, <2>1, <2>2, <2>3, TaskGoes DEF Knows
<1> QED
  BY <1>2, <1>3

LEMMA FindKnows ==
    ASSUME RoomsInv, Witness, NEW t \in Tasks, FindMedia(t)
    PROVE  RoomsInv'
<1> DEFINE next == IF tasks[t].user \in Admins THEN "records" ELSE "view"
<1>1. /\ tasks[t].kind = "media" /\ OnlyTasks /\ tasks[t].at # "idle"
      /\ (Turn(t) \/ Go(t, next))
  BY DEF FindMedia
<1>2. CASE Turn(t)
  BY <1>1, <1>2, TaskTurns
<1>3. CASE Go(t, next)
  <2>1. next \in TaskSteps \ {"idle"}
    BY DEF TaskSteps
  <2> HIDE DEF next
  <2>2. Asking(t)' /\ tasks'[t].at = next /\ tasks'[t].kind = "media" /\ tasks'[t].user = tasks[t].user
    BY <1>1, <1>3, <2>1, GoesWith
  <2>3. Learned(t)'
    BY <2>2 DEF next, Learned, Granted
  <2> QED
    BY <1>1, <1>3, <2>1, <2>2, <2>3, TaskGoes DEF Knows
<1> QED
  BY <1>1, <1>2, <1>3

\* A list, a title or a settings page of a room that the user is in.
LEMMA ListKnows ==
    ASSUME RoomsInv, Witness, NEW t \in Tasks, ListRooms(t) \/ UpdateRoom(t)
    PROVE  RoomsInv'
<1> DEFINE r == tasks[t].room
           u == tasks[t].user
<1>1. /\ tasks[t].kind \in {"list", "update"} /\ OnlyTasks /\ tasks[t].at # "idle"
      /\ \/ Turn(t)
         \/ /\ Go(t, "records") /\ Found(r) /\ (u = rooms[r].owner \/ u \in members[r])
            /\ tasks[t].kind = "list" => rooms[r].status # "archived"
  BY DEF ListRooms, UpdateRoom
<1>2. CASE Turn(t)
  BY <1>1, <1>2, TaskTurns
<1>3. CASE ~Turn(t)
  <2>1. "records" \in TaskSteps \ {"idle"}
    BY DEF TaskSteps
  <2>2. /\ Asking(t)' /\ tasks'[t].at = "records" /\ tasks'[t].kind = tasks[t].kind
        /\ {"present", "member"} \subseteq seen'[t]
        /\ tasks[t].kind = "list" => "unarchived" \in seen'[t]
    BY <1>1, <1>3, <2>1, GoesWith
  <2>3. Learned(t)'
    BY <1>1, <2>2 DEF Learned, Granted, PageKinds
  <2> QED
    BY <1>1, <1>3, <2>1, <2>2, <2>3, TaskGoes DEF Knows
<1> QED
  BY <1>2, <1>3

LEMMA StatusKnows ==
    ASSUME RoomsInv, Witness, NEW t \in Tasks, NEW status \in RoomStatuses, UpdateStatus(t, status)
    PROVE  RoomsInv'
<1> DEFINE r == tasks[t].room
<1>1. /\ r \in Rooms /\ tasks[t].kind = "status" /\ tasks[t].at # "idle" /\ Asking(t)
  BY UnderWay DEF UpdateStatus, Asking
<1>2. CASE ~Found(r)
  BY <1>2, TaskTurns DEF UpdateStatus, OnlyTasks
<1>3. CASE Found(r)
  <2>1. "records" \in TaskSteps /\ Go(t, "records") /\ members' = members
    BY <1>3 DEF UpdateStatus, TaskSteps
  <2> DEFINE new == [rooms[r] EXCEPT !.status = status]
  <2>10. rooms[r] \in RoomRows
    BY <1>1 DEF RoomsInv, RoomsTypeOK
  <2>2. new \in RoomRows /\ new.owner = rooms[r].owner /\ new.deleted = rooms[r].deleted
    BY <2>10 DEF RoomRows
  <2>3. rooms' = [rooms EXCEPT ![r] = new]
    BY <1>3, Zenon DEF UpdateStatus
  <2> HIDE DEF new
  <2>4. rooms \in [Rooms -> RoomRows] /\ members \in [Rooms -> SUBSET Users]
    BY DEF RoomsInv, RoomsTypeOK
  <2>5. /\ rooms' \in [Rooms -> RoomRows]
        /\ \A x \in Rooms : rooms'[x].owner = rooms[x].owner /\ rooms'[x].deleted = rooms[x].deleted
    BY <1>1, <2>2, <2>3, <2>4
  <2>6. /\ tasks'[t].at = "records" /\ tasks'[t].kind = "status"
        /\ tasks'[t].user = tasks[t].user /\ tasks'[t].room = r
    BY <1>1, <2>1, GoFacts DEF RoomsInv
  <2>7. Knows(t)'
    BY <1>1, <2>6 DEF Knows, Asking, Learned, Granted, AdminKinds
  <2>8. OwnersStay /\ \A x \in Rooms : rooms'[x].owner = NoOwner => ~rooms'[x].deleted
    BY <2>5 DEF OwnersStay, RoomsInv
  <2>9. tasks' \in [Tasks -> TaskRows] /\ \A x \in Tasks \ {t} : tasks'[x] = tasks[x]
    BY <2>1, GoFacts DEF RoomsInv
  <2> QED
    BY <2>1, <2>4, <2>5, <2>7, <2>8, <2>9, TaskStep
<1> QED
  BY <1>2, <1>3

LEMMA ViewKnows ==
    ASSUME RoomsInv, Witness, NEW t \in Tasks, CheckView(t)
    PROVE  RoomsInv'
<1> DEFINE r == tasks[t].room
           next == IF rooms[r].owner = tasks[t].user THEN "records" ELSE "membership"
<1>1. /\ OnlyTasks /\ tasks[t].at = "view" /\ (Turn(t) \/ (Go(t, next) /\ Found(r)))
      /\ \/ tasks[t].kind = "media"
         \/ tasks[t].kind \in PageKinds /\ "unarchived" \in seen[t]
  BY UnderWay DEF CheckView, Learned
<1>2. CASE Turn(t)
  BY <1>1, <1>2, TaskTurns
<1>3. CASE ~Turn(t)
  <2>1. next \in TaskSteps \ {"idle"}
    BY DEF TaskSteps
  <2> HIDE DEF next
  <2>2. /\ Asking(t)' /\ tasks'[t].at = next /\ tasks'[t].kind = tasks[t].kind
        /\ seen[t] \subseteq seen'[t] /\ "present" \in seen'[t]
        /\ rooms[r].owner = tasks[t].user => "member" \in seen'[t]
    BY <1>1, <1>3, <2>1, GoesWith
  <2>3. Learned(t)'
    BY <1>1, <2>2 DEF next, Learned, Granted, PageKinds
  <2> QED
    BY <1>1, <1>3, <2>1, <2>2, <2>3, TaskGoes DEF Knows
<1> QED
  BY <1>2, <1>3

LEMMA MembershipKnows ==
    ASSUME RoomsInv, Witness, NEW t \in Tasks, CheckMembership(t)
    PROVE  RoomsInv'
<1>1. /\ OnlyTasks /\ tasks[t].at = "membership" /\ "present" \in seen[t]
      /\ \/ Turn(t)
         \/ Go(t, "records") /\ tasks[t].user \in members[tasks[t].room]
      /\ \/ tasks[t].kind = "media"
         \/ tasks[t].kind \in PageKinds /\ "unarchived" \in seen[t]
  BY UnderWay DEF CheckMembership, Learned
<1>2. CASE Turn(t)
  BY <1>1, <1>2, TaskTurns
<1>3. CASE ~Turn(t)
  <2>1. "records" \in TaskSteps \ {"idle"}
    BY DEF TaskSteps
  <2>2. /\ Asking(t)' /\ tasks'[t].at = "records" /\ tasks'[t].kind = tasks[t].kind
        /\ seen[t] \subseteq seen'[t] /\ "member" \in seen'[t]
    BY <1>1, <1>3, <2>1, GoesWith
  <2>3. Learned(t)'
    BY <1>1, <2>2 DEF Learned, Granted, PageKinds
  <2> QED
    BY <1>1, <1>3, <2>1, <2>2, <2>3, TaskGoes DEF Knows
<1> QED
  BY <1>2, <1>3

LEMMA InsertKnows ==
    ASSUME RoomsInv, Witness, NEW t \in Tasks, InsertMember(t)
    PROVE  RoomsInv'
<1> DEFINE r == tasks[t].room
           u == tasks[t].user
<1>1. /\ r \in Rooms /\ u \in Users /\ Asking(t) /\ Go(t, "records") /\ rooms' = rooms
      /\ members' = [members EXCEPT ![r] = @ \cup {u}]
      /\ tasks[t].kind \in {"join", "create"} /\ "present" \in seen[t]
  BY UnderWay DEF InsertMember, Asking, Learned
<1>2. /\ members' \in [Rooms -> SUBSET Users] /\ u \in members'[r]
      /\ rooms' \in [Rooms -> RoomRows]
  BY <1>1 DEF RoomsInv, RoomsTypeOK
<1>3. "records" \in TaskSteps
  BY DEF TaskSteps
<1>4. /\ tasks'[t].at = "records" /\ tasks'[t].kind = tasks[t].kind
      /\ tasks'[t].user = u /\ tasks'[t].room = r
  BY <1>1, <1>3, GoFacts DEF RoomsInv
<1>5. {"present", "member"} \subseteq seen'[t]
  BY <1>1, <1>2, <1>4, SeenFacts
<1>6. Knows(t)'
  BY <1>1, <1>4, <1>5 DEF Knows, Asking, Learned, Granted, PageKinds
<1>7. OwnersStay /\ \A x \in Rooms : rooms'[x].owner = NoOwner => ~rooms'[x].deleted
  BY <1>1 DEF OwnersStay, RoomsInv
<1>8. tasks' \in [Tasks -> TaskRows] /\ \A x \in Tasks \ {t} : tasks'[x] = tasks[x]
  BY <1>1, <1>3, GoFacts DEF RoomsInv
<1> QED
  BY <1>2, <1>6, <1>7, <1>8, TaskStep

LEMMA RecordsKnow ==
    ASSUME RoomsInv, Witness, NEW t \in Tasks, ReadRecords(t)
    PROVE  RoomsInv'
<1>1. OnlyTasks /\ tasks[t].at = "records" /\ Granted(t) /\ (Turn(t) \/ Go(t, "answered"))
  BY UnderWay DEF ReadRecords, Learned
<1>2. CASE Turn(t)
  BY <1>1, <1>2, TaskTurns
<1>3. CASE ~Turn(t)
  <2>1. "answered" \in TaskSteps \ {"idle"}
    BY DEF TaskSteps
  <2>2. /\ Asking(t)' /\ tasks'[t].at = "answered" /\ tasks'[t].kind = tasks[t].kind
        /\ tasks'[t].user = tasks[t].user /\ seen[t] \subseteq seen'[t]
    BY <1>1, <1>3, <2>1, GoesWith
  <2>3. Learned(t)'
    BY <1>1, <2>2 DEF Learned, Granted
  <2> QED
    BY <1>1, <1>3, <2>1, <2>2, <2>3, TaskGoes DEF Knows
<1> QED
  BY <1>2, <1>3

\* A deletion is no step of a handler: it waits for nothing in between.
LEMMA DeleteKnows ==
    ASSUME RoomsInv, Witness, NEW u \in Users, NEW r \in Rooms, DeleteRoom(u, r)
    PROVE  RoomsInv'
<1>1. /\ rooms \in [Rooms -> RoomRows] /\ rooms[r].owner # NoOwner
      /\ UNCHANGED <<members, tasks>>
  BY DEF RoomsInv, RoomsTypeOK, DeleteRoom, Found
<1> DEFINE new == [rooms[r] EXCEPT !.deleted = TRUE]
<1>2. new \in RoomRows /\ new.owner = rooms[r].owner
  <2>1. rooms[r] \in RoomRows
    BY <1>1
  <2> QED
    BY <2>1 DEF RoomRows
<1>3. rooms' = [rooms EXCEPT ![r] = new]
  BY Zenon DEF DeleteRoom
<1> HIDE DEF new
<1>4. /\ rooms' \in [Rooms -> RoomRows]
      /\ \A x \in Rooms : /\ rooms'[x].owner = rooms[x].owner
                          /\ x # r => rooms'[x] = rooms[x]
  BY <1>1, <1>2, <1>3
<1>5. OwnersStay /\ \A x \in Rooms : rooms'[x].owner = NoOwner => ~rooms'[x].deleted
  BY <1>1, <1>4 DEF OwnersStay, RoomsInv
<1>6. RoomsTypeOK'
  BY <1>1, <1>4, SeenTyped DEF RoomsInv, RoomsTypeOK
<1>7. \A x \in Tasks : Knows(x)'
  BY <1>1, <1>5, OthersKnow DEF RoomsInv
<1> QED
  BY <1>5, <1>6, <1>7 DEF RoomsInv

-----------------------------------------------------------------------------
(* The invariant, and what it shows.                                       *)

LEMMA RoomsStart == RoomsInit => RoomsInv
<1> SUFFICES ASSUME RoomsInit PROVE RoomsInv
  OBVIOUS
<1>1. [owner |-> NoOwner, status |-> "active", deleted |-> FALSE] \in RoomRows
  BY DEF RoomRows, RoomStatuses
<1>2. RoomsTypeOK
  BY <1>1, RestingIs DEF RoomsInit, RoomsTypeOK, TaskRows
<1> QED
  BY <1>2 DEF RoomsInit, RoomsInv, Knows

LEMMA RoomsKeep == ASSUME RoomsInv, RoomsNext PROVE RoomsInv'
<1>1. Witness /\ RoomsStep
  BY DEF RoomsNext
<1>2. ASSUME NEW t \in Tasks, EndTask(t) PROVE RoomsInv'
  BY <1>1, <1>2, TaskTurns DEF EndTask
<1> QED
  BY <1>1, <1>2, AskKnows, CreateKnows, ReadKnows, FindKnows, ListKnows, StatusKnows, ViewKnows,
     MembershipKnows, InsertKnows, RecordsKnow, DeleteKnows DEF RoomsStep

LEMMA RoomsStutter == ASSUME RoomsInv, UNCHANGED roomVars PROVE RoomsInv'
BY DEF RoomsInv, RoomsTypeOK, Knows, Asking, Learned, Granted, roomVars

\* Whoever enters a room does so by the INSERT of a handler.
LEMMA EntriesAreAllowed ==
    ASSUME RoomsInv, RoomsNext, NEW r \in Rooms, NEW u \in members'[r] \ members[r]
    PROVE  \E t \in Tasks :
              /\ tasks[t].user = u /\ tasks[t].room = r /\ tasks[t].at = "insert"
              /\ rooms[r].owner = u \/ "open" \in seen[t]
<1>1. PICK t \in Tasks : InsertMember(t)
  BY DEF RoomsNext, RoomsStep, Ask, CreateRoom, ReadRoom, FindMedia, ListRooms, UpdateRoom,
         UpdateStatus, CheckView, CheckMembership, ReadRecords, EndTask, DeleteRoom, OnlyTasks
<1>2. /\ tasks[t].at = "insert" /\ Learned(t)
      /\ members' = [members EXCEPT ![tasks[t].room] = @ \cup {tasks[t].user}]
  BY <1>1, UnderWay DEF InsertMember
<1>3. tasks[t].room = r /\ tasks[t].user = u
  BY <1>2 DEF RoomsInv, RoomsTypeOK
<1> QED
  BY <1>2, <1>3 DEF Learned

(* A user enters a room while it is open, and the summaries, history,      *)
(* exports and recordings of a room go to its members and owner, however   *)
(* the handlers' statements interleave with joins, deletions and the       *)
(* administrators' changes.                                                *)
THEOREM RoomsStayWithMembers == RoomsSpec => RoomsAreForMembers
<1>1. RoomsInv /\ [RoomsNext]_roomVars => RoomsInv'
  BY RoomsKeep, RoomsStutter
<1>2. RoomsInv => ContentIsForMembers
  <2> SUFFICES ASSUME RoomsInv, NEW t \in Tasks, tasks[t].at = "answered",
                      tasks[t].kind \notin AdminKinds
               PROVE  \/ tasks[t].kind = "media" /\ tasks[t].user \in Admins
                      \/ /\ {"present", "member"} \subseteq seen[t]
                         /\ tasks[t].kind \in {"list", "detail", "history", "export"} =>
                               "unarchived" \in seen[t]
    BY DEF ContentIsForMembers
  <2> QED
    BY UnderWay DEF Learned, Granted, PageKinds
<1>3. RoomsInv /\ [RoomsNext]_roomVars =>
         [\A r \in Rooms : \A u \in members'[r] \ members[r] :
             \E t \in Tasks :
                 /\ tasks[t].user = u /\ tasks[t].room = r /\ tasks[t].at = "insert"
                 /\ rooms[r].owner = u \/ "open" \in seen[t]]_roomVars
  BY EntriesAreAllowed
<1> QED
  BY <1>1, <1>2, <1>3, RoomsStart, PTL DEF RoomsSpec, RoomsAreForMembers, JoinsNeedOpenRooms

-----------------------------------------------------------------------------
(* MediaFiles: a row leads to a whole file.                                *)

\* Where a file stands while its writer is at work, and what a reader that
\* found a row relies on: rows are marked, never removed, and only a file that has
\* no row, or whose INSERT was not answered, is removed.
FilesAreKept ==
    /\ \A f \in Files :
          /\ writer[f] \in {"published", "rejected"} => f \in whole
          /\ row[f] # "none" => f \in whole \/ f \in unanswered
          /\ writer[f] \notin {"rejected", "over"} => row[f] = "none"
          /\ writer[f] = "rejected" /\ row[f] # "none" => f \in unanswered
    /\ \A r \in Readers :
          /\ reader[r].at = "missing" => reader[r].file \in unanswered
          /\ reader[r].at = "found" => reader[r].file \in Files /\ row[reader[r].file] # "none"

MediaInv == MediaTypeOK /\ FilesAreKept /\ FilesHaveRows

LEMMA MediaStart == MediaInit => MediaInv
<1> SUFFICES ASSUME MediaInit PROVE MediaInv
  OBVIOUS
<1>1. MediaTypeOK
  BY DEF MediaInit, MediaTypeOK, WriterSteps, Files
<1>2. FilesAreKept
  BY DEF MediaInit, FilesAreKept
<1>3. FilesHaveRows
  BY DEF MediaInit, FilesHaveRows
<1> QED
  BY <1>1, <1>2, <1>3 DEF MediaInv

LEMMA MediaStep ==
    ASSUME MediaInv, [MediaNext]_mediaVars
    PROVE  MediaInv'
<1> USE MediaAssumption DEF MediaInv, MediaTypeOK, FilesAreKept, FilesHaveRows, WriterSteps,
                            Files, Step, KeepRest
<1>1. ASSUME NEW v \in Voices, CheckUpload(v)
      PROVE  MediaInv'
  <2>1. PICK at \in {"over", "checked"} : writer' = [writer EXCEPT ![v] = at]
    BY <1>1 DEF CheckUpload
  <2> QED
    BY <1>1, <2>1 DEF CheckUpload
<1>2. ASSUME NEW v \in Voices, DeleteVoice(v)
      PROVE  MediaInv'
  BY <1>2 DEF DeleteVoice
<1>3. ASSUME NEW f \in Files, WritePart(f)
      PROVE  MediaInv'
  BY <1>3 DEF WritePart
<1>4. ASSUME NEW f \in Files, Publish(f)
      PROVE  MediaInv'
  BY <1>4 DEF Publish
<1>5. ASSUME NEW f \in Files, StoreRow(f)
      PROVE  MediaInv'
  <2>1. CASE row' = [row EXCEPT ![f] = "live"] /\ writer' = [writer EXCEPT ![f] = "over"]
             /\ UNCHANGED <<litter, unanswered>>
    BY <1>5, <2>1 DEF StoreRow
  <2>2. CASE f \in Voices /\ writer' = [writer EXCEPT ![f] = "rejected"]
             /\ UNCHANGED <<row, litter, unanswered>>
    BY <1>5, <2>2 DEF StoreRow
  <2>3. CASE writer' = [writer EXCEPT ![f] = "over"] /\ litter' = litter \cup {f}
             /\ UNCHANGED <<row, unanswered>>
    BY <1>5, <2>3 DEF StoreRow
  <2>4. CASE f \in Voices /\ row' = [row EXCEPT ![f] = "live"]
             /\ writer' = [writer EXCEPT ![f] = "rejected"]
             /\ unanswered' = unanswered \cup {f} /\ UNCHANGED litter
    BY <1>5, <2>4 DEF StoreRow
  <2> QED
    BY <1>5, <2>1, <2>2, <2>3, <2>4 DEF StoreRow
<1>6. ASSUME NEW f \in Files, RemoveFile(f)
      PROVE  MediaInv'
  BY <1>6 DEF RemoveFile
<1>7. ASSUME NEW r \in Readers, NEW f \in Files, FindRow(r, f)
      PROVE  MediaInv'
  BY <1>7 DEF FindRow
<1>8. ASSUME NEW r \in Readers, ReadFile(r)
      PROVE  MediaInv'
  <2>1. reader[r].file \in Files /\ row[reader[r].file] # "none"
    BY <1>8 DEF ReadFile
  <2>2. CASE reader[r].file \in whole
    <3>1. reader' = [reader EXCEPT ![r] = [at |-> "idle", file |-> NoFile]]
      BY <1>8, <2>2 DEF ReadFile
    <3> QED
      BY <1>8, <3>1 DEF ReadFile
  <2>3. CASE reader[r].file \notin whole
    <3>1. reader' = [reader EXCEPT ![r] = [at |-> "missing", file |-> reader[r].file]]
      BY <1>8, <2>3 DEF ReadFile
    <3>2. reader[r].file \in unanswered
      BY <2>1, <2>3
    <3> QED
      BY <1>8, <2>1, <3>1, <3>2 DEF ReadFile
  <2> QED
    BY <2>2, <2>3
<1>9. CASE CrashWriters
  BY <1>9 DEF CrashWriters
<1>11. ASSUME NEW v \in Voices, DropUpload(v)
       PROVE  MediaInv'
  BY <1>11 DEF DropUpload
<1>10. CASE UNCHANGED mediaVars
  BY <1>10 DEF mediaVars
<1> QED
  BY <1>1, <1>2, <1>3, <1>4, <1>5, <1>6, <1>7, <1>8, <1>9, <1>10,
     <1>11 DEF MediaNext

\* No upload, failed statement, deletion or crash leaves a row without its file
\* or a file without a row, beyond the litter that the model names and the one
\* upload whose INSERT was carried out and not answered (media.rs 102, api.rs
\* 156-220).
THEOREM FilesAndRowsStayTogether == MediaSpec => []FilesAndRowsAgree
<1>1. MediaInv => FilesAndRowsAgree
  BY DEF MediaInv, FilesAreKept, FilesAndRowsAgree, RowsHaveFiles
<1> QED
  BY <1>1, MediaStart, MediaStep, PTL DEF MediaSpec

-----------------------------------------------------------------------------
(* EngineControl: the engines of a session were selected, and are here.    *)

EditState == [at : {"idle", "system", "tenant", "alias"}, kind : Kinds,
              backend : Backends \cup {None},
              voice : (UNION {VoicesOf[b] : b \in BackendsOf["tts"]}) \cup {None}]
JoinState == [at : {"idle", "asr", "tts", "probe", "enter", "in", "refused"},
              engines : Selections]

EngineTyped ==
    /\ tenantMode \in BOOLEAN
    /\ system \in Selections /\ tenant \in Selections /\ granted \in Selections
    /\ check \in Selections \cup {None} /\ up \subseteq Sidecars
    /\ edits \in [Editors -> EditState] /\ edited \in 0..MaxEdits
    /\ joins \in [Clients -> JoinState] /\ runtime \in Selections
    /\ found \in [system : Selections, tenant : Selections]

\* What an administrator's handler has found out before it writes.
EditsAreChecked ==
    \A a \in Editors :
        /\ edits[a].at \in {"system", "tenant"} => edits[a].backend \in BackendsOf[edits[a].kind]
        /\ edits[a].at \in {"system", "tenant"} => edits[a].backend \in Validating
        /\ edits[a].at = "alias" => /\ edits[a].backend \in Backends
                                    /\ edits[a].voice \in VoicesOf[edits[a].backend]

\* What a join has found out, step by step.
JoinsAreChecked ==
    \A c \in Clients :
        /\ joins[c].at = "tts" => joins[c].engines["asr"] \in PublicHas \cap since[c]["asr"]
        /\ joins[c].at \in {"probe", "enter"} =>
              \A k \in Kinds : joins[c].engines[k] \in PublicHas \cap since[c][k]
        /\ joins[c].at = "enter" /\ joins[c].engines["tts"] \in Sidecars =>
              joins[c].engines["tts"] \in since[c]["up"]

\* What an authority check carries from the tenant's row to the grant.
ChecksWereValidated ==
    check # None => \A k \in Kinds : check[k] \in Validating \cup {found.tenant[k], None}

RowsWereValidated == SelectionsWereValidated /\ ChecksWereValidated

AliasesAreRows == \A alias \in aliases : alias[1] \in Backends

EngineInvariant ==
    /\ EngineTyped /\ EditsAreChecked /\ JoinsAreChecked
    /\ RoomsShareEngines /\ RowsWereValidated /\ AliasesNameVoices /\ AliasesAreRows

LEMMA TwoKinds == /\ "asr" \in Kinds /\ "tts" \in Kinds /\ "up" \notin Kinds
                  /\ \A k \in Kinds : k = "asr" \/ k = "tts"
BY EngineAssumption

LEMMA SelectedEngines ==
    ASSUME NEW s \in Selections, NEW k \in Kinds
    PROVE  /\ s[k] \in BackendsOf[k] \cup {None} /\ s[k] \in Backends \cup {None}
           /\ \A b \in BackendsOf[k] \cup {None} : [s EXCEPT ![k] = b] \in Selections
<1>1. /\ s \in [Kinds -> Backends \cup {None}]
      /\ \A j \in Kinds : s[j] \in BackendsOf[j] \cup {None}
  BY DEF Selections
<1>2. \A b \in BackendsOf[k] \cup {None} : b \in Backends \cup {None}
  BY DEF Backends
<1>3. ASSUME NEW b \in BackendsOf[k] \cup {None} PROVE [s EXCEPT ![k] = b] \in Selections
  <2> DEFINE t == [s EXCEPT ![k] = b]
  <2>1. t \in [Kinds -> Backends \cup {None}]
    BY <1>1, <1>2, <1>3
  <2>2. \A j \in Kinds : t[j] \in BackendsOf[j] \cup {None}
    BY <1>1, <1>3
  <2> HIDE DEF t
  <2>3. t \in Selections
    BY <2>1, <2>2 DEF Selections
  <2> QED
    BY <2>3 DEF t
<1> QED
  BY <1>1, <1>3

LEMMA NoEnginesSelected == NoEngines \in Selections /\ \A k \in Kinds : NoEngines[k] = None
BY DEF NoEngines, Selections

LEMMA JoinStates ==
    ASSUME NEW j \in JoinState
    PROVE  j.at \in {"idle", "asr", "tts", "probe", "enter", "in", "refused"}
           /\ j.engines \in Selections
BY DEF JoinState

\* What the history gains in a step.
LEMMA Remembered ==
    ASSUME Remember, NEW c \in Clients, joins'[c].at \notin {"idle", "refused", "in"}
    PROVE  /\ \A k \in Kinds : since'[c][k] = since[c][k] \cup {Effective(k)'}
           /\ since'[c]["up"] = since[c]["up"] \cup up'
<1>1. since'[c] = [k \in Kinds \cup {"up"} |->
                      since[c][k] \cup IF k = "up" THEN up' ELSE {Effective(k)'}]
  BY DEF Remember
<1> QED
  BY <1>1, TwoKinds

-----------------------------------------------------------------------------
\* A step that moves no join keeps what the joins have found out.
LEMMA JoinsStay ==
    ASSUME EngineTyped, JoinsAreChecked, Remember, NEW c \in Clients, joins'[c] = joins[c]
    PROVE  /\ joins[c].at = "tts" => joins'[c].engines["asr"] \in PublicHas \cap since'[c]["asr"]
           /\ joins[c].at \in {"probe", "enter"} =>
                 \A k \in Kinds : joins'[c].engines[k] \in PublicHas \cap since'[c][k]
           /\ joins[c].at = "enter" /\ joins[c].engines["tts"] \in Sidecars =>
                 joins'[c].engines["tts"] \in since'[c]["up"]
<1>1. CASE joins[c].at \in {"tts", "probe", "enter"}
  <2>1. joins'[c].at \notin {"idle", "refused", "in"}
    BY <1>1
  <2>2. /\ \A k \in Kinds : since'[c][k] = since[c][k] \cup {Effective(k)'}
        /\ since'[c]["up"] = since[c]["up"] \cup up'
    BY <2>1, Remembered
  <2> QED
    BY <2>2, TwoKinds DEF JoinsAreChecked
<1> QED
  BY <1>1

LEMMA NoJoinMoves ==
    ASSUME EngineTyped, JoinsAreChecked, Remember, joins' = joins
    PROVE  JoinsAreChecked'
<1> SUFFICES ASSUME NEW c \in Clients
             PROVE  /\ joins'[c].at = "tts" => joins'[c].engines["asr"] \in PublicHas \cap since'[c]["asr"]
                    /\ joins'[c].at \in {"probe", "enter"} =>
                          \A k \in Kinds : joins'[c].engines[k] \in PublicHas \cap since'[c][k]
                    /\ joins'[c].at = "enter" /\ joins'[c].engines["tts"] \in Sidecars =>
                          joins'[c].engines["tts"] \in since'[c]["up"]
  BY DEF JoinsAreChecked
<1> QED
  BY JoinsStay

\* One client moves; it suffices to look at that one.
LEMMA OneJoinMoves ==
    ASSUME EngineTyped, JoinsAreChecked, Remember, NEW c \in Clients,
           NEW at \in {"idle", "asr", "tts", "probe", "enter", "in", "refused"},
           NEW engines \in Selections, StepJoin(c, at, engines),
           at = "tts" => engines["asr"] \in PublicHas \cap since'[c]["asr"],
           at \in {"probe", "enter"} => \A k \in Kinds : engines[k] \in PublicHas \cap since'[c][k],
           at = "enter" /\ engines["tts"] \in Sidecars => engines["tts"] \in since'[c]["up"]
    PROVE  JoinsAreChecked' /\ joins' \in [Clients -> JoinState]
<1> DEFINE j == [at |-> at, engines |-> engines]
<1>1. j \in JoinState /\ j.at = at /\ j.engines = engines
  BY DEF JoinState
<1>2. joins' = [joins EXCEPT ![c] = j] /\ joins \in [Clients -> JoinState]
  BY DEF StepJoin, EngineTyped
<1> HIDE DEF j
<1>3. /\ joins' \in [Clients -> JoinState] /\ joins'[c] = j
      /\ \A d \in Clients \ {c} : joins'[d] = joins[d]
  BY <1>1, <1>2
<1>4. ASSUME NEW d \in Clients
      PROVE  /\ joins'[d].at = "tts" => joins'[d].engines["asr"] \in PublicHas \cap since'[d]["asr"]
             /\ joins'[d].at \in {"probe", "enter"} =>
                   \A k \in Kinds : joins'[d].engines[k] \in PublicHas \cap since'[d][k]
             /\ joins'[d].at = "enter" /\ joins'[d].engines["tts"] \in Sidecars =>
                   joins'[d].engines["tts"] \in since'[d]["up"]
  <2>1. CASE d = c
    BY <1>1, <1>3, <2>1
  <2>2. CASE d # c
    BY <1>3, <2>2, JoinsStay
  <2> QED
    BY <2>1, <2>2
<1> QED
  BY <1>3, <1>4 DEF JoinsAreChecked

-----------------------------------------------------------------------------
\* What a step that leaves them alone keeps.
LEMMA RoomsStay == RoomsShareEngines /\ UNCHANGED <<joins, runtime>> => RoomsShareEngines'
BY DEF RoomsShareEngines

LEMMA RowsStay ==
    RowsWereValidated /\ UNCHANGED <<tenantMode, system, tenant, granted, check, found>> => RowsWereValidated'
BY DEF RowsWereValidated, SelectionsWereValidated, ChecksWereValidated, Validating

\* Administrators.
LEMMA EditSteps ==
    ASSUME EngineInvariant, Remember, NEW a \in Editors,
           \/ \E k \in Kinds : \E b \in BackendsOf[k] : Validate(a, k, b)
           \/ \E v \in UNION {VoicesOf[b] : b \in BackendsOf["tts"]} : FindVoice(a, v)
    PROVE  EngineInvariant'
<1>1. /\ EngineTyped /\ EditsAreChecked /\ edits \in [Editors -> EditState]
      /\ tenantMode \in BOOLEAN /\ edited \in 0..MaxEdits /\ MaxEdits \in Nat
  BY EngineAssumption DEF EngineInvariant, EngineTyped
<1>2. /\ UNCHANGED <<tenantMode, system, tenant, granted, check, up, aliases, joins, runtime>>
      /\ edited' = edited + 1 /\ edited < MaxEdits /\ found' = found
  BY DEF Validate, FindVoice, Remember
<1>3. PICK e \in EditState :
         /\ edits' = [edits EXCEPT ![a] = e]
         /\ e.at \in {"system", "tenant"} => e.backend \in BackendsOf[e.kind]
         /\ e.at \in {"system", "tenant"} => e.backend \in Validating
         /\ e.at = "alias" => e.backend \in Backends /\ e.voice \in VoicesOf[e.backend]
  <2>1. CASE \E k \in Kinds : \E b \in BackendsOf[k] : Validate(a, k, b)
    <3>0. PICK k \in Kinds : \E b \in BackendsOf[k] : Validate(a, k, b)
      BY <2>1
    <3>1. PICK b \in BackendsOf[k] : Validate(a, k, b)
      BY <3>0
    <3>2. PICK at \in {"system", "tenant"} :
             edits' = [edits EXCEPT ![a] = EditOf(at, k, b, None)]
      BY <3>1 DEF Validate
    <3> DEFINE e == EditOf(at, k, b, None)
    <3>4. b \in Backends
      BY DEF Backends
    <3>5. e \in EditState /\ e.at = at /\ e.kind = k /\ e.backend = b
      BY <3>4 DEF EditOf, EditState
    <3>6. b \in Validating
      BY <3>1 DEF Validate, Available
    <3>7. edits' = [edits EXCEPT ![a] = e]
      BY <3>2
    <3> HIDE DEF e
    <3> QED
      BY <3>5, <3>6, <3>7
  <2>2. CASE \E v \in UNION {VoicesOf[b] : b \in BackendsOf["tts"]} : FindVoice(a, v)
    <3>1. PICK v \in UNION {VoicesOf[b] : b \in BackendsOf["tts"]} : FindVoice(a, v)
      BY <2>2
    <3> DEFINE b == Effective("tts")
               e == EditOf("alias", "tts", b, v)
    <3>2. b # None /\ v \in VoicesOf[b] /\ b \in Backends \cup {None}
      BY <3>1, <1>1, TwoKinds, SelectedEngines DEF FindVoice, Effective, EngineTyped
    <3>3. edits' = [edits EXCEPT ![a] = e]
      BY <3>1 DEF FindVoice
    <3> HIDE DEF b
    <3>5. e \in EditState /\ e.at = "alias" /\ e.voice = v /\ e.backend = b
      BY <3>2, TwoKinds DEF EditOf, EditState
    <3> HIDE DEF e
    <3> QED
      BY <3>2, <3>3, <3>5
  <2> QED
    BY <2>1, <2>2
<1>4. /\ edits' \in [Editors -> EditState] /\ edits'[a] = e
      /\ \A d \in Editors \ {a} : edits'[d] = edits[d]
  BY <1>1, <1>3
<1>5. edited' \in 0..MaxEdits
  BY <1>1, <1>2
<1>6. EngineTyped'
  BY <1>1, <1>2, <1>4, <1>5 DEF EngineTyped
<1>7. EditsAreChecked'
  BY <1>1, <1>2, <1>3, <1>4 DEF EditsAreChecked, Validating
<1>8. JoinsAreChecked'
  BY <1>2, NoJoinMoves DEF EngineInvariant
<1>9. RoomsShareEngines' /\ RowsWereValidated' /\ AliasesNameVoices' /\ AliasesAreRows'
  BY <1>2, RoomsStay, RowsStay DEF EngineInvariant, AliasesNameVoices, AliasesAreRows
<1> QED
  BY <1>6, <1>7, <1>8, <1>9 DEF EngineInvariant

LEMMA StoreSteps ==
    ASSUME EngineInvariant, Remember, NEW a \in Editors, StoreSelection(a) \/ StoreAlias(a)
    PROVE  EngineInvariant'
<1>1. /\ EngineTyped /\ EditsAreChecked /\ edits \in [Editors -> EditState]
      /\ system \in Selections /\ tenant \in Selections
      /\ edits[a] \in EditState /\ edits[a].kind \in Kinds
  BY DEF EngineInvariant, EngineTyped, EditState
<1>2. NoEdit \in EditState /\ NoEdit.at = "idle"
  BY TwoKinds DEF NoEdit, EditOf, EditState
<1>3. /\ UNCHANGED <<tenantMode, granted, check, up, edited, joins, runtime, found>>
      /\ edits' = [edits EXCEPT ![a] = NoEdit]
  BY DEF StoreSelection, StoreAlias, Remember
<1>4. edits' \in [Editors -> EditState] /\ EditsAreChecked'
  BY <1>1, <1>2, <1>3 DEF EditsAreChecked, Validating
<1>5. JoinsAreChecked' /\ RoomsShareEngines'
  BY <1>3, NoJoinMoves, RoomsStay DEF EngineInvariant
<1>6. CASE StoreSelection(a)
  <2> DEFINE k == edits[a].kind
             b == edits[a].backend
  <2>1. /\ edits[a].at \in {"system", "tenant"} /\ aliases' = aliases
        /\ edits[a].at = "system" => system' = [system EXCEPT ![k] = b] /\ tenant' = tenant
        /\ edits[a].at = "tenant" => tenant' = [tenant EXCEPT ![k] = b] /\ system' = system
    BY <1>6 DEF StoreSelection
  <2>2. /\ k \in Kinds /\ b \in BackendsOf[k]
        /\ b \in Validating
    BY <1>1, <2>1 DEF EditsAreChecked
  <2> HIDE DEF k, b
  <2>3. system' \in Selections /\ tenant' \in Selections
    BY <1>1, <2>1, <2>2, SelectedEngines
  <2>4. system \in [Kinds -> Backends \cup {None}] /\ tenant \in [Kinds -> Backends \cup {None}]
    BY <1>1 DEF Selections
  <2>5. RowsWereValidated'
    BY <1>3, <2>1, <2>2, <2>4 DEF EngineInvariant, RowsWereValidated, SelectionsWereValidated,
                                  ChecksWereValidated, Validating
  <2>6. AliasesNameVoices' /\ AliasesAreRows'
    BY <2>1 DEF EngineInvariant, AliasesNameVoices, AliasesAreRows
  <2>7. EngineTyped'
    BY <1>1, <1>3, <1>4, <2>3 DEF EngineTyped
  <2> QED
    BY <1>4, <1>5, <2>5, <2>6, <2>7 DEF EngineInvariant
<1>7. CASE StoreAlias(a)
  <2> DEFINE alias == <<edits[a].backend, edits[a].voice>>
  <2>1. /\ edits[a].at = "alias" /\ UNCHANGED <<system, tenant>>
        /\ \A r \in aliases' : r \in aliases \/ r = alias
    BY <1>7 DEF StoreAlias
  <2>2. alias[2] \in VoicesOf[alias[1]] /\ alias[1] \in Backends
    BY <1>1, <2>1 DEF EditsAreChecked
  <2> HIDE DEF alias
  <2>3. AliasesNameVoices' /\ AliasesAreRows'
    BY <2>1, <2>2 DEF EngineInvariant, AliasesNameVoices, AliasesAreRows
  <2>4. EngineTyped' /\ RowsWereValidated'
    BY <1>1, <1>3, <1>4, <2>1, RowsStay DEF EngineTyped, EngineInvariant
  <2> QED
    BY <1>4, <1>5, <2>3, <2>4 DEF EngineInvariant
<1> QED
  BY <1>6, <1>7

-----------------------------------------------------------------------------
\* Grants and sidecars.
LEMMA GrantSteps ==
    ASSUME EngineInvariant, Remember,
           \/ \E k \in Kinds : InheritSelection(k)
           \/ CheckReads \/ CheckAnswers
           \/ \E s \in Sidecars : SidecarFlips(s)
    PROVE  EngineInvariant'
<1>1. /\ EngineTyped /\ tenant \in Selections /\ system \in Selections
      /\ check \in Selections \cup {None} /\ up \subseteq Sidecars
  BY DEF EngineInvariant, EngineTyped
<1>2. UNCHANGED <<tenantMode, system, edits, edited, aliases, joins, runtime, found>>
  BY DEF InheritSelection, CheckReads, CheckAnswers, SidecarFlips, Remember
<1>3. EditsAreChecked' /\ RoomsShareEngines' /\ AliasesNameVoices' /\ AliasesAreRows'
  BY <1>2, RoomsStay DEF EngineInvariant, EditsAreChecked, Validating, AliasesNameVoices,
                         AliasesAreRows
<1>4. JoinsAreChecked'
  BY <1>2, NoJoinMoves DEF EngineInvariant
<1>5. /\ tenant' \in Selections /\ check' \in Selections \cup {None}
      /\ granted' \in Selections /\ up' \subseteq Sidecars /\ RowsWereValidated'
  <2>1. CASE \E k \in Kinds : InheritSelection(k)
    <3>1. PICK k \in Kinds : InheritSelection(k)
      BY <2>1
    <3>2. tenant' = [tenant EXCEPT ![k] = None] /\ UNCHANGED <<check, granted, up>>
      BY <3>1 DEF InheritSelection
    <3>3. tenant \in [Kinds -> Backends \cup {None}]
      BY <1>1 DEF Selections
    <3>4. RowsWereValidated'
      BY <1>2, <3>2, <3>3 DEF EngineInvariant, RowsWereValidated, SelectionsWereValidated,
                              ChecksWereValidated, Validating
    <3> QED
      BY <1>1, <3>2, <3>4, SelectedEngines DEF EngineTyped
  <2>2. CASE CheckReads
    <3>1. check' = tenant /\ UNCHANGED <<tenant, granted, up>>
      BY <2>2 DEF CheckReads
    <3>2. RowsWereValidated'
      BY <1>2, <3>1 DEF EngineInvariant, RowsWereValidated, SelectionsWereValidated, ChecksWereValidated,
                        Validating
    <3> QED
      BY <1>1, <3>1, <3>2 DEF EngineTyped
  <2>3. CASE CheckAnswers
    <3> DEFINE g == [k \in Kinds |-> IF check[k] # None THEN check[k] ELSE system[k]]
    <3>1. /\ granted' = g /\ check' = None /\ check \in Selections
          /\ UNCHANGED <<tenant, up>>
      BY <1>1, <2>3 DEF CheckAnswers
    <3>2. \A k \in Kinds : g[k] \in BackendsOf[k] \cup {None} /\ g[k] \in Backends \cup {None}
      BY <1>1, <3>1, SelectedEngines
    <3>3. g \in [Kinds -> Backends \cup {None}]
      BY <3>2
    <3>5. \A k \in Kinds : g[k] \in Validating \cup {found.system[k], found.tenant[k], None}
      BY <2>3 DEF CheckAnswers, EngineInvariant, RowsWereValidated, SelectionsWereValidated,
                  ChecksWereValidated
    <3> HIDE DEF g
    <3>4. g \in Selections
      BY <3>2, <3>3 DEF Selections
    <3>6. RowsWereValidated'
      BY <1>2, <3>1, <3>5 DEF EngineInvariant, RowsWereValidated, SelectionsWereValidated,
                              ChecksWereValidated, Validating
    <3> QED
      BY <1>1, <3>1, <3>4, <3>6
  <2>4. CASE \E s \in Sidecars : SidecarFlips(s)
    BY <1>1, <1>2, <2>4, RowsStay DEF SidecarFlips, EngineTyped, EngineInvariant
  <2> QED
    BY <2>1, <2>2, <2>3, <2>4
<1>6. EngineTyped'
  BY <1>1, <1>2, <1>5 DEF EngineTyped
<1> QED
  BY <1>3, <1>4, <1>5, <1>6 DEF EngineInvariant

-----------------------------------------------------------------------------
\* Clients.
LEMMA JoinSteps ==
    ASSUME EngineInvariant, Remember, NEW c \in Clients,
           Join(c) \/ Probe(c) \/ \E k \in Kinds : ChooseEngine(c, k)
    PROVE  EngineInvariant'
<1>1. /\ EngineTyped /\ JoinsAreChecked /\ joins \in [Clients -> JoinState]
      /\ joins[c] \in JoinState /\ joins[c].engines \in Selections
      /\ system \in Selections /\ granted \in Selections
  BY DEF EngineInvariant, EngineTyped, JoinState
<1>2. UNCHANGED <<tenantMode, system, tenant, granted, check, up, edits, edited, aliases,
                  runtime, found>>
  BY DEF Join, Probe, ChooseEngine, Remember
<1>3. EditsAreChecked' /\ RowsWereValidated' /\ AliasesNameVoices' /\ AliasesAreRows'
  BY <1>2, RowsStay DEF EngineInvariant, EditsAreChecked, Validating, AliasesNameVoices,
                        AliasesAreRows
<1>7. RoomsShareEngines'
  <2>1. /\ joins[c].at # "in" /\ joins'[c].at # "in"
        /\ \A d \in Clients \ {c} : joins'[d] = joins[d]
    <3>1. PICK at \in {"asr", "tts", "refused", "probe", "enter"} :
             \E engines : StepJoin(c, at, engines) /\ joins[c].at # "in"
      BY TwoKinds DEF Join, Probe, ChooseEngine, Refuse
    <3> QED
      BY <1>1, <3>1 DEF StepJoin
  <2> QED
    BY <1>1, <1>2, <2>1 DEF EngineInvariant, RoomsShareEngines
<1>4. ASSUME NEW at, StepJoin(c, at, NoEngines), at \in {"asr", "refused"}
      PROVE  JoinsAreChecked' /\ joins' \in [Clients -> JoinState]
  BY <1>1, <1>4, OneJoinMoves, NoEnginesSelected
<1>5. JoinsAreChecked' /\ joins' \in [Clients -> JoinState]
  <2>1. CASE Join(c)
    BY <1>4, <2>1 DEF Join
  <2>2. CASE Probe(c)
    <3>1. CASE joins[c].engines["tts"] \in up
      <4> DEFINE engines == joins[c].engines
      <4>1. /\ StepJoin(c, "enter", engines) /\ joins[c].at = "probe" /\ up' = up
            /\ engines \in Selections /\ engines["tts"] \in up
        BY <1>1, <2>2, <3>1 DEF Probe
      <4>2. \A k \in Kinds : engines[k] \in PublicHas \cap since[c][k]
        BY <1>1, <4>1 DEF JoinsAreChecked
      <4> HIDE DEF engines
      <4>3. joins'[c].at = "enter"
        BY <1>1, <4>1 DEF StepJoin
      <4>4. /\ \A k \in Kinds : since'[c][k] = since[c][k] \cup {Effective(k)'}
            /\ since'[c]["up"] = since[c]["up"] \cup up'
        BY <4>3, Remembered
      <4>5. engines["tts"] \in since'[c]["up"] /\ \A k \in Kinds : engines[k] \in PublicHas \cap since'[c][k]
        BY <4>1, <4>2, <4>4
      <4> QED
        BY <1>1, <4>1, <4>5, OneJoinMoves
    <3>2. CASE joins[c].engines["tts"] \notin up
      BY <1>4, <2>2, <3>2 DEF Probe, Refuse
    <3> QED
      BY <3>1, <3>2
  <2>3. ASSUME NEW k \in Kinds, ChooseEngine(c, k)
        PROVE  JoinsAreChecked' /\ joins' \in [Clients -> JoinState]
    <3> DEFINE b == Effective(k)
               at == IF k = "asr" THEN "tts" ELSE IF b \in Sidecars THEN "probe" ELSE "enter"
               engines == [joins[c].engines EXCEPT ![k] = b]
    <3>1. CASE b \notin PublicHas
      BY <1>4, <2>3, <3>1 DEF ChooseEngine, Refuse
    <3>2. CASE b \in PublicHas
      <4>1. StepJoin(c, at, engines) /\ joins[c].at = k
        BY <2>3, <3>2 DEF ChooseEngine
      <4>2. b \in BackendsOf[k] \cup {None} /\ Effective(k)' = b
        BY <1>1, <1>2, SelectedEngines DEF Effective
      <4>3. engines \in Selections
        BY <1>1, <4>2, SelectedEngines
      <4>4. joins[c].engines \in [Kinds -> Backends \cup {None}]
        BY <1>1 DEF Selections
      <4>5. engines[k] = b /\ \A j \in Kinds \ {k} : engines[j] = joins[c].engines[j]
        BY <4>4
      <4>6. at \in {"tts", "probe", "enter"} /\ (k = "asr" <=> at = "tts")
            /\ (at = "enter" => b \notin Sidecars)
        OBVIOUS
      <4> HIDE DEF at, engines, b
      <4>7. joins'[c].at = at
        BY <1>1, <4>1 DEF StepJoin
      <4>8. \A j \in Kinds : since'[c][j] = since[c][j] \cup {Effective(j)'}
        BY <4>6, <4>7, Remembered
      <4>9. engines[k] \in PublicHas \cap since'[c][k]
        BY <3>2, <4>2, <4>5, <4>8
      <4>10. k = "tts" => engines["asr"] \in PublicHas \cap since'[c]["asr"]
        BY <1>1, <4>1, <4>5, <4>8, TwoKinds DEF JoinsAreChecked
      <4>11. at \in {"probe", "enter"} => \A j \in Kinds : engines[j] \in PublicHas \cap since'[c][j]
        BY <4>6, <4>9, <4>10, TwoKinds
      <4>12. at = "tts" => engines["asr"] \in PublicHas \cap since'[c]["asr"]
        BY <4>6, <4>9
      <4>13. at = "enter" => engines["tts"] \notin Sidecars
        BY <4>5, <4>6, TwoKinds
      <4> QED
        BY <1>1, <4>1, <4>3, <4>6, <4>11, <4>12, <4>13, OneJoinMoves
    <3> QED
      BY <3>1, <3>2
  <2> QED
    BY <2>1, <2>2, <2>3
<1>6. EngineTyped'
  BY <1>1, <1>2, <1>5 DEF EngineTyped
<1> QED
  BY <1>3, <1>5, <1>6, <1>7 DEF EngineInvariant

LEMMA RoomSteps ==
    ASSUME EngineInvariant, Remember, NEW c \in Clients, Enter(c) \/ Depart(c)
    PROVE  EngineInvariant'
<1>1. /\ EngineTyped /\ JoinsAreChecked /\ RoomsShareEngines
      /\ joins \in [Clients -> JoinState] /\ joins[c] \in JoinState
      /\ joins[c].engines \in Selections /\ runtime \in Selections
  BY DEF EngineInvariant, EngineTyped, JoinState, RoomsShareEngines
<1>2. UNCHANGED <<tenantMode, system, tenant, granted, check, up, edits, edited, aliases, found>>
  BY DEF Enter, Depart, Remember
<1>3. EditsAreChecked' /\ RowsWereValidated' /\ AliasesNameVoices' /\ AliasesAreRows'
  BY <1>2, RowsStay DEF EngineInvariant, EditsAreChecked, Validating, AliasesNameVoices,
                        AliasesAreRows
<1>4. CASE Enter(c)
  <2> DEFINE engines == IF runtime = NoEngines THEN joins[c].engines ELSE runtime
  <2>1. runtime' = engines /\ StepJoin(c, "in", engines) /\ joins[c].at = "enter"
    BY <1>4 DEF Enter
  <2>2. engines \in Selections /\ \A k \in Kinds : engines[k] \in PublicHas
    BY <1>1, <2>1 DEF JoinsAreChecked, RoomsShareEngines
  <2>3. engines # NoEngines
    BY <2>2, TwoKinds, NoEnginesSelected, EngineAssumption
  <2>4. runtime = NoEngines \/ runtime = engines
    OBVIOUS
  <2> HIDE DEF engines
  <2>5. JoinsAreChecked' /\ joins' \in [Clients -> JoinState]
    BY <1>1, <2>1, <2>2, OneJoinMoves
  <2>6. /\ joins'[c].at = "in" /\ joins'[c].engines = engines
        /\ \A d \in Clients \ {c} : joins'[d] = joins[d]
    BY <1>1, <2>1 DEF StepJoin
  <2>7. RoomsShareEngines'
    BY <1>1, <2>1, <2>2, <2>3, <2>4, <2>6 DEF RoomsShareEngines
  <2>8. EngineTyped'
    BY <1>1, <1>2, <2>1, <2>2, <2>5 DEF EngineTyped
  <2> QED
    BY <1>3, <2>5, <2>7, <2>8 DEF EngineInvariant
<1>5. CASE Depart(c)
  <2>1. StepJoin(c, "idle", NoEngines)
    BY <1>5 DEF Depart, NoJoin, StepJoin
  <2>2. JoinsAreChecked' /\ joins' \in [Clients -> JoinState]
    BY <1>1, <2>1, OneJoinMoves, NoEnginesSelected
  <2>3. runtime' = IF \E d \in Clients \ {c} : joins[d].at = "in" THEN runtime ELSE NoEngines
    BY <1>5 DEF Depart
  <2>4. /\ joins'[c].at = "idle" /\ \A d \in Clients \ {c} : joins'[d] = joins[d]
    BY <1>1, <2>1 DEF StepJoin
  <2>5. RoomsShareEngines'
    BY <1>1, <2>3, <2>4 DEF RoomsShareEngines
  <2>6. EngineTyped'
    BY <1>1, <1>2, <2>2, <2>3, NoEnginesSelected DEF EngineTyped
  <2> QED
    BY <1>3, <2>2, <2>5, <2>6 DEF EngineInvariant
<1> QED
  BY <1>4, <1>5

-----------------------------------------------------------------------------
LEMMA EngineStart ==
    ASSUME EngineInit
    PROVE  EngineInvariant
<1>1. EngineTyped
  <2>1. NoEdit \in EditState /\ NoJoin \in JoinState
    BY TwoKinds, NoEnginesSelected DEF NoEdit, EditOf, EditState, NoJoin, JoinState
  <2>2. 0 \in 0..MaxEdits
    BY EngineAssumption
  <2>3. tenantMode \in BOOLEAN /\ system \in Selections /\ tenant \in Selections
        /\ granted \in Selections /\ check = None /\ runtime \in Selections
        /\ found \in [system : Selections, tenant : Selections]
    BY NoEnginesSelected DEF EngineInit
  <2> QED
    BY <2>1, <2>2, <2>3 DEF EngineInit, EngineTyped
<1>2. EditsAreChecked /\ JoinsAreChecked /\ AliasesNameVoices /\ AliasesAreRows
  BY DEF EngineInit, EditsAreChecked, JoinsAreChecked, AliasesNameVoices, AliasesAreRows,
         NoEdit, EditOf, NoJoin
<1>3. RowsWereValidated
  BY NoEnginesSelected DEF EngineInit, RowsWereValidated, SelectionsWereValidated, ChecksWereValidated
<1>4. RoomsShareEngines
  BY DEF EngineInit, RoomsShareEngines, NoJoin
<1> QED
  BY <1>1, <1>2, <1>3, <1>4 DEF EngineInvariant

LEMMA EnginesKept == EngineInvariant /\ [EngineNext]_engineVars => EngineInvariant'
<1> SUFFICES ASSUME EngineInvariant, [EngineNext]_engineVars PROVE EngineInvariant'
  OBVIOUS
<1>1. CASE UNCHANGED engineVars
  BY <1>1, RoomsStay, RowsStay DEF engineVars, EngineInvariant, EngineTyped, EditsAreChecked,
              Validating, JoinsAreChecked, AliasesNameVoices, AliasesAreRows
<1>2. CASE EngineNext
  BY <1>2, EditSteps, StoreSteps, GrantSteps, JoinSteps, RoomSteps DEF EngineNext, EngineStep
<1> QED
  BY <1>1, <1>2

LEMMA EnginesFollow == EngineInvariant => EnginesAgree /\ EngineTypeOK
<1> SUFFICES ASSUME EngineInvariant PROVE EnginesAgree /\ EngineTypeOK
  OBVIOUS
<1>1. SessionsGetSelectedEngines
  <2> SUFFICES ASSUME NEW c \in Clients, joins[c].at = "enter", NEW k \in Kinds
               PROVE  /\ joins[c].engines[k] \in PublicHas \cap since[c][k]
                      /\ joins[c].engines[k] \in Sidecars => joins[c].engines[k] \in since[c]["up"]
    BY DEF SessionsGetSelectedEngines
  <2>1. joins[c].engines \in Selections
    BY DEF EngineInvariant, EngineTyped, JoinState
  <2>2. joins[c].engines["asr"] \notin Sidecars
    BY <2>1, SelectedEngines, TwoKinds, EngineAssumption DEF Backends
  <2> QED
    BY <2>2, TwoKinds DEF EngineInvariant, JoinsAreChecked
<1>2. EngineTypeOK
  BY DEF EngineInvariant, EngineTyped, EngineTypeOK, EditState, JoinState, AliasesAreRows
<1> QED
  BY <1>1, <1>2 DEF EnginesAgree, EngineInvariant, RoomsShareEngines, RowsWereValidated

\* The engines that a client brings into a room are engines of the process it
\* joins and were selected while it joined, whatever row the start found and
\* whoever validated what came later; all who are in the room share one pair; only
\* a row that was there at the start was never validated; and an alias names a
\* voice of its engine, while administrators, grants and sidecars change all of
\* them between the steps of a join or an edit (tts_manager.rs 210, asr_manager.rs
\* 90, storage/asr.rs 31).
THEOREM EnginesStayAgreed == EngineSpec => [](EnginesAgree /\ EngineTypeOK)
<1>1. EngineInit => EngineInvariant
  BY EngineStart
<1>2. EngineInvariant /\ [EngineNext]_engineVars => EngineInvariant'
  BY EnginesKept
<1>3. EngineInvariant => EnginesAgree /\ EngineTypeOK
  BY EnginesFollow
<1> QED
  BY <1>1, <1>2, <1>3, PTL DEF EngineSpec

-----------------------------------------------------------------------------
(* Lexicons: what a session loads.                                         *)

FactKinds == {"bound", "entry", "block"}

\* What was seen during a load brackets what the tables say.
LoadIsObserved ==
    /\ Loading => InForce \subseteq during.sometime /\ during.always \subseteq InForce
    /\ room.at # "none" => \A f \in during.always : f[1] \in FactKinds

\* What each statement of the load found.
BindingFound ==
    /\ room.dictionary # NoDictionary => <<"bound", room.dictionary>> \in during.sometime
    /\ \A f \in during.always : f[1] = "bound" => f[2] = room.dictionary
EntriesFound ==
    /\ \A t \in Range(room.terms) : <<"entry", room.dictionary, t>> \in during.sometime
    /\ \A f \in during.always :
          f[1] = "entry" /\ f[2] = room.dictionary => f[3] \in Range(room.terms)
BlocksFound ==
    /\ \A x \in Range(room.blocked) : <<"block", x>> \in during.sometime
    /\ \A f \in during.always : f[1] = "block" => f[2] \in Range(room.blocked)

LexiconInvariant ==
    /\ room = [at |-> room.at, dictionary |-> room.dictionary,
               terms |-> room.terms, blocked |-> room.blocked]
    /\ LoadIsObserved
    /\ room.at \in {"none", "binding", "entries", "blocks", "ready", "translating", "speaking"}
    /\ room.at \notin {"none", "binding"} => BindingFound
    /\ room.at \notin {"none", "binding", "entries"} => EntriesFound
    /\ room.at \notin {"none", "binding", "entries", "blocks"} => BlocksFound

-----------------------------------------------------------------------------
\* A sequence of all elements of a finite set has just these elements.
LEMMA AllInSequence ==
    ASSUME NEW S, IsFiniteSet(S), NEW s \in SetToSeqs(S)
    PROVE  Range(s) = S /\ s \in Seq(S)
<1> DEFINE n == Cardinality(S)
<1>1. n \in Nat
  BY FS_CardinalityType
<1>2. s \in [1..n -> S] /\ \A i, j \in 1..n : i # j => s[i] # s[j]
  BY DEF SetToSeqs
<1>3. IsFiniteSet(1..n) /\ Cardinality(1..n) = n
  <2>1. 1 \in Int /\ n \in Int /\ (n = 0 \/ ~(1 > n))
    BY <1>1
  <2> HIDE DEF n
  <2>2. IsFiniteSet(1..n) /\ Cardinality(1..n) = IF 1 > n THEN 0 ELSE n - 1 + 1
    BY <2>1, FS_Interval
  <2> QED
    BY <1>1, <2>1, <2>2
<1>4. s \in Injection(1..n, S)
  BY <1>2 DEF Injection, IsInjective
<1>5. s \in Surjection(1..n, S)
  BY <1>3, <1>4, FS_Injection
<1>6. Range(s) = S
  BY <1>2, <1>5 DEF Surjection, Range
<1> HIDE DEF n
<1>7. s \in Seq(S)
  BY <1>1, <1>2
<1> QED
  BY <1>6, <1>7

LEMMA FiniteImage ==
    ASSUME NEW S, IsFiniteSet(S), NEW f, DOMAIN f = S, f = [x \in S |-> f[x]]
    PROVE  IsFiniteSet({f[x] : x \in S})
<1> DEFINE T == {f[x] : x \in S}
<1>1. f \in [S -> T]
  OBVIOUS
<1>2. f \in Surjection(S, T)
  BY <1>1 DEF Surjection
<1> HIDE DEF T
<1>3. IsFiniteSet(T)
  BY <1>2, FS_Surjection
<1> QED
  BY <1>3 DEF T

LEMMA EntriesLoaded ==
    ASSUME NEW d, NEW terms \in TermOrders(ActiveEntries(d))
    PROVE  Range(terms) = ActiveEntries(d) /\ terms \in Seq(ActiveEntries(d))
<1> DEFINE S == {x \in EntryIds : entries[x].status = "active" /\ entries[x].dictionary = d}
           f == [e \in S |-> entries[e].term]
<1>1. IsFiniteSet(S)
  BY LexiconAssumption, FS_Subset
<1>2. DOMAIN f = S /\ f = [x \in S |-> f[x]] /\ ActiveEntries(d) = {f[x] : x \in S}
  BY DEF ActiveEntries
<1> HIDE DEF S, f
<1>3. IsFiniteSet(ActiveEntries(d))
  BY <1>1, <1>2, FiniteImage
<1> QED
  BY <1>3, AllInSequence DEF TermOrders

LEMMA BlocksLoaded ==
    ASSUME NEW words \in BlockOrders(ActiveBlocks)
    PROVE  Range(words) = ActiveBlocks /\ words \in Seq(ActiveBlocks)
<1> DEFINE S == {x \in BlockIds : blocks[x].status = "active"}
           f == [b \in S |-> blocks[b].block]
<1>1. IsFiniteSet(S)
  BY LexiconAssumption, FS_Subset
<1>2. DOMAIN f = S /\ f = [x \in S |-> f[x]] /\ ActiveBlocks = {f[x] : x \in S}
  BY DEF ActiveBlocks
<1> HIDE DEF S, f
<1>3. IsFiniteSet(ActiveBlocks)
  BY <1>1, <1>2, FiniteImage
<1> QED
  BY <1>3, AllInSequence DEF BlockOrders

LEMMA FactsInForce ==
    /\ \A f \in InForce : f[1] \in FactKinds
    /\ \A d : <<"bound", d>> \in InForce <=> Bound(d)
    /\ \A f \in InForce : f[1] = "bound" => Bound(f[2])
    /\ \A d : \A t \in ActiveEntries(d) : <<"entry", d, t>> \in InForce
    /\ \A f \in InForce : f[1] = "entry" => f[3] \in ActiveEntries(f[2])
    /\ \A b \in ActiveBlocks : <<"block", b>> \in InForce
    /\ \A f \in InForce : f[1] = "block" => f[2] \in ActiveBlocks
BY DEF InForce, FactKinds, Bound, ActiveEntries

-----------------------------------------------------------------------------
LEMMA LexiconStart == LexiconInit => LexiconInvariant
BY DEF LexiconInit, LexiconInvariant, NoSession, LoadIsObserved, Loading

\* The tables change, at any moment of a load.
LEMMA TableSteps ==
    ASSUME LexiconInvariant, Observe, UNCHANGED room
    PROVE  LexiconInvariant'
<1>1. CASE Loading
  <2>1. /\ during'.sometime = during.sometime \cup InForce'
        /\ during'.always = during.always \cap InForce'
    BY <1>1 DEF Observe
  <2>2. Loading'
    BY <1>1 DEF Loading
  <2>3. LoadIsObserved'
    BY <2>1 DEF LoadIsObserved, LexiconInvariant
  <2>4. (BindingFound => BindingFound') /\ (EntriesFound => EntriesFound')
        /\ (BlocksFound => BlocksFound')
    BY <2>1 DEF BindingFound, EntriesFound, BlocksFound
  <2> QED
    BY <2>3, <2>4 DEF LexiconInvariant
<1>2. CASE ~Loading
  <2>1. during' = during /\ ~Loading'
    BY <1>2 DEF Observe, Loading
  <2> QED
    BY <1>2, <2>1 DEF LexiconInvariant, LoadIsObserved, BindingFound, EntriesFound, BlocksFound
<1> QED
  BY <1>1, <1>2

LEMMA TablesStay ==
    ASSUME UNCHANGED tableVars
    PROVE  InForce' = InForce
BY DEF tableVars, InForce, ActiveBlocks

LEMMA LoadSteps ==
    ASSUME LexiconInvariant, StartSession \/ LoadBinding \/ LoadEntries \/ LoadBlocks
    PROVE  LexiconInvariant'
<1>1. /\ LoadIsObserved /\ InForce' = InForce
      /\ room = [at |-> room.at, dictionary |-> room.dictionary,
                 terms |-> room.terms, blocked |-> room.blocked]
  BY TablesStay DEF LexiconInvariant, StartSession, LoadBinding, LoadEntries, LoadBlocks
<1>2. CASE StartSession
  <2>1. /\ room' = [room EXCEPT !.at = "binding"]
        /\ during'.sometime = InForce /\ during'.always = InForce
    BY <1>2 DEF StartSession
  <2>2. room' = [at |-> "binding", dictionary |-> room.dictionary,
                 terms |-> room.terms, blocked |-> room.blocked]
    BY <1>1, <2>1
  <2>3. LoadIsObserved'
    BY <1>1, <2>1, <2>2, FactsInForce DEF LoadIsObserved
  <2> QED
    BY <2>2, <2>3 DEF LexiconInvariant
<1>3. CASE LoadBinding
  <2> DEFINE d == IF \E x \in Dictionaries : Bound(x)
                  THEN CHOOSE x \in Dictionaries : Bound(x) ELSE NoDictionary
  <2>1. room.at = "binding" /\ room' = [room EXCEPT !.at = "entries", !.dictionary = d]
        /\ during' = during
    BY <1>3 DEF LoadBinding
  <2>2. room' = [at |-> "entries", dictionary |-> d, terms |-> room.terms, blocked |-> room.blocked]
    BY <1>1, <2>1
  <2>3. d # NoDictionary => Bound(d)
    OBVIOUS
  <2>4. \A x : Bound(x) => x = d
    <3> SUFFICES ASSUME NEW x, Bound(x) PROVE x = d
      OBVIOUS
    <3>1. \A y, z : Bound(y) /\ Bound(z) => y = z
      BY DEF Bound
    <3>2. x \in Dictionaries
      BY DEF Bound
    <3>3. Bound(d)
      BY <3>2
    <3> QED
      BY <3>1, <3>3
  <2> HIDE DEF d
  <2>5. InForce \subseteq during.sometime /\ during.always \subseteq InForce
    BY <1>1, <2>1 DEF LoadIsObserved, Loading
  <2>6. LoadIsObserved'
    BY <1>1, <2>1, <2>2, <2>5, FactsInForce DEF LoadIsObserved
  <2>7. BindingFound'
    BY <2>1, <2>2, <2>3, <2>4, <2>5, FactsInForce DEF BindingFound
  <2> QED
    BY <2>2, <2>6, <2>7 DEF LexiconInvariant
<1>4. CASE LoadEntries
  <2>1. PICK terms \in TermOrders(ActiveEntries(room.dictionary)) :
           room' = [room EXCEPT !.at = "blocks", !.terms = terms]
    BY <1>4 DEF LoadEntries
  <2>2. room.at = "entries" /\ during' = during
    BY <1>4 DEF LoadEntries
  <2>3. room' = [at |-> "blocks", dictionary |-> room.dictionary,
                 terms |-> terms, blocked |-> room.blocked]
    BY <1>1, <2>1
  <2>4. InForce \subseteq during.sometime /\ during.always \subseteq InForce
    BY <1>1, <2>2 DEF LoadIsObserved, Loading
  <2>5. LoadIsObserved'
    BY <1>1, <2>2, <2>3, <2>4, FactsInForce DEF LoadIsObserved
  <2>6. Range(terms) = ActiveEntries(room.dictionary)
    BY EntriesLoaded
  <2>7. EntriesFound'
    BY <2>2, <2>3, <2>4, <2>6, FactsInForce DEF EntriesFound
  <2>8. BindingFound'
    BY <2>2, <2>3 DEF LexiconInvariant, BindingFound
  <2> QED
    BY <2>3, <2>5, <2>7, <2>8 DEF LexiconInvariant
<1>5. CASE LoadBlocks
  <2>1. PICK words \in BlockOrders(ActiveBlocks) :
           room' = [room EXCEPT !.at = "ready", !.blocked = words]
    BY <1>5 DEF LoadBlocks
  <2>2. room.at = "blocks" /\ during' = during
    BY <1>5 DEF LoadBlocks
  <2>3. room' = [at |-> "ready", dictionary |-> room.dictionary,
                 terms |-> room.terms, blocked |-> words]
    BY <1>1, <2>1
  <2>4. InForce \subseteq during.sometime /\ during.always \subseteq InForce
    BY <1>1, <2>2 DEF LoadIsObserved, Loading
  <2>5. LoadIsObserved'
    BY <2>2, <2>3, <2>4, FactsInForce DEF LoadIsObserved, Loading
  <2>6. Range(words) = ActiveBlocks
    BY BlocksLoaded
  <2>7. BlocksFound'
    BY <2>2, <2>3, <2>4, <2>6, FactsInForce DEF BlocksFound
  <2>8. BindingFound' /\ EntriesFound'
    BY <2>2, <2>3 DEF LexiconInvariant, BindingFound, EntriesFound
  <2> QED
    BY <2>3, <2>5, <2>7, <2>8 DEF LexiconInvariant
<1> QED
  BY <1>2, <1>3, <1>4, <1>5

\* What a session does with its policy leaves the policy alone.
LEMMA SessionSteps ==
    ASSUME LexiconInvariant,
           \/ \E heard \in Heard : Transcribe(heard)
           \/ \E answer \in Answers : Translate(answer)
           \/ Speak \/ EndSession
    PROVE  LexiconInvariant'
<1>1. room = [at |-> room.at, dictionary |-> room.dictionary,
              terms |-> room.terms, blocked |-> room.blocked] /\ LoadIsObserved
  BY DEF LexiconInvariant
<1>2. room.at \in {"ready", "translating", "speaking"} /\ during' = during
  BY DEF Transcribe, Translate, Speak, EndSession
<1>3. CASE EndSession
  BY <1>3 DEF EndSession, NoSession, LexiconInvariant, LoadIsObserved, Loading
<1>4. CASE ~EndSession
  <2>1. PICK at \in {"ready", "translating", "speaking"} : room' = [room EXCEPT !.at = at]
    BY <1>4 DEF Transcribe, Translate, Speak
  <2>2. room' = [at |-> at, dictionary |-> room.dictionary,
                 terms |-> room.terms, blocked |-> room.blocked]
    BY <1>1, <2>1
  <2>3. LoadIsObserved'
    BY <1>1, <1>2, <2>2 DEF LoadIsObserved, Loading
  <2>4. BindingFound' /\ EntriesFound' /\ BlocksFound'
    BY <1>2, <2>2 DEF LexiconInvariant, BindingFound, EntriesFound, BlocksFound
  <2> QED
    BY <2>2, <2>3, <2>4 DEF LexiconInvariant
<1> QED
  BY <1>3, <1>4

LEMMA LexiconKept == LexiconInvariant /\ [LexiconNext]_lexiconVars => LexiconInvariant'
<1> SUFFICES ASSUME LexiconInvariant, [LexiconNext]_lexiconVars PROVE LexiconInvariant'
  OBVIOUS
<1>1. CASE UNCHANGED lexiconVars
  <2>1. UNCHANGED <<room, during>> /\ InForce' = InForce
    BY <1>1, TablesStay DEF lexiconVars
  <2> QED
    BY <2>1 DEF LexiconInvariant, LoadIsObserved, Loading, BindingFound, EntriesFound, BlocksFound
<1>2. CASE LexiconNext
  BY <1>2, TableSteps, LoadSteps, SessionSteps DEF LexiconNext
<1> QED
  BY <1>1, <1>2

\* A session applies every rule that was in force during all of its load, and
\* none that was in force at no moment of it, for any dictionaries and any
\* edits, deletions and switches between the statements of the load
\* (language_policy.rs 29, storage/lexicons.rs 413).
THEOREM SessionsFollowTheLexicon == LexiconSpec => []NewSessionsFollowTheLexicon
<1>1. LexiconInvariant => NewSessionsFollowTheLexicon
  BY DEF LexiconInvariant, LoadIsObserved, BindingFound, EntriesFound, BlocksFound,
         NewSessionsFollowTheLexicon, FactKinds
<1>2. LexiconInit => LexiconInvariant
  BY LexiconStart
<1>3. LexiconInvariant /\ [LexiconNext]_lexiconVars => LexiconInvariant'
  BY LexiconKept
<1> QED
  BY <1>1, <1>2, <1>3, PTL DEF LexiconSpec

-----------------------------------------------------------------------------
(* Induction, on sets of numbers.                                          *)

LEMMA LeastNumber ==
    ASSUME NEW T, T \subseteq Nat, T # {}
    PROVE  \E n \in T : \A m \in T : n <= m
<1> DEFINE R == {p \in Nat \X Nat : p[1] < p[2]}
<1>1. IsWellFoundedOn(R, Nat)
  BY NatLessThanWellFounded DEF OpToRel
<1>2. \A m, n \in Nat : m < n => <<m, n>> \in R
  OBVIOUS
<1> HIDE DEF R
<1>3. PICK n \in T : \A m \in T : ~(<<m, n>> \in R)
  BY <1>1, WFMin
<1>4. ASSUME NEW m \in T PROVE n <= m
  <2>1. m \in Nat /\ n \in Nat /\ ~(m < n)
    BY <1>2, <1>3
  <2> QED
    BY <2>1
<1> QED
  BY <1>4

\* What holds at the end, and at each place if it holds at all later ones.
LEMMA Backwards ==
    ASSUME NEW n \in Nat, NEW S,
           \A i \in 1..n : (\A j \in i + 1 .. n : j \in S) => i \in S
    PROVE  \A i \in 1..n : i \in S
<1> SUFFICES ASSUME NEW i \in 1..n, i \notin S PROVE FALSE
  OBVIOUS
<1> DEFINE T == {k \in Nat : k < n /\ n - k \notin S}
<1>1. n - i \in T
  OBVIOUS
<1>2. T \subseteq Nat /\ T # {}
  BY <1>1
<1>3. PICK k \in T : \A m \in T : k <= m
  BY <1>2, LeastNumber
<1>4. n - k \in 1..n /\ n - k \notin S /\ k \in Nat
  BY <1>3
<1>5. ASSUME NEW j \in n - k + 1 .. n PROVE j \in S
  <2>1. n - j \in Nat /\ n - j < k /\ n - j < n /\ n - (n - j) = j
    BY <1>4
  <2>2. n - j \notin T
    BY <2>1, <1>3, <1>4
  <2> QED
    BY <2>1, <2>2
<1> QED
  BY <1>4, <1>5

\* What holds at first, and at each place if it holds before it.
LEMMA Onwards ==
    ASSUME NEW n \in Nat, NEW S, 0 \in S, \A i \in 1..n : i - 1 \in S => i \in S
    PROVE  \A i \in 0..n : i \in S
<1> SUFFICES ASSUME NEW i \in 0..n, i \notin S PROVE FALSE
  OBVIOUS
<1> DEFINE T == {k \in 0..n : k \notin S}
<1>1. T \subseteq Nat /\ T # {}
  OBVIOUS
<1>2. PICK k \in T : \A m \in T : k <= m
  BY <1>1, LeastNumber
<1>3. k \in 0..n /\ k \notin S /\ k # 0
  BY <1>2
<1>4. k \in 1..n /\ k - 1 \in 0..n /\ k - 1 < k
  BY <1>3
<1>5. k - 1 \in S
  BY <1>2, <1>4
<1> QED
  BY <1>3, <1>4, <1>5

-----------------------------------------------------------------------------
(* ReplaceMatches, as what stands from each place on.                      *)

RestAt(rest, i, text, length, places, replacement) ==
    IF i > Len(text) THEN <<>>
    ELSE IF i \in places THEN replacement \o rest[i + length]
    ELSE <<text[i]>> \o rest[i + 1]
Rests(rest, text, length, places, replacement) ==
    rest = [i \in 1 .. Len(text) + 1 |-> RestAt(rest, i, text, length, places, replacement)]

LEMMA RestsExist ==
    ASSUME NEW text \in Seq(Characters), NEW length \in Nat \ {0}, NEW places,
           NEW replacement \in Seq(Characters),
           \A i \in places : i + length <= Len(text) + 1
    PROVE  \E rest \in [1 .. Len(text) + 1 -> Seq(Characters)] :
              Rests(rest, text, length, places, replacement)
<1> DEFINE n == Len(text) + 1
           At(r, i) == RestAt(r, i, text, length, places, replacement)
           S == {m \in 1..n : \E r \in [m..n -> Seq(Characters)] : \A i \in m..n : r[i] = At(r, i)}
<1>1. n \in Nat /\ n > 0 /\ Len(text) = n - 1 /\ \A i \in 1 .. n - 1 : text[i] \in Characters
  OBVIOUS
<1>2. ASSUME NEW m \in 1..n, \A j \in m + 1 .. n : j \in S PROVE m \in S
  <2>1. CASE m = n
    <3> DEFINE r == [i \in m..n |-> <<>>]
    <3>1. r \in [m..n -> Seq(Characters)]
      OBVIOUS
    <3>2. \A i \in m..n : r[i] = At(r, i)
      BY <1>1, <2>1 DEF RestAt
    <3> HIDE DEF r, At
    <3> QED
      BY <3>1, <3>2
  <2>2. CASE m < n
    <3>1. m + 1 \in S
      <4>1. m + 1 \in m + 1 .. n
        BY <1>1, <2>2
      <4> HIDE DEF S
      <4> QED
        BY <1>2, <4>1
    <3>2. PICK q \in [m + 1 .. n -> Seq(Characters)] : \A i \in m + 1 .. n : q[i] = At(q, i)
      BY <3>1
    <3> DEFINE r == [i \in m..n |-> IF i = m THEN At(q, m) ELSE q[i]]
    <3>3. At(q, m) \in Seq(Characters)
      <4>1. m + 1 \in m + 1 .. n /\ ~(m > n - 1) /\ (m \in places => m + length \in m + 1 .. n)
        BY <1>1, <2>2
      <4>2. q[m + 1] \in Seq(Characters) /\ (m \in places => q[m + length] \in Seq(Characters))
        BY <3>2, <4>1
      <4>3. <<text[m]>> \in Seq(Characters)
        BY <1>1, <4>1
      <4> QED
        BY <1>1, <4>1, <4>2, <4>3, ConcatProperties DEF RestAt
    <3>4. r \in [m..n -> Seq(Characters)]
      BY <3>2, <3>3
    <3>5. ASSUME NEW i \in m..n PROVE r[i] = At(q, i)
      BY <3>2
    <3>6. ASSUME NEW i \in m..n PROVE At(r, i) = At(q, i)
      <4>1. CASE i > n - 1
        BY <1>1, <4>1 DEF RestAt
      <4>2. CASE ~(i > n - 1)
        <5>1. i + 1 \in m..n /\ i + 1 # m
          BY <1>1, <4>2
        <5>2. i \in places => i + length \in m..n /\ i + length # m
          BY <1>1, <4>2
        <5>3. r[i + 1] = q[i + 1] /\ (i \in places => r[i + length] = q[i + length])
          BY <5>1, <5>2
        <5> HIDE DEF r
        <5> QED
          BY <5>3 DEF RestAt
      <4> QED
        BY <4>1, <4>2
    <3> HIDE DEF r, At
    <3> QED
      BY <3>4, <3>5, <3>6
  <2> QED
    BY <1>1, <2>1, <2>2
<1> HIDE DEF S
<1>3. 1 \in S
  <2>1. \A i \in 1..n : (\A j \in i + 1 .. n : j \in S) => i \in S
    BY <1>2
  <2>2. 1 \in 1..n
    BY <1>1
  <2>3. \A i \in 1..n : i \in S
    <3> HIDE DEF n
    <3> QED
      BY <1>1, <2>1, Backwards
  <2> QED
    BY <2>2, <2>3
<1>4. PICK r \in [1..n -> Seq(Characters)] : \A i \in 1..n : r[i] = At(r, i)
  BY <1>3 DEF S
<1>5. r = [i \in 1..n |-> At(r, i)]
  BY <1>4
<1> QED
  BY <1>5 DEF Rests

LEMMA RestsTyped ==
    ASSUME NEW text \in Seq(Characters), NEW length \in Nat \ {0}, NEW places,
           NEW replacement \in Seq(Characters), NEW rest,
           \A i \in places : i + length <= Len(text) + 1,
           Rests(rest, text, length, places, replacement)
    PROVE  rest \in [1 .. Len(text) + 1 -> Seq(Characters)]
<1> DEFINE n == Len(text) + 1
           S == {i \in 1..n : rest[i] \in Seq(Characters)}
<1>1. n \in Nat /\ n > 0 /\ Len(text) = n - 1 /\ \A i \in 1 .. n - 1 : text[i] \in Characters
  OBVIOUS
<1>2. DOMAIN rest = 1..n /\ rest = [i \in 1..n |-> rest[i]]
      /\ \A i \in 1..n : rest[i] = RestAt(rest, i, text, length, places, replacement)
  BY DEF Rests
<1>3. ASSUME NEW i \in 1..n, \A j \in i + 1 .. n : j \in S PROVE i \in S
  <2>1. CASE i > n - 1
    <3>1. i > Len(text)
      BY <1>1, <2>1
    <3>2. rest[i] = <<>>
      BY <1>2, <3>1 DEF RestAt
    <3>3. <<>> \in Seq(Characters)
      OBVIOUS
    <3> QED
      BY <3>2, <3>3
  <2>2. CASE ~(i > n - 1)
    <3>1. i + 1 \in i + 1 .. n /\ (i \in places => i + length \in i + 1 .. n)
      BY <1>1, <2>2
    <3>2. rest[i + 1] \in Seq(Characters) /\ (i \in places => rest[i + length] \in Seq(Characters))
      BY <1>3, <3>1
    <3>3. <<text[i]>> \in Seq(Characters)
      BY <1>1, <2>2
    <3>4. ~(i > Len(text))
      BY <1>1, <2>2
    <3>5. rest[i] = IF i \in places THEN replacement \o rest[i + length] ELSE <<text[i]>> \o rest[i + 1]
      BY <1>2, <3>4 DEF RestAt
    <3>6. rest[i] \in Seq(Characters)
      BY <3>2, <3>3, <3>5, ConcatProperties
    <3> QED
      BY <3>6
  <2> QED
    BY <2>1, <2>2
<1>4. \A i \in 1..n : (\A j \in i + 1 .. n : j \in S) => i \in S
  BY <1>3
<1>5. \A i \in 1..n : i \in S
  <2> HIDE DEF n, S
  <2> QED
    BY <1>1, <1>4, Backwards
<1>6. \A i \in 1..n : rest[i] \in Seq(Characters)
  BY <1>5
<1> HIDE DEF n
<1>7. rest \in [1..n -> Seq(Characters)]
  BY <1>2, <1>6
<1> QED
  BY <1>7 DEF n

MatchesOf(text, needle, exact, entire) ==
    LET same   == IF exact THEN text ELSE Fold(text)
        wanted == IF exact THEN needle ELSE Fold(needle)
        Boundary(i) == i \notin DOMAIN text \/ text[i] \notin WordCharacters
    IN  {i \in Nat : /\ i + Len(needle) <= Len(text) + 1
                     /\ SubSeq(same, i, i + Len(needle) - 1) = wanted
                     /\ entire => Boundary(i - 1) /\ Boundary(i + Len(needle))}

LEMMA Replaced ==
    ASSUME NEW text \in Seq(Characters), NEW needle \in Seq(Characters), needle # <<>>,
           NEW replacement \in Seq(Characters), NEW exact \in BOOLEAN, NEW entire \in BOOLEAN
    PROVE  \E rest \in [1 .. Len(text) + 1 -> Seq(Characters)] :
              /\ Rests(rest, text, Len(needle), MatchesOf(text, needle, exact, entire), replacement)
              /\ ReplaceMatches(text, needle, replacement, exact, entire) = rest[1]
<1> DEFINE places == MatchesOf(text, needle, exact, entire)
           same   == IF exact THEN text ELSE Fold(text)
           wanted == IF exact THEN needle ELSE Fold(needle)
           Boundary(i) == i \notin DOMAIN text \/ text[i] \notin WordCharacters
           Matches(i) == /\ SubSeq(same, i, i + Len(needle) - 1) = wanted
                         /\ entire => Boundary(i - 1) /\ Boundary(i + Len(needle))
           Body(f, i) == IF i > Len(text) THEN <<>>
                         ELSE IF i + Len(needle) <= Len(text) + 1 /\ Matches(i)
                         THEN replacement \o f[i + Len(needle)]
                         ELSE <<text[i]>> \o f[i + 1]
           n == Len(text) + 1
           Chosen == CHOOSE f : f = [i \in 1..n |-> Body(f, i)]
<1>1. ReplaceMatches(text, needle, replacement, exact, entire) = Chosen[1]
  BY DEF ReplaceMatches
<1>2. \A i \in 1..n : i \in places <=> i + Len(needle) <= Len(text) + 1 /\ Matches(i)
  <2>1. \A i \in 1..n : i \in Nat
    OBVIOUS
  <2> QED
    BY <2>1 DEF MatchesOf
<1>3. Len(needle) \in Nat \ {0} /\ \A i \in places : i + Len(needle) <= Len(text) + 1
  BY DEF MatchesOf
<1> HIDE DEF places, Matches
<1>4. \A f : \A i \in 1..n : Body(f, i) = RestAt(f, i, text, Len(needle), places, replacement)
  BY <1>2 DEF RestAt
<1>5. \A f : f = [i \in 1..n |-> Body(f, i)] <=> Rests(f, text, Len(needle), places, replacement)
  <2> HIDE DEF Body
  <2> QED
    BY <1>4 DEF Rests
<1>6. \E f : f = [i \in 1..n |-> Body(f, i)]
  <2>1. \E f : Rests(f, text, Len(needle), places, replacement)
    BY <1>3, RestsExist
  <2> HIDE DEF Body, n
  <2> QED
    BY <1>5, <2>1
<1>7. Chosen = [i \in 1..n |-> Body(Chosen, i)]
  <2> HIDE DEF Body, n
  <2> QED
    BY <1>6
<1> HIDE DEF Chosen, Body
<1>8. Rests(Chosen, text, Len(needle), places, replacement)
  BY <1>5, <1>7
<1>9. Chosen \in [1 .. Len(text) + 1 -> Seq(Characters)]
  BY <1>3, <1>8, RestsTyped
<1> QED
  BY <1>1, <1>8, <1>9 DEF places

-----------------------------------------------------------------------------
(* A replacement of foreign characters brings no word into the text.       *)

InCase(c, exact) == IF exact THEN c ELSE Lowercase(c)

\* From place p of the text on stand the characters of word after the first s.
Stands(text, p, word, s, exact) ==
    /\ p + Len(word) - s <= Len(text) + 1
    /\ \A j \in s + 1 .. Len(word) : InCase(text[p + j - s - 1], exact) = word[j]

Foreign(replacement, word, exact) ==
    /\ replacement # <<>>
    /\ \A i \in 1 .. Len(replacement) : \A j \in 1 .. Len(word) :
          InCase(replacement[i], exact) # word[j]

LEMMA RestStands ==
    ASSUME NEW text \in Seq(Characters), NEW length \in Nat \ {0}, NEW places,
           NEW replacement \in Seq(Characters), NEW word \in Seq(Characters), NEW exact,
           NEW rest \in [1 .. Len(text) + 1 -> Seq(Characters)],
           \A i \in places : i + length <= Len(text) + 1,
           Rests(rest, text, length, places, replacement), Foreign(replacement, word, exact)
    PROVE  \A i \in 1 .. Len(text) + 1 : \A s \in 0 .. Len(word) :
              Stands(rest[i], 1, word, s, exact) => Stands(text, i, word, s, exact)
<1> DEFINE n == Len(text) + 1
           S == {i \in 1..n : \A s \in 0 .. Len(word) :
                    Stands(rest[i], 1, word, s, exact) => Stands(text, i, word, s, exact)}
<1>1. n \in Nat /\ Len(text) = n - 1 /\ Len(word) \in Nat
  OBVIOUS
<1>2. ASSUME NEW i \in 1..n, \A j \in i + 1 .. n : j \in S,
             NEW s \in 0 .. Len(word), Stands(rest[i], 1, word, s, exact)
      PROVE  Stands(text, i, word, s, exact)
  <2>1. CASE s = Len(word)
    <3>1. i + Len(word) - s <= Len(text) + 1
      BY <1>1, <2>1
    <3>2. s + 1 .. Len(word) = {}
      BY <1>1, <2>1
    <3> QED
      BY <3>1, <3>2 DEF Stands
  <2>2. CASE s < Len(word)
    <3>1. /\ s \in Nat /\ s + 1 \in s + 1 .. Len(word) /\ s + 1 \in 0 .. Len(word)
          /\ 1 + (s + 1) - s - 1 = 1
      BY <1>1, <2>2
    <3>2. rest[i] \in Seq(Characters) /\ Len(rest[i]) \in Nat /\ Len(rest[i]) >= Len(word) - s
          /\ Len(rest[i]) > 0 /\ InCase(rest[i][1], exact) = word[s + 1]
          /\ \A j \in s + 1 .. Len(word) : InCase(rest[i][1 + j - s - 1], exact) = word[j]
      <4>1. rest[i] \in Seq(Characters) /\ Len(rest[i]) \in Nat
        OBVIOUS
      <4>2. 1 + Len(word) - s <= Len(rest[i]) + 1
            /\ \A j \in s + 1 .. Len(word) : InCase(rest[i][1 + j - s - 1], exact) = word[j]
        BY <1>2 DEF Stands
      <4>3. InCase(rest[i][1 + (s + 1) - s - 1], exact) = word[s + 1]
        BY <3>1, <4>2
      <4> QED
        BY <1>1, <2>2, <3>1, <4>1, <4>2, <4>3
    <3>3. rest[i] = RestAt(rest, i, text, length, places, replacement)
      BY DEF Rests
    <3>4. i <= Len(text)
      <4> SUFFICES ASSUME i > Len(text) PROVE FALSE
        BY <1>1
      <4>1. rest[i] = <<>>
        BY <3>3 DEF RestAt
      <4> QED
        BY <3>2, <4>1
    <3>5. i \notin places
      <4> SUFFICES ASSUME i \in places PROVE FALSE
        OBVIOUS
      <4>1. rest[i] = replacement \o rest[i + length] /\ i + length \in 1..n
        BY <1>1, <3>3, <3>4 DEF RestAt
      <4>2. Len(replacement) > 0 /\ rest[i + length] \in Seq(Characters)
        BY <4>1 DEF Foreign
      <4>3. rest[i][1] = replacement[1]
        BY <4>1, <4>2, ConcatProperties
      <4>4. 1 \in 1 .. Len(replacement) /\ s + 1 \in 1 .. Len(word)
        BY <1>1, <2>2, <3>1, <4>2
      <4>5. InCase(replacement[1], exact) # word[s + 1]
        BY <4>4 DEF Foreign
      <4> QED
        BY <3>2, <4>3, <4>5
    <3>6. rest[i] = <<text[i]>> \o rest[i + 1] /\ i + 1 \in 1..n /\ i + 1 \in i + 1 .. n
      <4>1. rest[i] = <<text[i]>> \o rest[i + 1]
        BY <1>1, <3>3, <3>4, <3>5 DEF RestAt
      <4> QED
        BY <1>1, <3>4, <4>1
    <3>7. /\ Len(rest[i]) = Len(rest[i + 1]) + 1 /\ rest[i][1] = text[i] /\ Len(rest[i + 1]) \in Nat
          /\ \A k \in 1 .. Len(rest[i + 1]) : rest[i][k + 1] = rest[i + 1][k]
      <4> DEFINE q == rest[i + 1]
      <4>1. q \in Seq(Characters) /\ <<text[i]>> \in Seq(Characters)
        <5>1. i \in 1 .. Len(text) /\ text[i] \in Characters
          BY <1>1, <3>4
        <5>2. q \in Seq(Characters)
          BY <3>6
        <5> QED
          BY <5>1, <5>2
      <4>2. rest[i] = <<text[i]>> \o q
        BY <3>6
      <4> HIDE DEF q
      <4>3. Len(rest[i]) = Len(q) + 1 /\ rest[i][1] = text[i] /\ Len(q) \in Nat
            /\ \A k \in 1 .. Len(q) : rest[i][k + 1] = q[k]
        BY <4>1, <4>2
      <4> QED
        BY <4>3 DEF q
    <3>8. Stands(rest[i + 1], 1, word, s + 1, exact)
      <4>1. 1 + Len(word) - (s + 1) <= Len(rest[i + 1]) + 1
        BY <1>1, <3>1, <3>2, <3>7
      <4>2. ASSUME NEW j \in s + 1 + 1 .. Len(word)
            PROVE  InCase(rest[i + 1][1 + j - (s + 1) - 1], exact) = word[j]
        <5>1. j \in s + 1 .. Len(word) /\ j - s - 1 \in 1 .. Len(rest[i + 1])
              /\ 1 + j - s - 1 = (j - s - 1) + 1 /\ 1 + j - (s + 1) - 1 = j - s - 1
          BY <1>1, <3>1, <3>2, <3>7
        <5>2. rest[i][j - s - 1 + 1] = rest[i + 1][j - s - 1]
          BY <3>7, <5>1
        <5>3. InCase(rest[i][1 + j - s - 1], exact) = word[j]
          BY <3>2, <5>1
        <5> QED
          BY <5>1, <5>2, <5>3
      <4> QED
        BY <4>1, <4>2 DEF Stands
    <3>9. Stands(text, i + 1, word, s + 1, exact)
      BY <1>2, <3>1, <3>6, <3>8
    <3>10. i + Len(word) - s <= Len(text) + 1
      BY <1>1, <3>1, <3>9 DEF Stands
    <3>11. ASSUME NEW j \in s + 1 .. Len(word) PROVE InCase(text[i + j - s - 1], exact) = word[j]
      <4>1. CASE j = s + 1
        <5>1. i + j - s - 1 = i
          BY <3>1, <4>1
        <5> QED
          BY <3>2, <3>7, <4>1, <5>1
      <4>2. CASE j # s + 1
        <5>1. j \in s + 1 + 1 .. Len(word) /\ i + 1 + j - (s + 1) - 1 = i + j - s - 1
          BY <1>1, <3>1, <4>2
        <5>2. InCase(text[i + 1 + j - (s + 1) - 1], exact) = word[j]
          BY <3>9, <5>1 DEF Stands
        <5> QED
          BY <5>1, <5>2
      <4> QED
        BY <4>1, <4>2
    <3> QED
      BY <3>10, <3>11 DEF Stands
  <2> QED
    BY <1>1, <2>1, <2>2
<1>3. \A i \in 1..n : (\A j \in i + 1 .. n : j \in S) => i \in S
  BY <1>2
<1>4. \A i \in 1..n : i \in S
  <2> HIDE DEF n, S
  <2> QED
    BY <1>1, <1>3, Backwards
<1> QED
  BY <1>4

\* No word comes with the replacements, if none stood where nothing was replaced.
LEMMA NothingStands ==
    ASSUME NEW text \in Seq(Characters), NEW length \in Nat \ {0}, NEW places,
           NEW replacement \in Seq(Characters), NEW word \in Seq(Characters), NEW exact,
           NEW rest \in [1 .. Len(text) + 1 -> Seq(Characters)],
           \A i \in places : i + length <= Len(text) + 1,
           Rests(rest, text, length, places, replacement), Foreign(replacement, word, exact),
           word # <<>>,
           \A i \in 1 .. Len(text) : i \notin places => ~Stands(text, i, word, 0, exact)
    PROVE  \A p \in Nat \ {0} : ~Stands(rest[1], p, word, 0, exact)
<1> DEFINE n == Len(text) + 1
           S == {i \in 1..n : \A p \in Nat \ {0} : ~Stands(rest[i], p, word, 0, exact)}
<1>1. n \in Nat /\ n > 0 /\ Len(text) = n - 1 /\ Len(word) \in Nat /\ Len(word) > 0
  OBVIOUS
<1>2. ASSUME NEW i \in 1..n, \A j \in i + 1 .. n : j \in S,
             NEW p \in Nat \ {0}, Stands(rest[i], p, word, 0, exact)
      PROVE  FALSE
  <2>1. /\ rest[i] \in Seq(Characters) /\ Len(rest[i]) \in Nat /\ p <= Len(rest[i])
        /\ p + Len(word) <= Len(rest[i]) + 1
        /\ \A j \in 1 .. Len(word) : InCase(rest[i][p + j - 1], exact) = word[j]
    <3>1. rest[i] \in Seq(Characters) /\ Len(rest[i]) \in Nat
      OBVIOUS
    <3>2. p + Len(word) - 0 <= Len(rest[i]) + 1
          /\ \A j \in 0 + 1 .. Len(word) : InCase(rest[i][p + j - 0 - 1], exact) = word[j]
      BY <1>2 DEF Stands
    <3>3. \A j \in 1 .. Len(word) : p + j - 0 - 1 = p + j - 1
      OBVIOUS
    <3>4. \A j \in 1 .. Len(word) : InCase(rest[i][p + j - 1], exact) = word[j]
      BY <3>2, <3>3
    <3> QED
      BY <1>1, <3>1, <3>2, <3>4
  <2>2. rest[i] = RestAt(rest, i, text, length, places, replacement)
    BY DEF Rests
  <2>3. i <= Len(text)
    <3> SUFFICES ASSUME i > Len(text) PROVE FALSE
      BY <1>1
    <3>1. rest[i] = <<>>
      BY <2>2 DEF RestAt
    <3> QED
      BY <2>1, <3>1
  <2>4. CASE i \in places
    <3> DEFINE q == rest[i + length]
    <3>1. rest[i] = replacement \o q /\ i + length \in 1..n /\ i + length \in i + 1 .. n
      BY <1>1, <2>2, <2>3, <2>4 DEF RestAt
    <3>2. q \in Seq(Characters) /\ \A k \in Nat \ {0} : ~Stands(q, k, word, 0, exact)
      BY <1>2, <3>1
    <3> HIDE DEF q
    <3>3. /\ Len(rest[i]) = Len(replacement) + Len(q) /\ Len(q) \in Nat /\ Len(replacement) \in Nat
          /\ \A k \in 1 .. Len(replacement) + Len(q) : rest[i][k] =
                IF k <= Len(replacement) THEN replacement[k] ELSE q[k - Len(replacement)]
      BY <3>1, <3>2, ConcatProperties
    <3>6. \A m \in 1 .. Len(replacement) + Len(q) :
             ~(m <= Len(replacement)) => rest[i][m] = q[m - Len(replacement)]
      BY <3>3
    <3>4. CASE p <= Len(replacement)
      <4>1. rest[i][p] = replacement[p] /\ p + 1 - 1 = p
            /\ 1 \in 1 .. Len(word) /\ p \in 1 .. Len(replacement)
        BY <1>1, <3>3, <3>4
      <4>2. InCase(replacement[p], exact) # word[1]
        BY <4>1 DEF Foreign
      <4>3. InCase(rest[i][p + 1 - 1], exact) = word[1]
        BY <2>1, <4>1
      <4> QED
        BY <4>1, <4>2, <4>3
    <3>5. CASE p > Len(replacement)
      <4> DEFINE k == p - Len(replacement)
      <4>1. k \in Nat \ {0} /\ p = Len(replacement) + k
        BY <3>3, <3>5
      <4> HIDE DEF k
      <4>2. k + Len(word) - 0 <= Len(q) + 1
        BY <1>1, <2>1, <3>3, <4>1
      <4>3. ASSUME NEW j \in 0 + 1 .. Len(word)
            PROVE  InCase(q[k + j - 0 - 1], exact) = word[j]
        <5>1. /\ j \in 1 .. Len(word) /\ p + j - 1 \in 1 .. Len(replacement) + Len(q)
              /\ p + j - 1 - Len(replacement) = k + j - 0 - 1 /\ ~(p + j - 1 <= Len(replacement))
          BY <1>1, <2>1, <3>3, <4>1
        <5>2. rest[i][p + j - 1] = q[p + j - 1 - Len(replacement)]
          <6> DEFINE m == p + j - 1
          <6>1. m \in 1 .. Len(replacement) + Len(q) /\ ~(m <= Len(replacement))
            BY <5>1
          <6> HIDE DEF m
          <6>2. rest[i][m] = q[m - Len(replacement)]
            BY <3>6, <6>1
          <6> QED
            BY <6>2 DEF m
        <5>3. InCase(rest[i][p + j - 1], exact) = word[j]
          BY <2>1, <5>1
        <5> QED
          BY <5>1, <5>2, <5>3
      <4>4. Stands(q, k, word, 0, exact)
        BY <4>2, <4>3 DEF Stands
      <4> QED
        BY <3>2, <4>1, <4>4
    <3> QED
      BY <3>3, <3>4, <3>5
  <2>5. CASE i \notin places
    <3> DEFINE q == rest[i + 1]
    <3>1. rest[i] = <<text[i]>> \o q /\ i + 1 \in 1..n /\ i + 1 \in i + 1 .. n /\ i \in 1 .. Len(text)
      <4>1. rest[i] = <<text[i]>> \o q
        BY <1>1, <2>2, <2>3, <2>5 DEF RestAt
      <4> QED
        BY <1>1, <2>3, <4>1
    <3>2. q \in Seq(Characters) /\ \A k \in Nat \ {0} : ~Stands(q, k, word, 0, exact)
      BY <1>2, <3>1
    <3> HIDE DEF q
    <3>3. <<text[i]>> \in Seq(Characters)
      <4>1. text[i] \in Characters
        BY <3>1
      <4> QED
        BY <4>1
    <3>4. /\ Len(rest[i]) = Len(q) + 1 /\ Len(q) \in Nat
          /\ \A k \in 1 .. Len(q) : rest[i][k + 1] = q[k]
      BY <3>1, <3>2, <3>3
    <3>5. CASE p = 1
      <4>1. Stands(text, i, word, 0, exact)
        <5>1. 0 \in 0 .. Len(word)
          BY <1>1
        <5> QED
          BY <1>2, <3>5, <5>1, RestStands
      <4> QED
        BY <2>5, <3>1, <4>1
    <3>6. CASE p # 1
      <4> DEFINE k == p - 1
      <4>1. k \in Nat \ {0} /\ p = k + 1
        BY <3>6
      <4> HIDE DEF k
      <4>2. k + Len(word) - 0 <= Len(q) + 1
        BY <1>1, <2>1, <3>4, <4>1
      <4>3. ASSUME NEW j \in 0 + 1 .. Len(word)
            PROVE  InCase(q[k + j - 0 - 1], exact) = word[j]
        <5>1. /\ j \in 1 .. Len(word) /\ k + j - 0 - 1 \in 1 .. Len(q)
              /\ p + j - 1 = (k + j - 0 - 1) + 1
          BY <1>1, <2>1, <3>4, <4>1
        <5>2. rest[i][(k + j - 0 - 1) + 1] = q[k + j - 0 - 1]
          BY <3>4, <5>1
        <5>3. InCase(rest[i][p + j - 1], exact) = word[j]
          BY <2>1, <5>1
        <5> QED
          BY <5>1, <5>2, <5>3
      <4>4. Stands(q, k, word, 0, exact)
        BY <4>2, <4>3 DEF Stands
      <4> QED
        BY <3>2, <4>1, <4>4
    <3> QED
      BY <3>5, <3>6
  <2> QED
    BY <2>4, <2>5
<1>3. \A i \in 1..n : (\A j \in i + 1 .. n : j \in S) => i \in S
  BY <1>2
<1>4. \A i \in 1..n : i \in S
  <2> HIDE DEF n, S
  <2> QED
    BY <1>1, <1>3, Backwards
<1> QED
  BY <1>1, <1>4

-----------------------------------------------------------------------------
(* The words of a policy.                                                  *)

Same(text, exact) == IF exact THEN text ELSE Fold(text)

LEMMA SameText ==
    ASSUME NEW text \in Seq(Characters), NEW exact
    PROVE  /\ Same(text, exact) \in Seq(Characters) /\ Len(Same(text, exact)) = Len(text)
           /\ \A i \in 1 .. Len(text) : Same(text, exact)[i] = InCase(text[i], exact)
<1>1. /\ Fold(text) \in Seq(Characters) /\ Len(Fold(text)) = Len(text)
      /\ \A i \in 1 .. Len(text) : Fold(text)[i] = Lowercase(text[i])
  <2>1. \A i \in DOMAIN text : Lowercase(text[i]) \in Characters
    BY LexiconAssumption
  <2>2. Fold(text) = [i \in 1 .. Len(text) |-> Lowercase(text[i])]
    BY DEF Fold
  <2> QED
    BY <2>1, <2>2
<1> QED
  BY <1>1 DEF Same, InCase

LEMMA SubSeqStands ==
    ASSUME NEW text \in Seq(Characters), NEW needle \in Seq(Characters), needle # <<>>, NEW exact,
           NEW p \in Nat \ {0}, p + Len(needle) <= Len(text) + 1
    PROVE  SubSeq(Same(text, exact), p, p + Len(needle) - 1) = Same(needle, exact)
               <=> Stands(text, p, Same(needle, exact), 0, exact)
<1> DEFINE same   == Same(text, exact)
           wanted == Same(needle, exact)
           part   == SubSeq(same, p, p + Len(needle) - 1)
<1>1. /\ same \in Seq(Characters) /\ Len(same) = Len(text)
      /\ wanted \in Seq(Characters) /\ Len(wanted) = Len(needle)
      /\ \A i \in 1 .. Len(text) : same[i] = InCase(text[i], exact)
  BY SameText
<1>2. Len(needle) \in Nat /\ Len(needle) > 0 /\ Len(text) \in Nat
  OBVIOUS
<1> HIDE DEF same, wanted
<1>3. /\ part \in Seq(Characters) /\ Len(part) = Len(needle)
      /\ \A j \in 1 .. Len(needle) : part[j] = same[p + j - 1]
  BY <1>1, <1>2
<1> HIDE DEF part
<1>4. part = wanted <=> \A j \in 1 .. Len(needle) : part[j] = wanted[j]
  BY <1>1, <1>3
<1>5. \A j \in 1 .. Len(needle) :
         p + j - 1 \in 1 .. Len(text) /\ p + j - 0 - 1 = p + j - 1
  BY <1>2
<1>6. \A j \in 1 .. Len(needle) : part[j] = InCase(text[p + j - 0 - 1], exact)
  BY <1>1, <1>3, <1>5
<1>7. p + Len(wanted) - 0 <= Len(text) + 1 /\ 0 + 1 .. Len(wanted) = 1 .. Len(needle)
  BY <1>1, <1>2
<1>8. Stands(text, p, wanted, 0, exact) <=> \A j \in 1 .. Len(needle) : part[j] = wanted[j]
  BY <1>6, <1>7 DEF Stands
<1> QED
  BY <1>4, <1>8 DEF part, same, wanted

Wanted(block) == Same(block.word, block.exact)

LEMMA WantedWords ==
    ASSUME NEW x \in Blocks
    PROVE  /\ x.word \in Seq(Characters) /\ x.word # <<>> /\ x.replacement \in Seq(Characters)
           /\ Wanted(x) \in Seq(Characters) /\ Len(Wanted(x)) = Len(x.word) /\ Wanted(x) # <<>>
<1>1. x.word \in Seq(Characters) /\ x.word # <<>> /\ x.replacement \in Seq(Characters)
  BY LexiconAssumption
<1>2. Wanted(x) \in Seq(Characters) /\ Len(Wanted(x)) = Len(x.word)
  BY <1>1, SameText DEF Wanted
<1>3. Len(x.word) # 0
  BY <1>1
<1> QED
  BY <1>1, <1>2, <1>3

LEMMA OccursStands ==
    ASSUME NEW text \in Seq(Characters), NEW x \in Blocks
    PROVE  Occurs(text, x) <=> \E p \in Nat \ {0} : Stands(text, p, Wanted(x), 0, x.exact)
<1>1. x.word \in Seq(Characters) /\ x.word # <<>> /\ Len(Wanted(x)) = Len(x.word)
      /\ Len(x.word) \in Nat /\ Len(text) \in Nat
  BY WantedWords
<1>2. \A p \in Nat \ {0} : p + Len(x.word) <= Len(text) + 1 =>
         (SubSeq(Same(text, x.exact), p, p + Len(x.word) - 1) = Wanted(x)
             <=> Stands(text, p, Wanted(x), 0, x.exact))
  BY <1>1, SubSeqStands DEF Wanted
<1>3. \A p \in Nat \ {0} : Stands(text, p, Wanted(x), 0, x.exact) => p + Len(x.word) <= Len(text) + 1
  <2> SUFFICES ASSUME NEW p \in Nat \ {0}, Stands(text, p, Wanted(x), 0, x.exact)
               PROVE  p + Len(x.word) <= Len(text) + 1
    OBVIOUS
  <2>1. p + Len(Wanted(x)) - 0 <= Len(text) + 1
    BY DEF Stands
  <2> QED
    BY <1>1, <2>1
<1>4. Occurs(text, x) <=> \E p \in 1 .. Len(text) - Len(x.word) + 1 :
                             SubSeq(Same(text, x.exact), p, p + Len(x.word) - 1) = Wanted(x)
  BY <1>1 DEF Occurs, Same, Wanted
<1>5. \A p : p \in 1 .. Len(text) - Len(x.word) + 1
                <=> p \in Nat \ {0} /\ p + Len(x.word) <= Len(text) + 1
  <2>1. ASSUME NEW p \in 1 .. Len(text) - Len(x.word) + 1
        PROVE  p \in Nat \ {0} /\ p + Len(x.word) <= Len(text) + 1
    BY <1>1
  <2>2. ASSUME NEW p \in Nat \ {0}, p + Len(x.word) <= Len(text) + 1
        PROVE  p \in 1 .. Len(text) - Len(x.word) + 1
    BY <1>1, <2>2
  <2> QED
    BY <2>1, <2>2
<1> QED
  BY <1>2, <1>3, <1>4, <1>5

\* A blocked word that is replaced stays out, and no replacement brings one.
LEMMA BlockReplaced ==
    ASSUME NEW text \in Seq(Characters), NEW b \in Blocks, NEW x \in Blocks, ~x.whole,
           Foreign(b.replacement, Wanted(x), x.exact), ~Occurs(text, x) \/ b = x
    PROVE  ~Occurs(ReplaceMatches(text, b.word, b.replacement, b.exact, b.whole), x)
<1> DEFINE places == MatchesOf(text, b.word, b.exact, b.whole)
           result == ReplaceMatches(text, b.word, b.replacement, b.exact, b.whole)
<1>1. /\ b.word \in Seq(Characters) /\ b.word # <<>> /\ b.replacement \in Seq(Characters)
      /\ Wanted(x) \in Seq(Characters) /\ Wanted(x) # <<>>
      /\ Len(b.word) \in Nat \ {0} /\ Len(text) \in Nat
  <2>1. /\ b.word \in Seq(Characters) /\ b.word # <<>> /\ b.replacement \in Seq(Characters)
        /\ Wanted(x) \in Seq(Characters) /\ Wanted(x) # <<>>
    BY WantedWords
  <2> QED
    BY <2>1
<1>2. PICK rest \in [1 .. Len(text) + 1 -> Seq(Characters)] :
         Rests(rest, text, Len(b.word), places, b.replacement) /\ result = rest[1]
  <2> DEFINE word  == b.word
             given == b.replacement
             exact == b.exact
             entire == b.whole
  <2>1. /\ word \in Seq(Characters) /\ word # <<>> /\ given \in Seq(Characters)
        /\ exact \in BOOLEAN /\ entire \in BOOLEAN
    BY <1>1, LexiconAssumption
  <2> HIDE DEF word, given, exact, entire
  <2>2. \E rest \in [1 .. Len(text) + 1 -> Seq(Characters)] :
           /\ Rests(rest, text, Len(word), MatchesOf(text, word, exact, entire), given)
           /\ ReplaceMatches(text, word, given, exact, entire) = rest[1]
    BY <2>1, Replaced
  <2> QED
    BY <2>2 DEF word, given, exact, entire
<1>3. \A i \in places : i + Len(b.word) <= Len(text) + 1
  BY DEF MatchesOf
<1>4. \A i \in 1 .. Len(text) : i \notin places => ~Stands(text, i, Wanted(x), 0, x.exact)
  <2>1. CASE ~Occurs(text, x)
    BY <2>1, OccursStands
  <2>2. CASE b = x
    <3> SUFFICES ASSUME NEW i \in 1 .. Len(text), Stands(text, i, Wanted(x), 0, x.exact)
                 PROVE  i \in places
      OBVIOUS
    <3>1. i + Len(x.word) <= Len(text) + 1
      <4>1. i + Len(Wanted(x)) - 0 <= Len(text) + 1
        BY DEF Stands
      <4>2. Len(Wanted(x)) = Len(x.word)
        BY WantedWords
      <4> QED
        BY <1>1, <2>2, <4>1, <4>2
    <3>2. SubSeq(Same(text, x.exact), i, i + Len(x.word) - 1) = Same(x.word, x.exact)
      <4>1. /\ i \in Nat \ {0} /\ x.word \in Seq(Characters) /\ x.word # <<>>
            /\ Stands(text, i, Same(x.word, x.exact), 0, x.exact)
        BY <1>1, <2>2 DEF Wanted
      <4> QED
        BY <3>1, <4>1, SubSeqStands
    <3> QED
      BY <2>2, <3>1, <3>2 DEF MatchesOf, Same
  <2> QED
    BY <2>1, <2>2
<1> HIDE DEF places, result
<1>5. \A p \in Nat \ {0} : ~Stands(rest[1], p, Wanted(x), 0, x.exact)
  BY <1>1, <1>2, <1>3, <1>4, NothingStands
<1>6. result \in Seq(Characters) /\ ~Occurs(result, x)
  BY <1>1, <1>2, <1>5, OccursStands
<1> QED
  BY <1>6 DEF result

-----------------------------------------------------------------------------
(* Folds over the words of a policy, and what sanitizing makes of a text.  *)

LEMMA LargestNumber ==
    ASSUME NEW n \in Nat, NEW s \in SUBSET (1..n), s # {}
    PROVE  Max(s) \in s /\ \A m \in s : Max(s) >= m
<1> DEFINE T == {k \in Nat : n - k \in s}
<1>1. PICK m \in s : TRUE
  OBVIOUS
<1>2. n - m \in T /\ T \subseteq Nat
  OBVIOUS
<1>3. PICK k \in T : \A j \in T : k <= j
  BY <1>2, LeastNumber
<1>4. \A j \in s : n - k >= j
  <2> SUFFICES ASSUME NEW j \in s PROVE n - k >= j
    OBVIOUS
  <2>1. j \in Nat /\ n - (n - j) = j /\ n - j \in Nat
    OBVIOUS
  <2>2. n - j \in T
    BY <2>1
  <2>3. k <= n - j /\ k \in Nat
    BY <1>3, <2>2
  <2> QED
    BY <2>1, <2>3
<1>5. n - k \in s
  BY <1>3
<1> QED
  BY <1>4, <1>5 DEF Max

\* A recursion over the subsets of 1..n, as folds have it, has a solution.
StepsIn(F, n, X) == \A i \in 1..n : \A x \in X : F[i][x] \in X
Solves(g, n, X, base, F) ==
    /\ g \in [SUBSET (1..n) -> X]
    /\ \A s \in SUBSET (1..n) : g[s] = IF s = {} THEN base ELSE F[Max(s)][g[s \ {Max(s)}]]

LEMMA FoldExists ==
    ASSUME NEW n \in Nat, NEW X, NEW base \in X, NEW F, StepsIn(F, n, X)
    PROVE  \E g : Solves(g, n, X, base, F)
<1> DEFINE Body(g, s) == IF s = {} THEN base ELSE F[Max(s)][g[s \ {Max(s)}]]
           S == {m \in 0..n : \E g \in [SUBSET (1..m) -> X] :
                    \A s \in SUBSET (1..m) : g[s] = Body(g, s)}
<1>1. 0 \in S
  <2> DEFINE g == [s \in SUBSET (1..0) |-> base]
  <2>1. g \in [SUBSET (1..0) -> X] /\ \A s \in SUBSET (1..0) : s = {}
    OBVIOUS
  <2>2. \A s \in SUBSET (1..0) : g[s] = Body(g, s)
    BY <2>1
  <2> HIDE DEF g, Body
  <2>3. \E h \in [SUBSET (1..0) -> X] : \A s \in SUBSET (1..0) : h[s] = Body(h, s)
    BY <2>1, <2>2
  <2>4. 0 \in 0..n
    OBVIOUS
  <2> QED
    BY <2>3, <2>4
<1>2. ASSUME NEW m \in 1..n, m - 1 \in S PROVE m \in S
  <2>1. PICK f \in [SUBSET (1 .. m - 1) -> X] :
           \A s \in SUBSET (1 .. m - 1) : f[s] = Body(f, s)
    BY <1>2
  <2> DEFINE g == [s \in SUBSET (1..m) |-> IF m \in s THEN F[m][f[s \ {m}]] ELSE f[s]]
  <2>2. \A s \in SUBSET (1..m) : s \ {m} \in SUBSET (1 .. m - 1)
    <3>1. \A k \in 1..m : k # m => k \in 1 .. m - 1
      OBVIOUS
    <3> QED
      BY <3>1
  <2>3. g \in [SUBSET (1..m) -> X]
    <3> SUFFICES ASSUME NEW s \in SUBSET (1..m)
                 PROVE  (IF m \in s THEN F[m][f[s \ {m}]] ELSE f[s]) \in X
      OBVIOUS
    <3>1. f[s \ {m}] \in X
      BY <2>1, <2>2
    <3>2. m \notin s => s \ {m} = s
      OBVIOUS
    <3> QED
      BY <3>1, <3>2 DEF StepsIn
  <2>4. ASSUME NEW s \in SUBSET (1..m) PROVE g[s] = Body(g, s)
    <3>1. CASE s = {}
      <4>1. g[s] = f[s] /\ s \in SUBSET (1 .. m - 1)
        BY <3>1
      <4> QED
        BY <2>1, <3>1, <4>1
    <3>2. CASE s # {}
      <4>1. Max(s) \in s /\ \A k \in s : Max(s) >= k
        <5>1. m \in Nat
          OBVIOUS
        <5> QED
          BY <3>2, <5>1, LargestNumber
      <4>2. CASE m \in s
        <5>1. Max(s) = m
          <6>1. Max(s) \in 1..m /\ Max(s) >= m
            BY <4>1, <4>2
          <6> QED
            BY <6>1
        <5>2. s \ {m} \in SUBSET (1..m) /\ m \notin s \ {m}
          BY <2>2
        <5>3. g[s \ {m}] = f[s \ {m}]
          BY <5>2
        <5>4. g[s] = F[m][f[s \ {m}]]
          BY <4>2
        <5> HIDE DEF g
        <5> QED
          BY <3>2, <5>1, <5>3, <5>4
      <4>3. CASE m \notin s
        <5> DEFINE t == s \ {Max(s)}
        <5>1. s \in SUBSET (1 .. m - 1) /\ t \in SUBSET (1..m) /\ m \notin t
          <6>1. s \ {m} = s
            BY <4>3
          <6> QED
            BY <2>2, <4>3, <6>1
        <5>2. g[s] = f[s] /\ g[t] = f[t]
          BY <4>3, <5>1
        <5>3. f[s] = F[Max(s)][f[t]]
          BY <2>1, <3>2, <5>1
        <5> HIDE DEF g, t
        <5>4. g[s] = F[Max(s)][g[t]]
          BY <5>2, <5>3
        <5> QED
          BY <3>2, <5>4 DEF t
      <4> QED
        BY <4>2, <4>3
    <3> QED
      BY <3>1, <3>2
  <2> HIDE DEF g, Body
  <2>5. \E h \in [SUBSET (1..m) -> X] : \A s \in SUBSET (1..m) : h[s] = Body(h, s)
    BY <2>3, <2>4
  <2>6. m \in 0..n
    OBVIOUS
  <2> QED
    BY <2>5, <2>6
<1>3. n \in S
  <2>1. \A i \in 1..n : i - 1 \in S => i \in S
    BY <1>2
  <2>2. \A i \in 0..n : i \in S
    <3> HIDE DEF S
    <3> QED
      BY <1>1, <2>1, Onwards
  <2>3. n \in 0..n
    OBVIOUS
  <2> HIDE DEF S
  <2> QED
    BY <2>2, <2>3
<1> QED
  BY <1>3 DEF Solves

LEMMA FirstNumbers ==
    ASSUME NEW n \in Nat, NEW k \in 1..n
    PROVE  /\ 1..k \in SUBSET (1..n) /\ 1..k # {} /\ Max(1..k) = k
           /\ (1..k) \ {Max(1..k)} = 1 .. k - 1
<1>1. 1..k \in SUBSET (1..n) /\ 1..k # {} /\ k \in 1..k
  OBVIOUS
<1>2. Max(1..k) \in 1..k /\ Max(1..k) >= k
  BY <1>1, LargestNumber
<1>3. Max(1..k) = k
  BY <1>2
<1>4. ASSUME NEW j PROVE j \in (1..k) \ {k} <=> j \in 1 .. k - 1
  OBVIOUS
<1>5. (1..k) \ {k} = 1 .. k - 1
  BY <1>4
<1>6. (1..k) \ {Max(1..k)} = 1 .. k - 1
  BY <1>3, <1>5
<1> QED
  BY <1>1, <1>3, <1>6

LEMMA TextReplaced ==
    ASSUME NEW text \in Seq(Characters), NEW needle \in Seq(Characters),
           NEW replacement \in Seq(Characters), NEW exact \in BOOLEAN, NEW entire \in BOOLEAN
    PROVE  ReplaceMatches(text, needle, replacement, exact, entire) \in Seq(Characters)
<1>1. CASE needle = <<>>
  BY <1>1 DEF ReplaceMatches
<1>2. CASE needle # <<>>
  <2>1. PICK rest \in [1 .. Len(text) + 1 -> Seq(Characters)] :
           /\ Rests(rest, text, Len(needle), MatchesOf(text, needle, exact, entire), replacement)
           /\ ReplaceMatches(text, needle, replacement, exact, entire) = rest[1]
    BY <1>2, Replaced
  <2>2. 1 \in 1 .. Len(text) + 1
    OBVIOUS
  <2> QED
    BY <2>1, <2>2
<1> QED
  BY <1>1, <1>2

LEMMA BlockTyped ==
    ASSUME NEW text \in Seq(Characters), NEW b \in Blocks
    PROVE  ReplaceMatches(text, b.word, b.replacement, b.exact, b.whole) \in Seq(Characters)
<1> DEFINE word  == b.word
           given == b.replacement
           exact == b.exact
           entire == b.whole
<1>1. /\ word \in Seq(Characters) /\ given \in Seq(Characters)
      /\ exact \in BOOLEAN /\ entire \in BOOLEAN
  BY LexiconAssumption
<1> HIDE DEF word, given, exact, entire
<1>2. ReplaceMatches(text, word, given, exact, entire) \in Seq(Characters)
  BY <1>1, TextReplaced
<1> QED
  BY <1>2 DEF word, given, exact, entire

\* The texts between the words of a policy.
LEMMA SanitizeSteps ==
    ASSUME NEW policy, NEW text \in Seq(Characters), policy.blocked \in Seq(Blocks)
    PROVE  LET n == Len(policy.blocked)
           IN  \E c \in [0..n -> Seq(Characters)] :
                  /\ c[0] = text /\ Sanitize(policy, text) = c[n]
                  /\ \A i \in 1..n : LET b == policy.blocked[i]
                                     IN  c[i] = ReplaceMatches(c[i - 1], b.word, b.replacement, b.exact, b.whole)
<1> DEFINE n == Len(policy.blocked)
           Pass(x, b) == ReplaceMatches(x, b.word, b.replacement, b.exact, b.whole)
           Body(f, s) == IF s = {} THEN text
                         ELSE Pass(f[s \ {Max(s)}], policy.blocked[Max(s)])
           Chosen == CHOOSE f : f = [s \in SUBSET DOMAIN policy.blocked |-> Body(f, s)]
<1>1. Sanitize(policy, text) = Chosen[DOMAIN policy.blocked]
  BY DEF Sanitize, FoldLeft, MapThenFoldSet
<1>2. n \in Nat /\ DOMAIN policy.blocked = 1..n /\ \A i \in 1..n : policy.blocked[i] \in Blocks
  OBVIOUS
<1> HIDE DEF n
<1>3. \A x \in Seq(Characters), i \in 1..n : Pass(x, policy.blocked[i]) \in Seq(Characters)
  BY <1>2, BlockTyped
<1> HIDE DEF Pass
<1>4. \E f : f = [s \in SUBSET (1..n) |-> Body(f, s)]
  <2> DEFINE F == [i \in 1..n |-> [x \in Seq(Characters) |-> Pass(x, policy.blocked[i])]]
  <2>1. \A x \in Seq(Characters), i \in 1..n : F[i][x] = Pass(x, policy.blocked[i])
    OBVIOUS
  <2>2. StepsIn(F, n, Seq(Characters))
    BY <1>3, <2>1 DEF StepsIn
  <2> HIDE DEF F
  <2>3. PICK g : Solves(g, n, Seq(Characters), text, F)
    BY <1>2, <2>2, FoldExists, Zenon
  <2>4. ASSUME NEW s \in SUBSET (1..n) PROVE g[s] = Body(g, s)
    <3>1. CASE s # {}
      <4>1. Max(s) \in 1..n
        BY <1>2, <3>1, LargestNumber
      <4>2. g[s \ {Max(s)}] \in Seq(Characters)
        BY <2>3 DEF Solves
      <4> QED
        BY <2>1, <2>3, <3>1, <4>1, <4>2 DEF Solves
    <3> QED
      BY <2>3, <3>1 DEF Solves
  <2>5. g \in [SUBSET (1..n) -> Seq(Characters)]
    BY <2>3 DEF Solves
  <2> HIDE DEF Body
  <2> QED
    BY <2>4, <2>5
<1>5. Chosen = [s \in SUBSET (1..n) |-> Body(Chosen, s)]
  <2> HIDE DEF Body
  <2> QED
    BY <1>2, <1>4
<1> HIDE DEF Chosen
<1>6. Chosen[{}] = text /\ \A i \in 1..n : Chosen[1..i] = Pass(Chosen[1 .. i - 1], policy.blocked[i])
  <2>1. \A s \in SUBSET (1..n) : Chosen[s] = Body(Chosen, s)
    <3> HIDE DEF Body
    <3> QED
      BY <1>5
  <2>2. Chosen[{}] = text
    BY <2>1
  <2>3. ASSUME NEW i \in 1..n PROVE Chosen[1..i] = Pass(Chosen[1 .. i - 1], policy.blocked[i])
    <3>1. /\ 1..i \in SUBSET (1..n) /\ 1..i # {} /\ Max(1..i) = i
          /\ (1..i) \ {Max(1..i)} = 1 .. i - 1
      BY <1>2, FirstNumbers
    <3>2. Chosen[1..i] = Pass(Chosen[(1..i) \ {Max(1..i)}], policy.blocked[Max(1..i)])
      BY <2>1, <3>1
    <3> QED
      BY <3>1, <3>2
  <2> QED
    BY <2>2, <2>3
<1> DEFINE c == [i \in 0..n |-> Chosen[1..i]]
<1>7. c[0] = text /\ c[n] = Sanitize(policy, text)
      /\ \A i \in 1..n : c[i] = Pass(c[i - 1], policy.blocked[i])
  <2>1. 1..0 = {} /\ 0 \in 0..n /\ n \in 0..n /\ \A i \in 1..n : i \in 0..n /\ i - 1 \in 0..n
    BY <1>2
  <2> QED
    BY <1>1, <1>2, <1>6, <2>1
<1> HIDE DEF c
<1>8. \A i \in 0..n : c[i] \in Seq(Characters)
  <2> DEFINE S == {i \in 0..n : c[i] \in Seq(Characters)}
  <2>1. 0 \in S
    BY <1>2, <1>7
  <2>2. \A i \in 1..n : i - 1 \in S => i \in S
    <3> SUFFICES ASSUME NEW i \in 1..n, i - 1 \in S PROVE i \in S
      OBVIOUS
    <3>1. c[i - 1] \in Seq(Characters) /\ i \in 0..n
      BY <1>2
    <3>2. c[i] = Pass(c[i - 1], policy.blocked[i])
      BY <1>7
    <3>3. Pass(c[i - 1], policy.blocked[i]) \in Seq(Characters)
      BY <1>3, <3>1
    <3> QED
      BY <3>1, <3>2, <3>3
  <2>3. \A i \in 0..n : i \in S
    <3> HIDE DEF S
    <3> QED
      BY <1>2, <2>1, <2>2, Onwards
  <2> QED
    BY <2>3
<1>9. c \in [0..n -> Seq(Characters)]
  BY <1>8 DEF c
<1> QED
  BY <1>7, <1>9 DEF n, Pass

LEMMA MaskIsForeign ==
    ASSUME NEW blocked \in Seq(Blocks), Masked(blocked),
           NEW b \in Range(blocked), NEW x \in Range(blocked)
    PROVE  Foreign(b.replacement, Wanted(x), x.exact)
<1>1. b \in Blocks /\ x \in Blocks
  BY DEF Range
<1> DEFINE given == b.replacement
           word  == x.word
           exact == x.exact
<1>2. given \in Seq(Characters) /\ word \in Seq(Characters) /\ given # <<>>
      /\ InEitherCase(given) \cap InEitherCase(word) = {}
  BY <1>1, WantedWords DEF Masked
<1> HIDE DEF given, word, exact
<1>3. \A text \in Seq(Characters) : \A i \in 1 .. Len(text) :
         InCase(text[i], exact) \in InEitherCase(text)
  <2> SUFFICES ASSUME NEW text \in Seq(Characters), NEW i \in 1 .. Len(text)
               PROVE  InCase(text[i], exact) \in InEitherCase(text)
    OBVIOUS
  <2>1. i \in DOMAIN text /\ DOMAIN Fold(text) = DOMAIN text /\ Fold(text)[i] = Lowercase(text[i])
    BY DEF Fold
  <2>2. text[i] \in Range(text) /\ Lowercase(text[i]) \in Range(Fold(text))
    BY <2>1 DEF Range
  <2> QED
    BY <2>2 DEF InCase, InEitherCase
<1>4. /\ Same(word, exact) \in Seq(Characters) /\ Len(Same(word, exact)) = Len(word)
      /\ \A j \in 1 .. Len(word) : Same(word, exact)[j] = InCase(word[j], exact)
  BY <1>2, SameText
<1>5. Foreign(given, Same(word, exact), exact)
  BY <1>2, <1>3, <1>4 DEF Foreign
<1> QED
  BY <1>5 DEF given, word, exact, Wanted

LEMMA SanitizeStops ==
    ASSUME NEW policy, NEW text \in Seq(Characters), policy.blocked \in Seq(Blocks)
    PROVE  /\ Sanitize(policy, text) \in Seq(Characters)
           /\ Masked(policy.blocked) =>
                 \A x \in Range(policy.blocked) : ~x.whole => ~Occurs(Sanitize(policy, text), x)
<1> DEFINE blocked == policy.blocked
           n == Len(blocked)
           result == Sanitize(policy, text)
<1>1. PICK c \in [0..n -> Seq(Characters)] :
         /\ result = c[n]
         /\ \A i \in 1..n : c[i] = ReplaceMatches(c[i - 1], blocked[i].word, blocked[i].replacement,
                                                  blocked[i].exact, blocked[i].whole)
  BY SanitizeSteps
<1>2. /\ blocked \in Seq(Blocks) /\ n \in Nat /\ n \in 0..n /\ 0 \in 0..n
      /\ \A i \in 1..n : blocked[i] \in Blocks /\ blocked[i] \in Range(blocked)
                         /\ i - 1 \in 0..n /\ i \in 0..n
  BY DEF Range
<1>3. \A x \in Range(blocked) : \E j \in 1..n : blocked[j] = x
  BY DEF Range
<1> HIDE DEF blocked, n, result
<1>4. ASSUME Masked(blocked), NEW x \in Range(blocked), ~x.whole
      PROVE  ~Occurs(result, x)
  <2>1. PICK j \in 1..n : blocked[j] = x
    BY <1>3
  <2>2. x \in Blocks
    BY <1>2, <2>1
  <2> DEFINE S == {i \in 0..n : i >= j => ~Occurs(c[i], x)}
  <2>3. 0 \in S
    BY <1>2
  <2>4. ASSUME NEW i \in 1..n, i - 1 \in S, i >= j PROVE ~Occurs(c[i], x)
    <3> DEFINE b == blocked[i]
               before == c[i - 1]
    <3>1. b \in Blocks /\ b \in Range(blocked) /\ before \in Seq(Characters)
      BY <1>2
    <3>2. Foreign(b.replacement, Wanted(x), x.exact)
      BY <1>2, <1>4, <3>1, MaskIsForeign
    <3>3. ~Occurs(before, x) \/ b = x
      <4>1. i = j \/ i - 1 >= j
        BY <1>2, <2>4
      <4> QED
        BY <2>1, <2>4, <4>1
    <3>4. c[i] = ReplaceMatches(before, b.word, b.replacement, b.exact, b.whole)
      BY <1>1
    <3> HIDE DEF b, before
    <3> QED
      BY <1>4, <2>2, <3>1, <3>2, <3>3, <3>4, BlockReplaced
  <2>5. \A i \in 1..n : i - 1 \in S => i \in S
    BY <1>2, <2>4
  <2>6. \A i \in 0..n : i \in S
    <3> HIDE DEF S
    <3> QED
      BY <1>2, <2>3, <2>5, Onwards
  <2> QED
    BY <1>1, <1>2, <2>6
<1>5. result \in Seq(Characters)
  BY <1>1, <1>2
<1> QED
  BY <1>4, <1>5 DEF blocked, result

-----------------------------------------------------------------------------
(* What the other operators make of texts.                                 *)

\* Sorting words by their length keeps them words.
LEMMA LongerFirstTyped ==
    ASSUME NEW X, NEW words \in Seq(Seq(X))
    PROVE  LongerFirst(words) \in Seq(Seq(X))
<1> DEFINE n == Len(words)
           Before(i, j) == Len(words[i]) > Len(words[j]) \/ (Len(words[i]) = Len(words[j]) /\ i < j)
           Ahead(i) == {j \in DOMAIN words : Before(j, i)}
           At(p) == CHOOSE i \in DOMAIN words : Cardinality(Ahead(i)) = p - 1
<1>1. /\ n \in Nat /\ DOMAIN words = 1..n
      /\ \A i \in 1..n : words[i] \in Seq(X) /\ Len(words[i]) \in Nat
  OBVIOUS
<1>2. IsFiniteSet(1..n) /\ IsFiniteSet(0 .. n - 1) /\ Cardinality(1..n) = n /\ Cardinality(0 .. n - 1) = n
  <2>1. 1 \in Int /\ 0 \in Int /\ n \in Int /\ n - 1 \in Int
    BY <1>1
  <2> HIDE DEF n
  <2>2. IsFiniteSet(1..n) /\ Cardinality(1..n) = IF 1 > n THEN 0 ELSE n - 1 + 1
    BY <2>1, FS_Interval
  <2> DEFINE m == n - 1
  <2>3. IsFiniteSet(0..m) /\ Cardinality(0..m) = IF 0 > m THEN 0 ELSE m - 0 + 1
    <3> HIDE DEF m
    <3>1. m \in Int
      BY <2>1 DEF m
    <3> QED
      BY <3>1, FS_Interval
  <2> QED
    BY <1>1, <2>2, <2>3
<1> DEFINE rank == [i \in 1..n |-> Cardinality(Ahead(i))]
<1>3. ASSUME NEW i \in 1..n
      PROVE  IsFiniteSet(Ahead(i)) /\ Cardinality(Ahead(i)) \in 0 .. n - 1
  <2>1. Ahead(i) \in SUBSET (1..n) /\ i \notin Ahead(i)
    BY <1>1
  <2> HIDE DEF n, Ahead
  <2>2. IsFiniteSet(Ahead(i)) /\ Cardinality(Ahead(i)) <= n /\ (n = Cardinality(Ahead(i)) => 1..n = Ahead(i))
    BY <1>2, <2>1, FS_Subset
  <2>3. Cardinality(Ahead(i)) \in Nat /\ Cardinality(Ahead(i)) # n
    BY <2>1, <2>2, FS_CardinalityType
  <2> QED
    BY <1>1, <2>2, <2>3
<1>4. ASSUME NEW i \in 1..n, NEW j \in 1..n, Before(i, j)
      PROVE  Cardinality(Ahead(i)) # Cardinality(Ahead(j))
  <2>1. Ahead(i) \in SUBSET Ahead(j) /\ i \in Ahead(j) /\ i \notin Ahead(i)
    BY <1>1, <1>4
  <2> HIDE DEF Ahead
  <2> QED
    BY <1>3, <2>1, FS_Subset
<1>5. \A i, j \in 1..n : i # j => Before(i, j) \/ Before(j, i)
  BY <1>1
<1>6. rank \in Injection(1..n, 0 .. n - 1)
  <2> HIDE DEF Ahead, Before, n
  <2>1. rank \in [1..n -> 0 .. n - 1]
    BY <1>3
  <2>2. \A i, j \in 1..n : i # j => rank[i] # rank[j]
    BY <1>4, <1>5
  <2> HIDE DEF rank
  <2> QED
    BY <2>1, <2>2 DEF Injection, IsInjective
<1>7. rank \in Surjection(1..n, 0 .. n - 1)
  <2> HIDE DEF rank, n
  <2> QED
    BY <1>2, <1>6, FS_Injection
<1>8. ASSUME NEW p \in 1..n PROVE At(p) \in 1..n
  <2>1. p - 1 \in 0 .. n - 1
    BY <1>1
  <2>2. PICK i \in 1..n : rank[i] = p - 1
    <3> HIDE DEF rank, n
    <3> QED
      BY <1>7, <2>1 DEF Surjection
  <2>3. Cardinality(Ahead(i)) = p - 1
    BY <2>2
  <2> HIDE DEF Ahead, rank, n
  <2> QED
    BY <1>1, <2>3
<1>9. LongerFirst(words) = [p \in DOMAIN words |-> words[At(p)]]
  BY DEF LongerFirst
<1> HIDE DEF At, Ahead, Before, n
<1>10. \A p \in 1..n : words[At(p)] \in Seq(X)
  BY <1>1, <1>8
<1> QED
  BY <1>1, <1>9, <1>10

LEMMA FoldStays ==
    ASSUME NEW n \in Nat, NEW X, NEW h, h[1..0] \in X,
           \A i \in 1..n : h[1 .. i - 1] \in X => h[1..i] \in X
    PROVE  h[1..n] \in X
<1> DEFINE S == {i \in 0..n : h[1..i] \in X}
<1>1. 0 \in S /\ n \in 0..n /\ \A i \in 1..n : i - 1 \in S => i \in S
  OBVIOUS
<1>2. \A i \in 0..n : i \in S
  <2> HIDE DEF S
  <2> QED
    BY <1>1, Onwards
<1> QED
  BY <1>1, <1>2

LEMMA VariantsTyped ==
    ASSUME NEW term \in Terms
    PROVE  Variants(term) \in Seq(Seq(Characters))
<1> DEFINE words == LongerFirst(Append(term.aliases, term.source))
           n == Len(words)
           Pass(x, v) == IF x # <<>> /\ Last(x) = v THEN x ELSE Append(x, v)
           Body(f, s) == IF s = {} THEN <<>> ELSE Pass(f[s \ {Max(s)}], words[Max(s)])
           Chosen == CHOOSE f : f = [s \in SUBSET DOMAIN words |-> Body(f, s)]
<1>1. Variants(term) = Chosen[DOMAIN words]
  BY DEF Variants, FoldLeft, MapThenFoldSet
<1>2. n \in Nat /\ DOMAIN words = 1..n /\ \A i \in 1..n : words[i] \in Seq(Characters)
  <2>1. term.aliases \in Seq(Seq(Characters)) /\ term.source \in Seq(Characters)
    BY LexiconAssumption
  <2>2. Append(term.aliases, term.source) \in Seq(Seq(Characters))
    BY <2>1
  <2>3. words \in Seq(Seq(Characters))
    BY <2>2, LongerFirstTyped
  <2> HIDE DEF words
  <2> QED
    BY <2>3
<1>3. \A x \in Seq(Seq(Characters)), i \in 1..n : Pass(x, words[i]) \in Seq(Seq(Characters))
  <2> HIDE DEF words
  <2> QED
    BY <1>2
<1>4. <<>> \in Seq(Seq(Characters))
  OBVIOUS
<1> HIDE DEF n, Pass, words
<1>5. \E f : f = [s \in SUBSET (1..n) |-> Body(f, s)]
  <2> DEFINE F == [i \in 1..n |-> [x \in Seq(Seq(Characters)) |-> Pass(x, words[i])]]
  <2>1. \A x \in Seq(Seq(Characters)), i \in 1..n : F[i][x] = Pass(x, words[i])
    OBVIOUS
  <2>2. StepsIn(F, n, Seq(Seq(Characters)))
    BY <1>3, <2>1 DEF StepsIn
  <2> HIDE DEF F
  <2>3. PICK g : Solves(g, n, Seq(Seq(Characters)), <<>>, F)
    BY <1>2, <1>4, <2>2, FoldExists, Zenon
  <2>4. ASSUME NEW s \in SUBSET (1..n) PROVE g[s] = Body(g, s)
    <3>1. CASE s # {}
      <4>1. Max(s) \in 1..n
        BY <1>2, <3>1, LargestNumber
      <4>2. g[s \ {Max(s)}] \in Seq(Seq(Characters))
        BY <2>3 DEF Solves
      <4> QED
        BY <2>1, <2>3, <3>1, <4>1, <4>2 DEF Solves
    <3> QED
      BY <2>3, <3>1 DEF Solves
  <2>5. g \in [SUBSET (1..n) -> Seq(Seq(Characters))]
    BY <2>3 DEF Solves
  <2> HIDE DEF Body
  <2> QED
    BY <2>4, <2>5
<1>6. Chosen = [s \in SUBSET (1..n) |-> Body(Chosen, s)]
  <2> HIDE DEF Body
  <2> QED
    BY <1>2, <1>5
<1> HIDE DEF Chosen
<1>7. \A s \in SUBSET (1..n) : Chosen[s] = Body(Chosen, s)
  <2> HIDE DEF Body
  <2> QED
    BY <1>6
<1>8. Chosen[1..0] \in Seq(Seq(Characters))
  <2>1. 1..0 = {}
    OBVIOUS
  <2> QED
    BY <1>4, <1>7, <2>1
<1>9. ASSUME NEW i \in 1..n, Chosen[1 .. i - 1] \in Seq(Seq(Characters)) PROVE Chosen[1..i] \in Seq(Seq(Characters))
  <2>1. /\ 1..i \in SUBSET (1..n) /\ 1..i # {} /\ Max(1..i) = i
        /\ (1..i) \ {Max(1..i)} = 1 .. i - 1
    BY <1>2, FirstNumbers
  <2>2. Chosen[1..i] = Pass(Chosen[(1..i) \ {Max(1..i)}], words[Max(1..i)])
    BY <1>7, <2>1
  <2> QED
    BY <1>3, <1>9, <2>1, <2>2
<1>10. Chosen[1..n] \in Seq(Seq(Characters))
  <2> HIDE DEF Body
  <2> QED
    BY <1>2, <1>8, <1>9, FoldStays
<1> QED
  BY <1>1, <1>2, <1>10

LEMMA VariantsReplaced ==
    ASSUME NEW text \in Seq(Characters), NEW variants \in Seq(Seq(Characters)),
           NEW replacement \in Seq(Characters)
    PROVE  ReplaceVariants(text, variants, replacement) \in Seq(Characters)
<1> DEFINE words == variants
           n == Len(words)
           Pass(x, v) == ReplaceMatches(x, v, replacement, FALSE, IsAsciiWord(v))
           Body(f, s) == IF s = {} THEN text ELSE Pass(f[s \ {Max(s)}], words[Max(s)])
           Chosen == CHOOSE f : f = [s \in SUBSET DOMAIN words |-> Body(f, s)]
<1>1. ReplaceVariants(text, variants, replacement) = Chosen[DOMAIN words]
  BY DEF ReplaceVariants, FoldLeft, MapThenFoldSet
<1>2. n \in Nat /\ DOMAIN words = 1..n /\ \A i \in 1..n : words[i] \in Seq(Characters)
  OBVIOUS
<1>3. \A x \in Seq(Characters), i \in 1..n : Pass(x, words[i]) \in Seq(Characters)
  <2> HIDE DEF n, words
  <2>1. \A v : IsAsciiWord(v) \in BOOLEAN
    BY DEF IsAsciiWord
  <2> QED
    BY <1>2, <2>1, TextReplaced
<1>4. text \in Seq(Characters)
  OBVIOUS
<1> HIDE DEF n, Pass, words
<1>5. \E f : f = [s \in SUBSET (1..n) |-> Body(f, s)]
  <2> DEFINE F == [i \in 1..n |-> [x \in Seq(Characters) |-> Pass(x, words[i])]]
  <2>1. \A x \in Seq(Characters), i \in 1..n : F[i][x] = Pass(x, words[i])
    OBVIOUS
  <2>2. StepsIn(F, n, Seq(Characters))
    BY <1>3, <2>1 DEF StepsIn
  <2> HIDE DEF F
  <2>3. PICK g : Solves(g, n, Seq(Characters), text, F)
    BY <1>2, <1>4, <2>2, FoldExists, Zenon
  <2>4. ASSUME NEW s \in SUBSET (1..n) PROVE g[s] = Body(g, s)
    <3>1. CASE s # {}
      <4>1. Max(s) \in 1..n
        BY <1>2, <3>1, LargestNumber
      <4>2. g[s \ {Max(s)}] \in Seq(Characters)
        BY <2>3 DEF Solves
      <4> QED
        BY <2>1, <2>3, <3>1, <4>1, <4>2 DEF Solves
    <3> QED
      BY <2>3, <3>1 DEF Solves
  <2>5. g \in [SUBSET (1..n) -> Seq(Characters)]
    BY <2>3 DEF Solves
  <2> HIDE DEF Body
  <2> QED
    BY <2>4, <2>5
<1>6. Chosen = [s \in SUBSET (1..n) |-> Body(Chosen, s)]
  <2> HIDE DEF Body
  <2> QED
    BY <1>2, <1>5
<1> HIDE DEF Chosen
<1>7. \A s \in SUBSET (1..n) : Chosen[s] = Body(Chosen, s)
  <2> HIDE DEF Body
  <2> QED
    BY <1>6
<1>8. Chosen[1..0] \in Seq(Characters)
  <2>1. 1..0 = {}
    OBVIOUS
  <2> QED
    BY <1>4, <1>7, <2>1
<1>9. ASSUME NEW i \in 1..n, Chosen[1 .. i - 1] \in Seq(Characters) PROVE Chosen[1..i] \in Seq(Characters)
  <2>1. /\ 1..i \in SUBSET (1..n) /\ 1..i # {} /\ Max(1..i) = i
        /\ (1..i) \ {Max(1..i)} = 1 .. i - 1
    BY <1>2, FirstNumbers
  <2>2. Chosen[1..i] = Pass(Chosen[(1..i) \ {Max(1..i)}], words[Max(1..i)])
    BY <1>7, <2>1
  <2> QED
    BY <1>3, <1>9, <2>1, <2>2
<1>10. Chosen[1..n] \in Seq(Characters)
  <2> HIDE DEF Body
  <2> QED
    BY <1>2, <1>8, <1>9, FoldStays
<1> QED
  BY <1>1, <1>2, <1>10

LEMMA TranscriptTyped ==
    ASSUME NEW policy, policy.terms \in Seq(Terms), NEW text \in Seq(Characters)
    PROVE  NormalizeTranscript(policy, text) \in Seq(Characters)
<1> DEFINE words == policy.terms
           n == Len(words)
           Pass(x, v) == ReplaceVariants(x, Variants(v), v.source)
           Body(f, s) == IF s = {} THEN text ELSE Pass(f[s \ {Max(s)}], words[Max(s)])
           Chosen == CHOOSE f : f = [s \in SUBSET DOMAIN words |-> Body(f, s)]
<1>1. NormalizeTranscript(policy, text) = Chosen[DOMAIN words]
  BY DEF NormalizeTranscript, FoldLeft, MapThenFoldSet
<1>2. n \in Nat /\ DOMAIN words = 1..n /\ \A i \in 1..n : words[i] \in Terms
  OBVIOUS
<1>3. \A x \in Seq(Characters), i \in 1..n : Pass(x, words[i]) \in Seq(Characters)
  <2> HIDE DEF n, words
  <2>1. \A v \in Terms : Variants(v) \in Seq(Seq(Characters)) /\ v.source \in Seq(Characters)
    BY VariantsTyped, LexiconAssumption
  <2> QED
    BY <1>2, <2>1, VariantsReplaced
<1>4. text \in Seq(Characters)
  OBVIOUS
<1> HIDE DEF n, Pass, words
<1>5. \E f : f = [s \in SUBSET (1..n) |-> Body(f, s)]
  <2> DEFINE F == [i \in 1..n |-> [x \in Seq(Characters) |-> Pass(x, words[i])]]
  <2>1. \A x \in Seq(Characters), i \in 1..n : F[i][x] = Pass(x, words[i])
    OBVIOUS
  <2>2. StepsIn(F, n, Seq(Characters))
    BY <1>3, <2>1 DEF StepsIn
  <2> HIDE DEF F
  <2>3. PICK g : Solves(g, n, Seq(Characters), text, F)
    BY <1>2, <1>4, <2>2, FoldExists, Zenon
  <2>4. ASSUME NEW s \in SUBSET (1..n) PROVE g[s] = Body(g, s)
    <3>1. CASE s # {}
      <4>1. Max(s) \in 1..n
        BY <1>2, <3>1, LargestNumber
      <4>2. g[s \ {Max(s)}] \in Seq(Characters)
        BY <2>3 DEF Solves
      <4> QED
        BY <2>1, <2>3, <3>1, <4>1, <4>2 DEF Solves
    <3> QED
      BY <2>3, <3>1 DEF Solves
  <2>5. g \in [SUBSET (1..n) -> Seq(Characters)]
    BY <2>3 DEF Solves
  <2> HIDE DEF Body
  <2> QED
    BY <2>4, <2>5
<1>6. Chosen = [s \in SUBSET (1..n) |-> Body(Chosen, s)]
  <2> HIDE DEF Body
  <2> QED
    BY <1>2, <1>5
<1> HIDE DEF Chosen
<1>7. \A s \in SUBSET (1..n) : Chosen[s] = Body(Chosen, s)
  <2> HIDE DEF Body
  <2> QED
    BY <1>6
<1>8. Chosen[1..0] \in Seq(Characters)
  <2>1. 1..0 = {}
    OBVIOUS
  <2> QED
    BY <1>4, <1>7, <2>1
<1>9. ASSUME NEW i \in 1..n, Chosen[1 .. i - 1] \in Seq(Characters) PROVE Chosen[1..i] \in Seq(Characters)
  <2>1. /\ 1..i \in SUBSET (1..n) /\ 1..i # {} /\ Max(1..i) = i
        /\ (1..i) \ {Max(1..i)} = 1 .. i - 1
    BY <1>2, FirstNumbers
  <2>2. Chosen[1..i] = Pass(Chosen[(1..i) \ {Max(1..i)}], words[Max(1..i)])
    BY <1>7, <2>1
  <2> QED
    BY <1>3, <1>9, <2>1, <2>2
<1>10. Chosen[1..n] \in Seq(Characters)
  <2> HIDE DEF Body
  <2> QED
    BY <1>2, <1>8, <1>9, FoldStays
<1> QED
  BY <1>1, <1>2, <1>10

LEMMA TargetsTyped ==
    ASSUME NEW policy, policy.terms \in Seq(Terms), NEW text \in Seq(Characters)
    PROVE  TargetTerms(policy, text) \in Seq(Characters)
<1> DEFINE words == policy.terms
           n == Len(words)
           Pass(x, v) == ReplaceVariants(x, Append(Variants(v), v.source), v.target)
           Body(f, s) == IF s = {} THEN text ELSE Pass(f[s \ {Max(s)}], words[Max(s)])
           Chosen == CHOOSE f : f = [s \in SUBSET DOMAIN words |-> Body(f, s)]
<1>1. TargetTerms(policy, text) = Chosen[DOMAIN words]
  BY DEF TargetTerms, FoldLeft, MapThenFoldSet
<1>2. n \in Nat /\ DOMAIN words = 1..n /\ \A i \in 1..n : words[i] \in Terms
  OBVIOUS
<1>3. \A x \in Seq(Characters), i \in 1..n : Pass(x, words[i]) \in Seq(Characters)
  <2> HIDE DEF n, words
  <2>1. \A v \in Terms : /\ Variants(v) \in Seq(Seq(Characters)) /\ v.source \in Seq(Characters)
                        /\ v.target \in Seq(Characters)
    BY VariantsTyped, LexiconAssumption
  <2>2. \A v \in Terms : Append(Variants(v), v.source) \in Seq(Seq(Characters))
    BY <2>1
  <2> QED
    BY <1>2, <2>1, <2>2, VariantsReplaced
<1>4. text \in Seq(Characters)
  OBVIOUS
<1> HIDE DEF n, Pass, words
<1>5. \E f : f = [s \in SUBSET (1..n) |-> Body(f, s)]
  <2> DEFINE F == [i \in 1..n |-> [x \in Seq(Characters) |-> Pass(x, words[i])]]
  <2>1. \A x \in Seq(Characters), i \in 1..n : F[i][x] = Pass(x, words[i])
    OBVIOUS
  <2>2. StepsIn(F, n, Seq(Characters))
    BY <1>3, <2>1 DEF StepsIn
  <2> HIDE DEF F
  <2>3. PICK g : Solves(g, n, Seq(Characters), text, F)
    BY <1>2, <1>4, <2>2, FoldExists, Zenon
  <2>4. ASSUME NEW s \in SUBSET (1..n) PROVE g[s] = Body(g, s)
    <3>1. CASE s # {}
      <4>1. Max(s) \in 1..n
        BY <1>2, <3>1, LargestNumber
      <4>2. g[s \ {Max(s)}] \in Seq(Characters)
        BY <2>3 DEF Solves
      <4> QED
        BY <2>1, <2>3, <3>1, <4>1, <4>2 DEF Solves
    <3> QED
      BY <2>3, <3>1 DEF Solves
  <2>5. g \in [SUBSET (1..n) -> Seq(Characters)]
    BY <2>3 DEF Solves
  <2> HIDE DEF Body
  <2> QED
    BY <2>4, <2>5
<1>6. Chosen = [s \in SUBSET (1..n) |-> Body(Chosen, s)]
  <2> HIDE DEF Body
  <2> QED
    BY <1>2, <1>5
<1> HIDE DEF Chosen
<1>7. \A s \in SUBSET (1..n) : Chosen[s] = Body(Chosen, s)
  <2> HIDE DEF Body
  <2> QED
    BY <1>6
<1>8. Chosen[1..0] \in Seq(Characters)
  <2>1. 1..0 = {}
    OBVIOUS
  <2> QED
    BY <1>4, <1>7, <2>1
<1>9. ASSUME NEW i \in 1..n, Chosen[1 .. i - 1] \in Seq(Characters) PROVE Chosen[1..i] \in Seq(Characters)
  <2>1. /\ 1..i \in SUBSET (1..n) /\ 1..i # {} /\ Max(1..i) = i
        /\ (1..i) \ {Max(1..i)} = 1 .. i - 1
    BY <1>2, FirstNumbers
  <2>2. Chosen[1..i] = Pass(Chosen[(1..i) \ {Max(1..i)}], words[Max(1..i)])
    BY <1>7, <2>1
  <2> QED
    BY <1>3, <1>9, <2>1, <2>2
<1>10. Chosen[1..n] \in Seq(Characters)
  <2> HIDE DEF Body
  <2> QED
    BY <1>2, <1>8, <1>9, FoldStays
<1> QED
  BY <1>1, <1>2, <1>10

-----------------------------------------------------------------------------
(* Lexicons: what a session publishes.                                     *)

EntryRows == [status : Statuses, dictionary : Dictionaries \cup {NoDictionary},
              term : Terms \cup {CHOOSE t \in Terms : TRUE}]
BlockRows == [status : Statuses, block : Blocks \cup {CHOOSE x \in Blocks : TRUE}]
Bindings  == [status : {"none", "active", "deleted"}, dictionary : Dictionaries \cup {NoDictionary}]

\* The tables; a row that was never written holds nothing of interest.
TablesTyped ==
    /\ dictionaries \in [Dictionaries -> Statuses]
    /\ entries \in [EntryIds -> EntryRows] /\ blocks \in [BlockIds -> BlockRows]
    /\ \A e \in EntryIds : entries[e].status # "none" => entries[e].term \in Terms
    /\ \A b \in BlockIds : blocks[b].status # "none" => blocks[b].block \in Blocks
    /\ binding \in Bindings /\ binder \in Dictionaries \cup {NoDictionary}

Texts == [heard : Seq(Characters), source : Seq(Characters),
          shown : Seq(Characters), spoken : Seq(Characters)]
Places == {"none", "binding", "entries", "blocks", "ready", "translating", "speaking"}
Policies == [at : Places, dictionary : Dictionaries \cup {NoDictionary},
             terms : Seq(Terms), blocked : Seq(Blocks)]
SessionTyped == room \in Policies /\ texts \in Texts

\* Nothing is published before the policy is loaded.
QuietLoad == room.at \in {"none", "binding", "entries", "blocks"} => texts = NoTexts

PolicyInvariant == TablesTyped /\ SessionTyped /\ QuietLoad /\ BlockedWordsStop

-----------------------------------------------------------------------------
LEMMA NothingOccurs ==
    ASSUME NEW x \in Blocks
    PROVE  ~Occurs(<<>>, x)
<1>1. Len(Wanted(x)) \in Nat \ {0} /\ <<>> \in Seq(Characters) /\ Len(<<>>) = 0
  BY WantedWords
<1>2. \A p \in Nat \ {0} : ~Stands(<<>>, p, Wanted(x), 0, x.exact)
  BY <1>1 DEF Stands
<1> QED
  BY <1>1, <1>2, OccursStands

\* What BlockedWordsStop says of one text.
Clean(blocked, text) == Masked(blocked) => \A x \in Range(blocked) : ~x.whole => ~Occurs(text, x)

LEMMA CleanTexts ==
    BlockedWordsStop <=> \A text \in {texts.source, texts.shown, texts.spoken} : Clean(room.blocked, text)
BY DEF BlockedWordsStop, Clean

LEMMA NoTextsAreClean ==
    ASSUME NEW blocked \in Seq(Blocks)
    PROVE  Clean(blocked, <<>>)
<1>1. Range(blocked) \subseteq Blocks
  BY DEF Range
<1> QED
  BY <1>1, NothingOccurs DEF Clean

LEMMA SanitizedTextsAreClean ==
    ASSUME NEW policy \in Policies, NEW text \in Seq(Characters)
    PROVE  Sanitize(policy, text) \in Seq(Characters) /\ Clean(policy.blocked, Sanitize(policy, text))
<1>1. policy.blocked \in Seq(Blocks)
  BY DEF Policies
<1> QED
  BY <1>1, SanitizeStops DEF Clean

LEMMA PolicyStart == LexiconInit => PolicyInvariant
<1> SUFFICES ASSUME LexiconInit PROVE PolicyInvariant
  OBVIOUS
<1>1. TablesTyped
  BY DEF LexiconInit, TablesTyped, EntryRows, BlockRows, Bindings, Statuses
<1>2. room = NoSession /\ texts = NoTexts
  BY DEF LexiconInit
<1>3. SessionTyped /\ QuietLoad
  BY <1>2 DEF SessionTyped, QuietLoad, NoSession, NoTexts, Policies, Places, Texts
<1>4. BlockedWordsStop
  BY <1>2, <1>3, NoTextsAreClean, CleanTexts DEF NoTexts, SessionTyped, Policies
<1> QED
  BY <1>1, <1>3, <1>4 DEF PolicyInvariant

LEMMA TablesKept ==
    ASSUME TablesTyped, EditTables
    PROVE  TablesTyped'
<1> USE DEF TablesTyped
<1>1. {"active", "disabled", "deleted"} \subseteq Statuses
  BY DEF Statuses
<1>2. ASSUME NEW d \in Dictionaries, NEW status \in {"active", "disabled"}, SaveDictionary(d, status)
      PROVE  TablesTyped'
  BY <1>1, <1>2 DEF SaveDictionary
<1>3. ASSUME NEW d \in Dictionaries, DeleteDictionary(d) PROVE TablesTyped'
  BY <1>1, <1>3 DEF DeleteDictionary
<1>4. ASSUME NEW d \in Dictionaries, ChooseDictionary(d) PROVE TablesTyped'
  BY <1>4 DEF ChooseDictionary
<1>5. ASSUME NEW e \in EntryIds, NEW d \in Dictionaries, NEW t \in Terms,
             NEW s \in {"active", "disabled"}, CreateEntry(e, d, t, s)
      PROVE  TablesTyped'
  <2> DEFINE written == [status |-> s, dictionary |-> d, term |-> t]
  <2>1. written \in EntryRows /\ written.term \in Terms
    BY <1>1 DEF EntryRows
  <2>2. entries' = [entries EXCEPT ![e] = written] /\ UNCHANGED <<dictionaries, blocks, binding, binder>>
    BY <1>5 DEF CreateEntry
  <2> HIDE DEF written
  <2> QED
    BY <2>1, <2>2
<1>6. ASSUME NEW e \in EntryIds, NEW t \in Terms, NEW s \in {"active", "disabled"}, UpdateEntry(e, t, s)
      PROVE  TablesTyped'
  <2> DEFINE written == [status |-> s, dictionary |-> entries[e].dictionary, term |-> t]
  <2>1. written \in EntryRows /\ written.term \in Terms
    BY <1>1 DEF EntryRows
  <2>2. entries' = [entries EXCEPT ![e] = written] /\ UNCHANGED <<dictionaries, blocks, binding, binder>>
    <3>1. entries[e] = [status |-> entries[e].status, dictionary |-> entries[e].dictionary,
                        term |-> entries[e].term]
      BY DEF EntryRows
    <3>2. /\ DOMAIN entries = EntryIds /\ entries = [x \in EntryIds |-> entries[x]]
          /\ DOMAIN entries' = EntryIds /\ entries' = [x \in EntryIds |-> entries'[x]]
      BY <1>6 DEF UpdateEntry
    <3>3. entries'[e] = written
      BY <1>6, <3>1, <3>2 DEF UpdateEntry
    <3>4. \A x \in EntryIds : x # e => entries'[x] = entries[x]
      BY <1>6, <3>2 DEF UpdateEntry
    <3> HIDE DEF written
    <3> QED
      BY <1>6, <3>2, <3>3, <3>4 DEF UpdateEntry
  <2> HIDE DEF written
  <2> QED
    BY <2>1, <2>2
<1>7. ASSUME NEW e \in EntryIds, DeleteEntry(e) PROVE TablesTyped'
  <2> DEFINE written == [status |-> "deleted", dictionary |-> entries[e].dictionary, term |-> entries[e].term]
  <2>1. written \in EntryRows /\ written.term \in Terms
    BY <1>1, <1>7 DEF EntryRows, DeleteEntry, IsLive
  <2>2. entries' = [entries EXCEPT ![e] = written] /\ UNCHANGED <<dictionaries, blocks, binding, binder>>
    <3>1. entries[e] = [status |-> entries[e].status, dictionary |-> entries[e].dictionary,
                        term |-> entries[e].term]
      BY DEF EntryRows
    <3>2. /\ DOMAIN entries = EntryIds /\ entries = [x \in EntryIds |-> entries[x]]
          /\ DOMAIN entries' = EntryIds /\ entries' = [x \in EntryIds |-> entries'[x]]
      BY <1>7 DEF DeleteEntry
    <3>3. entries'[e] = written
      BY <1>7, <3>1, <3>2 DEF DeleteEntry
    <3>4. \A x \in EntryIds : x # e => entries'[x] = entries[x]
      BY <1>7, <3>2 DEF DeleteEntry
    <3> HIDE DEF written
    <3> QED
      BY <1>7, <3>2, <3>3, <3>4 DEF DeleteEntry
  <2> HIDE DEF written
  <2> QED
    BY <2>1, <2>2
<1>8. ASSUME NEW b \in BlockIds, NEW x \in Blocks, NEW s \in {"active", "disabled"},
             CreateBlock(b, x, s) \/ UpdateBlock(b, x, s)
      PROVE  TablesTyped'
  <2> DEFINE written == [status |-> s, block |-> x]
  <2>1. written \in BlockRows /\ written.block \in Blocks
    BY <1>1 DEF BlockRows
  <2>2. blocks' = [blocks EXCEPT ![b] = written] /\ UNCHANGED <<dictionaries, entries, binding, binder>>
    BY <1>8 DEF CreateBlock, UpdateBlock
  <2> HIDE DEF written
  <2> QED
    BY <2>1, <2>2
<1>9. ASSUME NEW b \in BlockIds, DeleteBlock(b) PROVE TablesTyped'
  <2> DEFINE written == [status |-> "deleted", block |-> blocks[b].block]
  <2>1. written \in BlockRows /\ written.block \in Blocks
    BY <1>1, <1>9 DEF BlockRows, DeleteBlock, IsLive
  <2>2. blocks' = [blocks EXCEPT ![b] = written] /\ UNCHANGED <<dictionaries, entries, binding, binder>>
    <3>1. blocks[b] = [status |-> blocks[b].status, block |-> blocks[b].block]
      BY DEF BlockRows
    <3>2. /\ DOMAIN blocks = BlockIds /\ blocks = [x \in BlockIds |-> blocks[x]]
          /\ DOMAIN blocks' = BlockIds /\ blocks' = [x \in BlockIds |-> blocks'[x]]
      BY <1>9 DEF DeleteBlock
    <3>3. blocks'[b] = written
      BY <1>9, <3>1, <3>2 DEF DeleteBlock
    <3>4. \A x \in BlockIds : x # b => blocks'[x] = blocks[x]
      BY <1>9, <3>2 DEF DeleteBlock
    <3> HIDE DEF written
    <3> QED
      BY <1>9, <3>2, <3>3, <3>4 DEF DeleteBlock
  <2> HIDE DEF written
  <2> QED
    BY <2>1, <2>2
<1>10. ASSUME StoreBinding \/ ClearBinding PROVE TablesTyped'
  <2>1. binding = [status |-> binding.status, dictionary |-> binding.dictionary]
        /\ binding.dictionary \in Dictionaries \cup {NoDictionary}
    BY DEF Bindings
  <2>2. binding' \in Bindings
    BY <1>10, <2>1 DEF StoreBinding, ClearBinding, Bindings
  <2> QED
    BY <1>10, <2>2 DEF StoreBinding, ClearBinding
<1> HIDE DEF TablesTyped
<1> QED
  BY <1>2, <1>3, <1>4, <1>5, <1>6, <1>7, <1>8, <1>9, <1>10 DEF EditTables, ImportEntry, ImportBlock

\* What the statements of the load read.
LEMMA LoadedRules ==
    ASSUME TablesTyped
    PROVE  /\ \A d : TermOrders(ActiveEntries(d)) \subseteq Seq(Terms)
           /\ BlockOrders(ActiveBlocks) \subseteq Seq(Blocks)
<1>1. \A d : ActiveEntries(d) \subseteq Terms
  BY DEF ActiveEntries, TablesTyped
<1>2. ActiveBlocks \subseteq Blocks
  BY DEF ActiveBlocks, TablesTyped
<1>3. ASSUME NEW d, NEW s \in TermOrders(ActiveEntries(d)) PROVE s \in Seq(Terms)
  BY <1>1, EntriesLoaded
<1>4. ASSUME NEW s \in BlockOrders(ActiveBlocks) PROVE s \in Seq(Blocks)
  BY <1>2, BlocksLoaded
<1> QED
  BY <1>3, <1>4

LEMMA PolicyRecords ==
    ASSUME NEW at \in Places, NEW d \in Dictionaries \cup {NoDictionary},
           NEW terms \in Seq(Terms), NEW blocked \in Seq(Blocks)
    PROVE  [at |-> at, dictionary |-> d, terms |-> terms, blocked |-> blocked] \in Policies
BY DEF Policies

LEMMA LoadPublishesNothing ==
    ASSUME TablesTyped, SessionTyped, QuietLoad,
           StartSession \/ LoadBinding \/ LoadEntries \/ LoadBlocks \/ EndSession
    PROVE  SessionTyped' /\ texts' = NoTexts
<1>1. texts' = NoTexts
  BY DEF StartSession, LoadBinding, LoadEntries, LoadBlocks, EndSession, QuietLoad
<1>2. texts' \in Texts
  BY <1>1 DEF NoTexts, Texts
<1>3. room \in Policies /\ "binding" \in Places /\ "entries" \in Places
      /\ "blocks" \in Places /\ "ready" \in Places
      /\ room.dictionary \in Dictionaries \cup {NoDictionary}
      /\ room.terms \in Seq(Terms) /\ room.blocked \in Seq(Blocks)
      /\ room = [at |-> room.at, dictionary |-> room.dictionary,
                 terms |-> room.terms, blocked |-> room.blocked]
  BY DEF SessionTyped, Policies, Places
<1>4. CASE StartSession
  <2>1. room' = [at |-> "binding", dictionary |-> room.dictionary,
                 terms |-> room.terms, blocked |-> room.blocked]
    BY <1>3, <1>4 DEF StartSession
  <2> QED
    BY <1>1, <1>2, <1>3, <2>1, PolicyRecords DEF SessionTyped
<1>5. CASE LoadBinding
  <2> DEFINE d == IF \E x \in Dictionaries : Bound(x)
                  THEN CHOOSE x \in Dictionaries : Bound(x) ELSE NoDictionary
  <2>1. d \in Dictionaries \cup {NoDictionary}
    OBVIOUS
  <2>2. room' = [room EXCEPT !.at = "entries", !.dictionary = d]
    BY <1>5 DEF LoadBinding
  <2> HIDE DEF d
  <2>3. room' = [at |-> "entries", dictionary |-> d, terms |-> room.terms, blocked |-> room.blocked]
    BY <1>3, <2>2
  <2> QED
    BY <1>1, <1>2, <1>3, <2>1, <2>3, PolicyRecords DEF SessionTyped
<1>6. CASE LoadEntries
  <2>1. PICK terms \in TermOrders(ActiveEntries(room.dictionary)) :
           room' = [room EXCEPT !.at = "blocks", !.terms = terms]
    BY <1>6 DEF LoadEntries
  <2>2. terms \in Seq(Terms)
    BY LoadedRules
  <2>3. room' = [at |-> "blocks", dictionary |-> room.dictionary,
                 terms |-> terms, blocked |-> room.blocked]
    BY <1>3, <2>1
  <2> QED
    BY <1>1, <1>2, <1>3, <2>2, <2>3, PolicyRecords DEF SessionTyped
<1>7. CASE LoadBlocks
  <2>1. PICK words \in BlockOrders(ActiveBlocks) :
           room' = [room EXCEPT !.at = "ready", !.blocked = words]
    BY <1>7 DEF LoadBlocks
  <2>2. words \in Seq(Blocks)
    BY LoadedRules
  <2>3. room' = [at |-> "ready", dictionary |-> room.dictionary,
                 terms |-> room.terms, blocked |-> words]
    BY <1>3, <2>1
  <2> QED
    BY <1>1, <1>2, <1>3, <2>2, <2>3, PolicyRecords DEF SessionTyped
<1>8. CASE EndSession
  BY <1>2, <1>8 DEF EndSession, NoSession, SessionTyped, Policies, Places
<1> QED
  BY <1>1, <1>4, <1>5, <1>6, <1>7, <1>8

\* What is published went through the blocked words last.
LEMMA PublishedTexts ==
    ASSUME SessionTyped, BlockedWordsStop,
           \/ \E heard \in Heard : Transcribe(heard)
           \/ \E answer \in Answers : Translate(answer)
           \/ Speak
    PROVE  SessionTyped' /\ QuietLoad' /\ BlockedWordsStop'
<1>1. /\ room \in Policies /\ room.terms \in Seq(Terms) /\ room.blocked \in Seq(Blocks)
      /\ room.dictionary \in Dictionaries \cup {NoDictionary}
      /\ room = [at |-> room.at, dictionary |-> room.dictionary,
                 terms |-> room.terms, blocked |-> room.blocked]
      /\ {"ready", "translating", "speaking"} \subseteq Places
  BY DEF SessionTyped, Policies, Places
<1>2. PICK at \in {"ready", "translating", "speaking"} : room' = [room EXCEPT !.at = at]
  BY DEF Transcribe, Translate, Speak
<1>3. room' = [at |-> at, dictionary |-> room.dictionary,
               terms |-> room.terms, blocked |-> room.blocked]
  BY <1>1, <1>2
<1>4. room' \in Policies /\ room'.blocked = room.blocked /\ QuietLoad'
  BY <1>1, <1>3 DEF Policies, QuietLoad
<1>5. /\ texts \in Texts
      /\ texts.heard \in Seq(Characters) /\ texts.source \in Seq(Characters)
      /\ texts.shown \in Seq(Characters) /\ texts.spoken \in Seq(Characters)
      /\ texts = [heard |-> texts.heard, source |-> texts.source,
                  shown |-> texts.shown, spoken |-> texts.spoken]
      /\ Clean(room.blocked, texts.source) /\ Clean(room.blocked, texts.shown)
      /\ Clean(room.blocked, texts.spoken)
  BY CleanTexts DEF SessionTyped, Texts
<1>6. ASSUME NEW heard \in Heard, Transcribe(heard) PROVE texts' \in Texts /\ BlockedWordsStop'
  <2> DEFINE text == NormalizeTranscript(room, heard)
             clean == Sanitize(room, text)
  <2>1. text \in Seq(Characters)
    BY <1>1, LexiconAssumption, TranscriptTyped
  <2>2. texts' = [NoTexts EXCEPT !.heard = text, !.source = clean]
    BY <1>6 DEF Transcribe
  <2> HIDE DEF text
  <2>3. clean \in Seq(Characters) /\ Clean(room.blocked, clean)
    BY <1>1, <2>1, SanitizedTextsAreClean
  <2> HIDE DEF clean
  <2>4. texts' = [heard |-> text, source |-> clean, shown |-> <<>>, spoken |-> <<>>]
    BY <2>2 DEF NoTexts
  <2>5. Clean(room.blocked, <<>>)
    BY <1>1, NoTextsAreClean
  <2>6. texts' \in Texts
    BY <2>1, <2>3, <2>4 DEF Texts
  <2>7. \A t \in {texts'.source, texts'.shown, texts'.spoken} : Clean(room'.blocked, t)
    BY <1>4, <2>3, <2>4, <2>5
  <2> QED
    BY <2>6, <2>7 DEF BlockedWordsStop, Clean
<1>7. ASSUME NEW answer \in Answers, Translate(answer) PROVE texts' \in Texts /\ BlockedWordsStop'
  <2> DEFINE text == TargetTerms(room, answer)
             clean == Sanitize(room, text)
  <2>1. text \in Seq(Characters)
    BY <1>1, LexiconAssumption, TargetsTyped
  <2>2. texts' = [texts EXCEPT !.shown = clean]
    BY <1>7 DEF Translate, NormalizeTranslation
  <2> HIDE DEF text
  <2>3. clean \in Seq(Characters) /\ Clean(room.blocked, clean)
    BY <1>1, <2>1, SanitizedTextsAreClean
  <2> HIDE DEF clean
  <2>4. texts' = [heard |-> texts.heard, source |-> texts.source, shown |-> clean, spoken |-> texts.spoken]
    BY <1>5, <2>2
  <2>5. texts' \in Texts
    BY <1>5, <2>3, <2>4 DEF Texts
  <2>6. \A t \in {texts'.source, texts'.shown, texts'.spoken} : Clean(room'.blocked, t)
    BY <1>4, <1>5, <2>3, <2>4
  <2> QED
    BY <2>5, <2>6 DEF BlockedWordsStop, Clean
<1>8. ASSUME Speak PROVE texts' \in Texts /\ BlockedWordsStop'
  <2> DEFINE clean == Sanitize(room, texts.shown)
  <2>1. texts' = [texts EXCEPT !.spoken = clean]
    BY <1>8 DEF Speak
  <2>2. clean \in Seq(Characters) /\ Clean(room.blocked, clean)
    BY <1>1, <1>5, SanitizedTextsAreClean
  <2> HIDE DEF clean
  <2>3. texts' = [heard |-> texts.heard, source |-> texts.source, shown |-> texts.shown, spoken |-> clean]
    BY <1>5, <2>1
  <2>4. texts' \in Texts
    BY <1>5, <2>2, <2>3 DEF Texts
  <2>5. \A t \in {texts'.source, texts'.shown, texts'.spoken} : Clean(room'.blocked, t)
    BY <1>4, <1>5, <2>2, <2>3
  <2> QED
    BY <2>4, <2>5 DEF BlockedWordsStop, Clean
<1> QED
  BY <1>4, <1>6, <1>7, <1>8 DEF SessionTyped

LEMMA PolicyKept == PolicyInvariant /\ [LexiconNext]_lexiconVars => PolicyInvariant'
<1> SUFFICES ASSUME PolicyInvariant, [LexiconNext]_lexiconVars PROVE PolicyInvariant'
  OBVIOUS
<1>1. TablesTyped /\ SessionTyped /\ QuietLoad /\ BlockedWordsStop
  BY DEF PolicyInvariant
<1>2. CASE UNCHANGED lexiconVars
  BY <1>2 DEF lexiconVars, tableVars, PolicyInvariant, TablesTyped, SessionTyped, QuietLoad,
              BlockedWordsStop
<1>3. CASE EditTables /\ UNCHANGED <<room, texts>>
  <2>1. TablesTyped'
    BY <1>1, <1>3, TablesKept
  <2> QED
    BY <1>1, <1>3, <2>1 DEF PolicyInvariant, SessionTyped, QuietLoad, BlockedWordsStop
<1>4. CASE StartSession \/ LoadBinding \/ LoadEntries \/ LoadBlocks \/ EndSession
  <2>1. SessionTyped' /\ texts' = NoTexts
    BY <1>1, <1>4, LoadPublishesNothing
  <2>2. Clean(room'.blocked, <<>>)
    BY <2>1, NoTextsAreClean DEF SessionTyped, Policies
  <2>3. BlockedWordsStop'
    BY <2>1, <2>2 DEF BlockedWordsStop, Clean, NoTexts
  <2>4. TablesTyped'
    BY <1>1, <1>4 DEF StartSession, LoadBinding, LoadEntries, LoadBlocks, EndSession, tableVars, TablesTyped
  <2> QED
    BY <2>1, <2>3, <2>4 DEF PolicyInvariant, QuietLoad
<1>5. CASE \/ \E heard \in Heard : Transcribe(heard)
           \/ \E answer \in Answers : Translate(answer)
           \/ Speak
  <2>1. SessionTyped' /\ QuietLoad' /\ BlockedWordsStop'
    BY <1>1, <1>5, PublishedTexts
  <2>2. TablesTyped'
    BY <1>1, <1>5 DEF Transcribe, Translate, Speak, tableVars, TablesTyped
  <2> QED
    BY <2>1, <2>2 DEF PolicyInvariant
<1> QED
  BY <1>2, <1>3, <1>4, <1>5 DEF LexiconNext

\* If each blocked word is replaced by something that shares no character with
\* a blocked word, a word that is blocked wherever it occurs is in nothing that
\* is translated, shown, stored as translation or spoken, for any texts, terms
\* and blocked words in any number, though each replacement may join what stood
\* on both sides of a word and terms are put in after the translator answered
\* (language_policy.rs 87, 103).
THEOREM BlockedWordsStayOut == LexiconSpec => []BlockedWordsStop
<1>1. PolicyInvariant => BlockedWordsStop
  BY DEF PolicyInvariant
<1> QED
  BY <1>1, PolicyStart, PolicyKept, PTL DEF LexiconSpec

\* The tables and the policy of a session keep their types, for any rows
\* (language_policy.rs 13).
THEOREM LexiconTypes ==
    ASSUME Terms # {}, Blocks # {}
    PROVE  LexiconSpec => []LexiconTypeOK
<1>1. PolicyInvariant => LexiconTypeOK
  <2> SUFFICES ASSUME PolicyInvariant PROVE LexiconTypeOK
    OBVIOUS
  <2>1. (CHOOSE t \in Terms : TRUE) \in Terms /\ (CHOOSE x \in Blocks : TRUE) \in Blocks
    OBVIOUS
  <2>2. /\ \A e \in EntryIds : entries[e].status \in Statuses /\ entries[e].term \in Terms
        /\ \A b \in BlockIds : blocks[b].status \in Statuses /\ blocks[b].block \in Blocks
    BY <2>1 DEF PolicyInvariant, TablesTyped, EntryRows, BlockRows
  <2>3. /\ room.dictionary \in Dictionaries \cup {NoDictionary}
        /\ room.terms \in Seq(Terms) /\ room.blocked \in Seq(Blocks)
    BY DEF PolicyInvariant, SessionTyped, Policies
  <2>4. Range(room.terms) \subseteq Terms /\ Range(room.blocked) \subseteq Blocks
    BY <2>3 DEF Range
  <2> QED
    BY <2>2, <2>3, <2>4 DEF PolicyInvariant, TablesTyped, Bindings, LexiconTypeOK
<1> QED
  BY <1>1, PolicyStart, PolicyKept, PTL DEF LexiconSpec
=============================================================================
