----------------------------- MODULE MCAccounts -----------------------------
(***************************************************************************)
(* Accounts, and the rooms their owners meet in (MeetingRooms), for TLC.   *)
(* The two share no variable, so one run checks them side by side: `part'  *)
(* names the one that moves, the other stays in an initial state.          *)
(***************************************************************************)
EXTENDS Accounts, MeetingRooms, TLC

CONSTANTS ann, bob, pw1, pw2, r1, r2, s1, s2, t1, t2

TwoPeople    == {ann, bob}
TwoPasswords == {pw1, pw2}
TwoRequests  == {r1, r2}
TwoSessions  == {s1, s2}
TwoTokens    == {t1, t2}
Symmetry     == Permutations(TwoPeople) \cup Permutations(TwoRequests)
                \cup Permutations(TwoSessions) \cup Permutations(TwoTokens)

VARIABLE part

PartsInit ==
    /\ part \in {"accounts", "rooms"}
    /\ Init /\ RoomsInit
    /\ part = "rooms" => ~installed

PartsNext ==
    \/ part = "accounts" /\ Next /\ UNCHANGED <<part, roomVars>>
    \/ part = "rooms" /\ RoomsNext /\ UNCHANGED <<part, vars>>

PartsSpec == PartsInit /\ [][PartsNext]_<<part, vars, roomVars>>
=============================================================================
