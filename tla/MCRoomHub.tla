------------------------------ MODULE MCRoomHub ------------------------------
\* Instances of RoomHub for TLC, and what the documents say of a room.
EXTENDS RoomHub, TLC

CONSTANTS owner, guest, c1, c2, h1

OwnerAndGuest    == {owner, guest}
TwoConnections   == {c1, c2}
BothGuest        == [c \in {c1, c2} |-> guest]
OneEach          == c1 :> guest @@ c2 :> owner
NoHandlers       == {}
OneHandler       == {h1}
OnlyStart        == {"start"}
OnlyEnd          == {"end"}
NoConnections    == {}
FirstConnection  == {c1}
-----------------------------------------------------------------------------
(* README 326: "Every joined, unmuted member can publish".  An open        *)
(* connection that nobody revoked belongs to a room that has an audio      *)
(* runtime; room_hub.rs 209 takes down the count of the user, whichever    *)
(* connection it belongs to.                                               *)
LiveConnectionsCanPublish ==
    \A c \in Connections : link[c] = "open" /\ ~revoked[c] => audioTx # NoMixer
=============================================================================
