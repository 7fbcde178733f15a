----------------------------- MODULE MCRoomPages -----------------------------
(* Four people and a room of three: the last seat is contested, a founder    *)
(* can leave it to somebody or to nobody, and a rematch follows the first    *)
(* game.  While the browser is looked at there are two of them.  Who did not *)
(* found the room is as good as any other who did not.                       *)
EXTENDS RoomPages, TLC

Others == Permutations(Players \ {Founder})
===============================================================================
