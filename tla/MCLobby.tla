------------------------------- MODULE MCLobby -------------------------------
(* Two people, one of whom has the name of the other's public rooms, so that  *)
(* both compete for the names built from it; the rooms that would not are    *)
(* left out.  Two candidates are few enough to run out of.                   *)
EXTENDS Lobby, TLC

CONSTANTS ann, public_ann

MCNameBase ==
  (<<ann, "public">> :> "public_ann") @@ (<<public_ann, "private">> :> "public_ann")
===============================================================================
