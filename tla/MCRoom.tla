-------------------------------- MODULE MCRoom --------------------------------
(* The room alone, for what its games come to: three people and a room of    *)
(* two, which anybody may leave while its game goes on.                      *)
EXTENDS Room
===============================================================================
