----------------------------- MODULE MCPushDevice -----------------------------
(* One browser that two players use one after the other.                     *)
EXTENDS PushDevice, TLC
Alike == Permutations(Names) \cup Permutations(Clicks)
===============================================================================
