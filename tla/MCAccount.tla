------------------------------ MODULE MCAccount ------------------------------
(* No property is about which password an account has: one will do.          *)
EXTENDS Account, TLC
Alike == Permutations(Names) \cup Permutations(Browsers) \cup Permutations(Requests)
===============================================================================
