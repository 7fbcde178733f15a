------------------------------ MODULE MCBotTable ------------------------------
(* The real colours and numbers.  The deck reaches both ends of a run, four *)
(* colours of one number, two copies of a tile and both jokers; the person  *)
(* lays a run to carry on, a group to complete and a group with a joker.    *)
EXTENDS BotTable

MCColors == <<"C1", "C2", "C3", "C4">>
T(c, v) == Numbered(c, v, "a")
U(c, v) == Numbered(c, v, "b")
J(k) == Numbered("joker", 0, k)

MCDeck == {T("C1", 9), T("C1", 10), T("C1", 11), T("C1", 13), U("C1", 11),
           T("C2", 11), T("C3", 11), T("C4", 11), J("a"), J("b")}
MCHumanRows == {
  <<U("C1", 6), U("C1", 7), U("C1", 8)>>,
  <<U("C1", 11), U("C1", 12), U("C1", 13)>>,
  <<U("C2", 11), U("C3", 11), U("C4", 11)>>,
  <<U("C1", 12), J("b"), U("C3", 12)>>}
===============================================================================
