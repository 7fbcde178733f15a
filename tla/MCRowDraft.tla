------------------------------ MODULE MCRowDraft ------------------------------
(* Three colours and four numbers, two copies of each tile and two jokers: *)
(* rows of up to four tiles reach every bound and every overlap.      *)
EXTENDS RowDraft

MCColors == <<"C1", "C2", "C3">>
=============================================================================
