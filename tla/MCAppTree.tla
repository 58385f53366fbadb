----------------------------- MODULE MCAppTree -----------------------------
(* AppTree with names that TLC may exchange: no definition tells them      *)
(* apart.                                                                  *)
EXTENDS AppTree

NamesAlike == Permutations(Names)
=============================================================================
