----------------------------- MODULE MCScreens -----------------------------
(* The screens for TLC: the threads that set the status are model values,  *)
(* and which is which makes no difference.                                 *)
EXTENDS Screens

Threads == Permutations(Posters)
=============================================================================
