------------------------------ MODULE MCDesktop ------------------------------
(***************************************************************************)
(* The instance of Desktop for TLC: two managers without a profile of      *)
(* their own, for whom drivers are added.                                  *)
(***************************************************************************)
EXTENDS Desktop

Managers == [l \in Logins |-> NoDriver]

=============================================================================
