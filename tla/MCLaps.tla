------------------------------- MODULE MCLaps --------------------------------
(***************************************************************************)
(* The instance of Laps and UniFile for TLC.                               *)
(***************************************************************************)
EXTENDS UniFile
=============================================================================
