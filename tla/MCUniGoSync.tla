---------------------------- MODULE MCUniGoSync -----------------------------
(***************************************************************************)
(* The instance of UniGoSync for TLC: an unreadable file and a readable    *)
(* one of two sessions, listed in either order.                            *)
(***************************************************************************)
EXTENDS UniGoSync

StuckNames == {"bad", "two"}
StuckParts == [n \in StuckNames |-> IF n = "two" THEN 2 ELSE 1]

=============================================================================
