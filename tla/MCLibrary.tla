----------------------------- MODULE MCLibrary -----------------------------
(***************************************************************************)
(* Instances of Library for TLC: where sessions come from, and where they   *)
(* were driven.                                                            *)
(***************************************************************************)
EXTENDS Library

CONSTANTS upload, oval, field

\* One of an upload and two synced, with tracks nobody names.
MCBatchOf == <<upload, NoBatch, NoBatch>>
MCPlaceOf == <<0, 2, 9>>
MCCircuitOf == <<oval, oval, field>>
MCGpsOf == <<{TRUE}, BOOLEAN, {TRUE}>>
MCNamesAt == <<{}, {}, {}>>
MCModes == {{"analyze"}, {"clear"}, {"archive", "clear"}}

\* Three at a circuit longer than the radius of 3, the middle one between two of
\* its names, the last exactly as far from it as the radius; and one at the next
\* circuit, just beyond.
NamingBatchOf == [s \in 1..4 |-> NoBatch]
NamingPlaceOf == <<0, 2, 5, 9>>
NamingCircuitOf == <<oval, oval, oval, field>>
NamingGpsOf == [s \in 1..4 |-> {TRUE}]
NamingNamesAt == <<{1}, {}, {2}, {3}>>
NamingModes == {{"analyze"}}
=============================================================================
