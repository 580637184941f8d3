------------------------------- MODULE MCTeams -------------------------------
(***************************************************************************)
(* Symmetry for the instances of Teams: profiles, teams, rows and calls    *)
(* are interchangeable.                                                    *)
(***************************************************************************)
EXTENDS Teams, TLC

Symmetry ==
    Permutations(Profiles) \cup Permutations(Teams) \cup Permutations(Rows)
        \cup Permutations(Calls)

=============================================================================
