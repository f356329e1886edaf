------------------------------ MODULE MCTeamsPage ------------------------------
(* Employees, names and requests are interchangeable.  The teams that are   *)
(* there at the start have the same name.                                   *)
EXTENDS TeamsPage, TLC

Symmetry == Permutations(Users) \cup Permutations(Names) \cup Permutations(Slots)

MCInit == Init /\ name[1] = name[2]
MCSpec == MCInit /\ [][Next]_vars
=============================================================================
