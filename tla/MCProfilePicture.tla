--------------------------- MODULE MCProfilePicture ---------------------------
(* Keys and threads are interchangeable.                                    *)
EXTENDS ProfilePicture, TLC

Symmetry == Permutations(Keys) \cup Permutations(Threads)
=============================================================================
