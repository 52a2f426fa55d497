------------------------------ MODULE MCProfiles ------------------------------
(* Model values for Profiles; processes are interchangeable, and so are     *)
(* keys.                                                                    *)
EXTENDS Profiles, TLC

Symmetry == Permutations(Process) \cup Permutations(Key)
=============================================================================
