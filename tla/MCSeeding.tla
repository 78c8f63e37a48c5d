------------------------------- MODULE MCSeeding -------------------------------
(* Model values of Seeding for TLC.                                            *)
EXTENDS Seeding, TLC

Symmetry == Permutations(Runs)

================================================================================
