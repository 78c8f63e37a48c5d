--------------------------- MODULE MCLearningCenter ---------------------------
(* Model values of LearningCenter for TLC.                                     *)
EXTENDS LearningCenter, TLC

Symmetry == Permutations(Slots) \cup Permutations(Quizzes)

===============================================================================
