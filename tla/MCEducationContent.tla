-------------------------- MODULE MCEducationContent --------------------------
(* Model values of EducationContent for TLC; requests, ids and values are symmetric.  *)
EXTENDS EducationContent, TLC

Symmetry == Permutations(Requests) \cup Permutations(ContentIds) \cup Permutations(Values)

===============================================================================
