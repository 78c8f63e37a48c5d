------------------------------ MODULE MCQuizzes ------------------------------
(* Model values of Quizzes for TLC.                                            *)
EXTENDS Quizzes, TLC

Symmetry == Permutations(Requests) \cup Permutations(QuizIds) \cup Permutations(QuestionIds)
            \cup Permutations(QuizSlugs)

===============================================================================
