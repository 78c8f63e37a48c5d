---------------------------- MODULE MCAuthSessions ----------------------------
(* Model values of AuthSessions for TLC.  The constants below are sets of model    *)
(* values the specification never tells apart, so permuting them is sound for its  *)
(* safety properties.                                                              *)
EXTENDS AuthSessions, TLC

Symmetry == Permutations(Requests) \cup Permutations(Tokens)
            \cup Permutations(UserIds) \cup Permutations(Passwords)

===============================================================================
