---------------------------- MODULE TokenLifecycle ----------------------------
(***************************************************************************)
(* What the session store promises of each refresh token, as one atomic    *)
(* object: a token opens a session at most once, and a session that has    *)
(* ended, by rotation, logout, or deletion of its account, never comes     *)
(* back to life.                                                           *)
(***************************************************************************)
CONSTANT Tokens

VARIABLE status     \* Tokens -> "fresh" (never a session), "live" or "dead"

Init == status = [t \in Tokens |-> "fresh"]

\* A session row is created for t.
Open(t) ==
    /\ status[t] = "fresh"
    /\ status' = [status EXCEPT ![t] = "live"]

\* The sessions of T end; a token whose session was never created is discarded.
Retire(T) == status' = [t \in Tokens |-> IF t \in T THEN "dead" ELSE status[t]]

Next == (\E t \in Tokens : Open(t)) \/ (\E T \in SUBSET Tokens : Retire(T))

Spec == Init /\ [][Next]_status

===============================================================================
