--------------------------- MODULE MCSessionStore ---------------------------
(* A small session store: workers, channels and sessions are               *)
(* interchangeable.                                                        *)
EXTENDS SessionStore, TLC

Symmetry == Permutations(Worker) \cup Permutations(Channel) \cup Permutations(Session)

=============================================================================
