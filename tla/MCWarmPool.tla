----------------------------- MODULE MCWarmPool -----------------------------
(* A small pool for TLC: its processes, keys and sessions are              *)
(* interchangeable.                                                        *)
EXTENDS WarmPool, TLC

Symmetry == Permutations(Proc) \cup Permutations(Key) \cup Permutations(Session)

=============================================================================
