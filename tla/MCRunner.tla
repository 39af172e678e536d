------------------------------ MODULE MCRunner ------------------------------
(* A small instance of the runner: sessions and jobs are interchangeable,  *)
(* and so are the processes that can be killed and those that cannot.      *)
EXTENDS Runner, TLC

Symmetry ==
  Permutations(Proc \ Unkillable) \cup Permutations(Unkillable) \cup Permutations(Key)
    \cup Permutations(Session) \cup Permutations(Job)

(* The guards by which RunnerProofs writes out the fairness of an action   *)
(* say exactly when that action is enabled, so that weak fairness implies  *)
(* the forms the theorems assume.  Not in a .cfg: add it as an invariant.  *)
GuardsAreRight ==
  /\ \A j \in Job :
       /\ (deadline[j] = "armed" /\ pc[j] # "over") = ENABLED <<Timeout(j)>>_vars
       /\ (pc[j] = "over" \/ (pc[j] \in Retiring /\ reap[j] \subseteq Unkillable))
            = ENABLED <<Retired(j) \/ Retry(j) \/ Finish(j)>>_vars
       /\ (pc[j] = "expired" \/ (pc[j] = "reaping" /\ reap[j] \subseteq Unkillable))
            = ENABLED <<HandleTimeout(j) \/ TimeoutHandled(j)>>_vars
  /\ \A p \in Proc : (p \in timer) = ENABLED <<IdleTimeout(p)>>_vars
  /\ \A r \in Reaper :
       (reap[r] \ Unkillable # {}) = ENABLED <<\E p \in reap[r] \ Unkillable : ProcessExits(p)>>_vars

=============================================================================
