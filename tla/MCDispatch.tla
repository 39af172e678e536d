----------------------------- MODULE MCDispatch -----------------------------
(* A small dispatcher: messages, channels and sessions are interchangeable. *)
EXTENDS Dispatch, TLC

Symmetry == Permutations(Msg) \cup Permutations(Channel) \cup Permutations(Session)

(* The guard by which DispatchProofs writes out the fairness of MsgStep    *)
(* says exactly when it is enabled.  Not in a .cfg: add it as an invariant. *)
GuardsAreRight ==
  \A m \in Msg : (pc[m] \notin {"new", "waiting", "done"}) = ENABLED <<MsgStep(m)>>_dispatchVars

=============================================================================
