------------------------------ MODULE MCAnswer ------------------------------
(* A small instance of an answer: the limits are scaled down, a fence mark *)
(* may be one character long, and a message takes two files.               *)
EXTENDS Answer

Plain(n, wide) ==
  [len |-> n, wide |-> wide, mark |-> "none", run |-> 0, info |-> FALSE, nl |-> TRUE]
Fenced(n, mark, run) ==
  [len |-> n, wide |-> {}, mark |-> mark, run |-> run, info |-> n > run + 1, nl |-> TRUE]

(* Lines that are blank, that just fit, that leave a newline over when they *)
(* are cut, that need two cuts; one that is mostly emoji, and one with an  *)
(* emoji more than Python counts; and fences that nest or have a language. *)
Lines ==
  {Plain(1, {}), Plain(7, {0}), Plain(8, {}), Plain(16, 0 .. 8), Fenced(2, "tick", 1),
   Fenced(3, "tick", 1), Fenced(3, "tick", 2), Fenced(2, "tilde", 1)}

Texts == BoundedSeq(Lines, 3) \ {<<>>}
Unended(t) == [t EXCEPT ![Len(t)].nl = FALSE]
AnswerTexts == Texts \cup {Unended(t) : t \in {u \in Texts : Last(u).len > 1}}

(* The answers without an astral character.                                *)
NarrowTexts == {t \in AnswerTexts : \A i \in DOMAIN t : t[i].wide = {}}

Listings ==
  BoundedSeq(Entry, 1) \cup {<<a, b>> : a \in File, b \in File \cup {"gone"}}

(* The guards by which AnswerProofs writes out the fairness of AnswerLive  *)
(* say exactly when its actions are enabled.  Not in a .cfg: add it as an  *)
(* invariant.                                                              *)
GuardsAreRight ==
  /\ (\/ jpc \notin {"relabel", "label", "stopping", "done", "escaped"}
      \/ jpc \in {"relabel", "label"} /\ ~EditOf("job")
      \/ jpc = "stopping" /\ loader = "over") = ENABLED <<JobStep>>_answerVars
  /\ (flight # <<>>) = ENABLED <<Discord>>_answerVars
  /\ (jpc = "stopping" /\ loader \in {"sleeping", "editing"}) = ENABLED <<Cancelled>>_answerVars

=============================================================================
