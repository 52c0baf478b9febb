---------------------------------- MODULE Cases ----------------------------------
(***************************************************************************)
(* One decision per behaviour: a case of the topic is chosen and the       *)
(* decision that the code takes on it is computed once; the properties of  *)
(* the topic relate the two.                                               *)
(***************************************************************************)
VARIABLES
  topic,     \* what is to be decided
  input,     \* the case
  answer,    \* the decision
  decided

vars == <<topic, input, answer, decided>>

Undecided == decided = FALSE /\ input = <<>> /\ answer = <<>>

Asked(t) == topic = t /\ ~decided
Is(t) == topic = t /\ decided

Take(case, decision) ==
  /\ input' = case /\ answer' = decision
  /\ decided' = TRUE
  /\ UNCHANGED topic
=============================================================================
