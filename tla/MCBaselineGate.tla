---------------------------- MODULE MCBaselineGate ----------------------------
(* The settings of the workflow for BaselineGate. *)
EXTENDS BaselineGate

Setting(serial, failOnMixed, flaky) ==
  [serial |-> serial, failOnMixed |-> failOnMixed, flaky |-> flaky]

(* Runs that overlap and may fail, and runs in order that do not. *)
Both == {Setting(FALSE, TRUE, TRUE), Setting(TRUE, FALSE, FALSE), Setting(FALSE, FALSE, FALSE)}
(* The minimum workflow of the docs, on a good day. *)
Documented == {Setting(FALSE, TRUE, FALSE)}
=============================================================================
