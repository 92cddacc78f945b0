---------------------------- MODULE MCContinuous ----------------------------
(***************************************************************************)
(* Instances of the continuous engine for TLC.                             *)
(***************************************************************************)
EXTENDS ContinuousProperties

Shape(p, n, m) == [priority |-> p, prompt |-> n, maxTokens |-> m]

(* An urgent and a patient class; three tokens leave the patient requests
   time to be paused twice. *)
TwoClasses == {Shape(0, 1, 2), Shape(1, 1, 3)}

(* Prompts of several tokens, one that tokenizes to nothing and one that
   overflows NCtx = 4. *)
AllShapes == {Shape(0, 1, 2), Shape(1, 2, 2), Shape(0, 0, 1), Shape(0, 3, 2)}
=============================================================================
