---------------------------- MODULE MCStaticBatch ----------------------------
(***************************************************************************)
(* Instances of the static-batch engine for TLC.                           *)
(***************************************************************************)
EXTENDS StaticBatchProperties

Shape(prompt, maxTokens) == [prompt |-> prompt, maxTokens |-> maxTokens]

TwoSlots   == 0..1
ThreeSlots == 0..2

(* Prompts of one chunk and of two, limits of one to three tokens, and one
   request that does not fit in the context of 5. *)
Mixed == {Shape(1, 1), Shape(3, 2), Shape(4, 3), Shape(2, 3)}

(* After prompts of these lengths the sampler may look for an entry that the
   last prefill did not make. *)
Unequal == {Shape(1, 1), Shape(2, 1)}
=============================================================================
