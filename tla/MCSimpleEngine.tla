---------------------------- MODULE MCSimpleEngine ----------------------------
(***************************************************************************)
(* Instances of the simple engine for TLC.                                 *)
(***************************************************************************)
EXTENDS SimpleEngineProperties

Shape(prompt, maxTokens) == [prompt |-> prompt, maxTokens |-> maxTokens]

OnlySequence == {0}

(* Prompts of one chunk and of two, and one request that does not fit in the
   context of 5. *)
Mixed == {Shape(1, 2), Shape(3, 2), Shape(4, 2)}
=============================================================================
