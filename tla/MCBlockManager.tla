---------------------------- MODULE MCBlockManager ----------------------------
(***************************************************************************)
(* Instances of the prefix cache for TLC.                                  *)
(***************************************************************************)
EXTENDS BlockManagerProperties

CONSTANTS r1, r2, d1, d2, w1, w2, b1, b2, b3

(* A common first token, and a prompt of a block more than the others. *)
ThreePrompts == {<<w1, w1>>, <<w1, w2>>, <<w2, w1, w1>>}

(* A prompt, and one that continues what may be generated for it. *)
TwoPrompts == {<<w1>>, <<w1, w1, w1>>}

(* No definition distinguishes one slot, donor or block from another. *)
Symmetric == Permutations(Lanes) \cup Permutations(Donors) \cup
                Permutations(Blocks)

(* The hash is the chain itself, or that but for the first block, where all
   tokens have the same. *)
EmptyChain == << >>
PerfectHash(h, block)   == h \o block
CollidingHash(h, block) == IF h = EmptyChain THEN <<Pool!EMPTY>> ELSE h \o block
=============================================================================
