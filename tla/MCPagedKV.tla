------------------------------ MODULE MCPagedKV ------------------------------
(***************************************************************************)
(* Instances of the paged allocator for TLC.                               *)
(***************************************************************************)
EXTENDS PagedKVProperties

CONSTANTS s1, s2, w1, w2, b1, b2, b3

(* No definition distinguishes one sequence id, one token or one block from
   another. *)
Symmetric == Permutations(Seqs) \cup Permutations(Words) \cup Permutations(Blocks)

(* The hash is the chain itself, but of the first block only the first token:
   chains that differ in nothing else collide, and go on colliding in every
   block that continues them both. *)
EmptyChain == << >>
CollidingHash(h, block) == IF h = EmptyChain THEN <<block[1]>> ELSE h \o block
=============================================================================
