----------------------------- MODULE SharedCells -----------------------------
(***************************************************************************)
(* The KV cache of backends/llama_cpp_backend.py: one pool of cells for    *)
(* all sequences.  A cell holds a token at a position and belongs to the   *)
(* sequences in its set; copying a sequence adds a member, removing one    *)
(* takes a member out, and a cell without members is free.  As a sequence  *)
(* has at most one cell for a position, the cells in use form a set.       *)
(*                                                                         *)
(* llama_memory_seq_rm, llama_memory_seq_cp and llama_decode are calls of  *)
(* a library; they are modelled by what the backend's comments and its     *)
(* callers take them to do.                                                *)
(***************************************************************************)
EXTENDS Integers, FiniteSets

CONSTANT Checked   \* seq_share_prefix refuses a source that is too short, as
                   \* that of backends/mock.py does, and this one does not

VARIABLE kv        \* the cells in use, [pos, tok, seqs]

Held(s) == {c \in kv : s \in c.seqs}

(* llama_memory_seq_rm(s, from, -1) *)
Removed(k, s, from) ==
    {c \in {IF c.pos >= from THEN [c EXCEPT !.seqs = @ \ {s}] ELSE c : c \in k} :
        c.seqs # {}}

(* llama_memory_seq_cp(src, dst, -1, -1) *)
Copied(k, src, dst) ==
    {IF src \in c.seqs THEN [c EXCEPT !.seqs = @ \cup {dst}] ELSE c : c \in k}

(* seq_rm(s, -1, -1); seeded fault: the first cell stays. *)
WithoutFault(k, s) == Removed(k, s, 1)
Without(k, s) == Removed(k, s, 0)

(* seq_share_prefix; seeded fault: the destination is not trimmed. *)
PrefixSharedFault(k, src, dst, n) == Copied(Without(k, dst), src, dst)
PrefixShared(k, src, dst, n) == Removed(Copied(Without(k, dst), src, dst), dst, n)
Shares(src, n) == n > 0 /\ (Checked => Cardinality(Held(src)) >= n)

(* decode, for one slot of the batch *)
Decoded(k, s, pos, tok) == k \cup {[pos |-> pos, tok |-> tok, seqs |-> {s}]}

(* The cache of s begins with these tokens, each at its position. *)
Holds(s, toks) ==
    \A i \in DOMAIN toks : \E c \in Held(s) : c.pos = i - 1 /\ c.tok = toks[i]
=============================================================================
