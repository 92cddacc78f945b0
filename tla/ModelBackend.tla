----------------------------- MODULE ModelBackend -----------------------------
(***************************************************************************)
(* A model backend as the static and simple engines drive it               *)
(* (backends/mock.py, backends/base.py): one cache of cells per sequence,  *)
(* and the logits of the last decode call, one entry for each of its       *)
(* slots, which the next call replaces.                                    *)
(*                                                                         *)
(* Token <<r, n>> is the n-th token of request r counted from its first    *)
(* prompt token.  The model is a function of the context it attends to:    *)
(* it continues request r where the cells of the sequence are the first    *)
(* tokens of r, each at its position, and produces Garbage elsewhere.      *)
(***************************************************************************)
EXTENDS Integers, Sequences

CONSTANTS
    NumRequests,   \* bound: how many requests the clients create
    SeqIds         \* the sequences of the cache

Requests == 1..NumRequests

Garbage  == <<0, 0>>
SENTINEL == <<0, 1>>
Tokens   == (Requests \X Nat) \cup {Garbage}

VARIABLES
    kv,       \* per sequence, the token cached at each position
    logits    \* per slot of the last decode: whose it is, and what it predicts

backendVars == <<kv, logits>>

TokenSlot(s, tok, pos, want) ==
    [seq |-> s, tok |-> tok, pos |-> pos, want |-> want]

(* seq_rm(s, -1, -1), and a seeded fault that forgets it. *)
EmptiedFault(cache, S) == cache
Emptied(cache, S) == [s \in SeqIds |-> IF s \in S THEN << >> ELSE cache[s]]

(* A batch names a position of a sequence once. *)
Written(cache, slots) ==
    [s \in SeqIds |->
        LET mine == {i \in DOMAIN slots : slots[i].seq = s}
        IN  [p \in DOMAIN cache[s] \cup {slots[i].pos : i \in mine} |->
                IF \E i \in mine : slots[i].pos = p
                THEN slots[CHOOSE i \in mine : slots[i].pos = p].tok
                ELSE cache[s][p]]]

HoldsContext(cells, r, n) ==
    \A p \in 0..(n - 1) : p \in DOMAIN cells /\ cells[p] = <<r, p>>

Predicted(cells, pos) ==
    IF \E r \in Requests : HoldsContext(cells, r, pos + 1)
    THEN <<CHOOSE r \in Requests : HoldsContext(cells, r, pos + 1), pos + 1>>
    ELSE Garbage

(* decode; a slot that did not ask for logits has none to read. *)
Decode(slots) ==
    /\ kv' = Written(kv, slots)
    /\ logits' = [i \in DOMAIN slots |->
                    [seq |-> slots[i].seq, pos |-> slots[i].pos,
                     tok |-> IF slots[i].want
                             THEN Predicted(kv'[slots[i].seq], slots[i].pos)
                             ELSE Garbage]]
=============================================================================
