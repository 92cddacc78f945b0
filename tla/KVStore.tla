------------------------------- MODULE KVStore -------------------------------
(***************************************************************************)
(* What engine/paged_kv.py promises its callers: each sequence has a cache *)
(* of its own.  A call that stores something either does so or fails; it   *)
(* changes the sequence it was made for and no other.  Nothing is said of  *)
(* blocks, so sharing, copy-on-write and eviction must not be visible.     *)
(***************************************************************************)
EXTENDS Naturals, Sequences

CONSTANTS Seqs, Words, Blank

VARIABLES
    store,    \* [Seqs -> Seq(Words \cup {Blank})]: the cache of each sequence
    promise   \* what the call in progress is to store: <<s, content>> or << >>

vars == <<store, promise>>

Init == /\ store = [s \in Seqs |-> << >>]
        /\ promise = << >>

(* allocate and share_prefix give up what the sequence held first. *)
Replace(s, content) ==
    /\ promise = << >>
    /\ promise' = <<s, content>>
    /\ store' = [store EXCEPT ![s] = << >>]

Copy(from, s, n) ==
    /\ from # s
    /\ n \in 1..Len(store[from])
    /\ Replace(s, SubSeq(store[from], 1, n))

(* A token is written at position p, which may lie beyond the end: nothing is
   promised of what stands in between. *)
Write(s, content, p, w) ==
    /\ promise = << >>
    /\ content \in Seq(Words \cup {Blank})
    /\ Len(content) = IF p < Len(store[s]) THEN Len(store[s]) ELSE p + 1
    /\ content[p + 1] = w
    /\ \A i \in 1..Len(store[s]) : i # p + 1 => content[i] = store[s][i]
    /\ promise' = <<s, content>>
    /\ UNCHANGED store

Finish ==
    /\ promise # << >>
    /\ store' = [store EXCEPT ![promise[1]] = promise[2]]
    /\ promise' = << >>

(* The pool is exhausted. *)
Fail ==
    /\ promise # << >>
    /\ promise' = << >>
    /\ UNCHANGED store

Truncate(s, n) ==
    /\ promise = << >>
    /\ n \in 0..Len(store[s])
    /\ store' = [store EXCEPT ![s] = SubSeq(@, 1, n)]
    /\ UNCHANGED promise

Begin ==
    /\ promise = << >>
    /\ \E s \in Seqs :
        \/ promise' # << >> /\ promise'[2] \in Seq(Words) /\ Replace(s, promise'[2])
        \/ \E from \in Seqs : \E n \in 1..Len(store[from]) : Copy(from, s, n)
        \/ /\ promise' # << >>
           /\ \E p \in 0..(Len(promise'[2]) - 1), w \in Words :
                 Write(s, promise'[2], p, w)
        \/ \E n \in 0..Len(store[s]) : Truncate(s, n)

Next == Begin \/ Finish \/ Fail

Spec == Init /\ [][Next]_vars
=============================================================================
