------------------------- MODULE StaticBatchProperties -------------------------
(***************************************************************************)
(* What is checked of the static-batch engine.                             *)
(***************************************************************************)
EXTENDS StaticBatch

Stages == {"new", "refused", "queued", "prefill", "decode", "done", "aborted"}
Idxs   == Nat \ {0}

(* The type invariant: in particular no position beyond the context is ever
   cached, the next batch has one slot for each request still in it, and the
   engine holds max_queue requests at most, although submit checks that in one
   critical section and appends in another. *)
TypeOK ==
    /\ \A s \in SeqIds : \A p \in DOMAIN kv[s] : p \in 0..(NCtx - 1) /\ kv[s][p] \in Tokens
    /\ logits \in Seq([seq : SeqIds, pos : Nat, tok : Tokens])
    /\ waiting \in Seq(Requests) /\ runningN \in 0..NumRequests
    /\ Len(waiting) + runningN + (IF submitting = 0 THEN 0 ELSE 1) <= MaxQueue
    /\ arrived \in 0..NumRequests /\ submitting \in 0..NumRequests
    /\ stage \in [Requests -> Stages]
    /\ seqId \in [Requests -> SeqIds \cup {NoSeq}]
    /\ output \in [Requests -> Seq(Tokens)]
    /\ pc \in {"loop", "gather", "prefill", "sample", "release", "cleanup", "exited"}
    /\ \A q \in {batch, active, still, todo} : q \in Seq(Requests)
    /\ Len(slots) = Len(still)
    /\ DOMAIN logitsIdx \subseteq Requests

Closed(r) == SENTINEL \in ToSet(queue[r])

(***************************************************************************)
(* _running_n counts the requests of the batch that are not released: when *)
(* no batch runs, nothing is held back from the queue's capacity (submit,  *)
(* line 71), however the batch before ended.                               *)
(***************************************************************************)
RunningCounted == runningN = Cardinality({r \in ToSet(batch) : ~ Closed(r)})

(***************************************************************************)
(* After the first decode of the batch, a request is sampled from the      *)
(* logits of its own sequence, at the last position of it, however many    *)
(* others have ended and shifted the slots (_run_batch, 197-206).          *)
(***************************************************************************)
SamplesOwnSequence ==
    pc = "sample" => \A r \in ToSet(todo) : output[r] # << >> =>
        /\ HasLogits(r)
        /\ logits[logitsIdx[r]].seq = seqId[r]
        /\ logits[logitsIdx[r]].pos = nComputed[r] - 1

(***************************************************************************)
(* Nothing of a batch is left in the cache when the next one is formed,    *)
(* whichever way it ended.                                                 *)
(***************************************************************************)
CachesEmptied == pc \in {"loop", "gather"} => \A s \in SeqIds : DOMAIN kv[s] = {}

(* The stream of r so far, with its end once it has one. *)
Exact(r) ==
    /\ \A i \in DOMAIN output[r] : output[r][i] = <<r, shape[r].prompt + i - 1>>
    /\ queue[r] = output[r] \o IF Closed(r) THEN <<SENTINEL>> ELSE << >>

(***************************************************************************)
(* What a client is sent are the tokens of its own generation, in order,   *)
(* and the end once, after the last of them.                               *)
(***************************************************************************)
StreamExact == \A r \in Requests : Exact(r)

(* r has a slot, and the next request to have one began another batch. *)
ScheduledAfter(r) == {q \in Requests : q > r /\ seqId[q] # NoSeq}
PrefilledLast(r)  ==
    /\ seqId[r] # NoSeq
    /\ ScheduledAfter(r) # {} => seqId[Min(ScheduledAfter(r))] = 0

(***************************************************************************)
(* The request that is prefilled last in its batch, and so every request   *)
(* that has a batch to itself, is served exactly, whatever its companions  *)
(* do meanwhile (_run_batch).                                              *)
(***************************************************************************)
LastExact == \A r \in Requests : PrefilledLast(r) => Exact(r)

Accepted == {r \in Requests : stage[r] \notin {"new", "refused"}}

(***************************************************************************)
(* Every accepted request is answered to its end, unless the engine is     *)
(* stopped (a request that waits then is not: _form_batch, 119-120).       *)
(***************************************************************************)
EveryRequestAnswered ==
    \A r \in Requests : (r \in Accepted) ~> (Closed(r) \/ stopping)
=============================================================================
