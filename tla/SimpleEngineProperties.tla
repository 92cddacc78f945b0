------------------------- MODULE SimpleEngineProperties -------------------------
(***************************************************************************)
(* What is checked of the simple engine.                                   *)
(***************************************************************************)
EXTENDS SimpleEngine

(* The type invariant: in particular no position beyond the context is ever
   cached, and _pending stays between 0 and max_queue. *)
TypeOK ==
    /\ \A p \in DOMAIN kv[0] : p \in 0..(NCtx - 1) /\ kv[0][p] \in Tokens
    /\ arrived \in 0..NumRequests
    /\ pendingN \in 0..MaxQueue
    /\ line \in Seq(Requests)
    /\ client \in [Requests -> {"none", "submitted", "streaming", "ended", "gone"}]
    /\ stage \in [Requests -> {"new", "refused", "queued", "prefill", "decode",
                               "done", "aborted"}]
    /\ output \in [Requests -> Seq(Tokens)]
    /\ worker \in [Requests -> {"off", "begin", "prefill", "sample", "decode",
                                "end", "returned"}]
    /\ pos \in [Requests -> 0..NCtx]
    /\ logitsIndex \in [Requests -> Nat]

Closed(r) == SENTINEL \in ToSet(queue[r])
Accepted  == {r \in Requests : stage[r] \notin {"new", "refused"}}
Generating == {r \in Requests : worker[r] \notin {"off", "returned"}}

(***************************************************************************)
(* "One request in flight at a time" (simple.py:3): the generations, which *)
(* all use sequence 0, do not overlap.                                     *)
(***************************************************************************)
OneInFlight == Cardinality(Generating) <= 1

(***************************************************************************)
(* As long as every client stays, generations are serial, and the cache    *)
(* holds nothing but tokens of the request that runs, each at its          *)
(* position, ...                                                           *)
(***************************************************************************)
AloneIfAllStay ==
    Gone = {} =>
        /\ OneInFlight
        /\ \A r \in Generating : worker[r] # "begin" =>
              \A p \in DOMAIN kv[0] : p < pos[r] /\ kv[0][p] = <<r, p>>

(***************************************************************************)
(* ... and what each client is sent are the tokens of its own generation,  *)
(* with the end after the last of them.                                    *)
(***************************************************************************)
ExactIfAllStay ==
    Gone = {} => \A r \in Requests :
        /\ \A i \in DOMAIN output[r] : output[r][i] = <<r, shape[r].prompt + i - 1>>
        /\ queue[r] = output[r] \o IF Closed(r) THEN <<SENTINEL>> ELSE << >>

(***************************************************************************)
(* A client that stays is answered to the end, whoever else goes away or   *)
(* fails, before it, behind it or while it waits at the semaphore.         *)
(***************************************************************************)
EveryRequestAnswered ==
    \A r \in Requests : (r \in Accepted) ~> (client[r] \in {"ended", "gone"})
=============================================================================
