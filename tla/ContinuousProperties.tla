------------------------ MODULE ContinuousProperties ------------------------
(***************************************************************************)
(* What is checked, and in part proved, of the continuous engine.          *)
(***************************************************************************)
EXTENDS Continuous

Stages == {"new", "refused", "queued", "prefill", "decode", "preempted",
           "done", "aborted"}
Control == {"loop", "preempt", "snapshot", "fill", "chunk", "decode", "advance",
            "retire", "failAll", "exited"}
Reasons == {"none", "eos", "stop", "length", "error"}

BatchSlot == [seq : Slots, tok : Tokens, pos : Nat]
Target    == [req : Requests, idx : Nat \ {0}]

IsCache(c) == /\ DOMAIN c \subseteq Nat
              /\ \A p \in DOMAIN c : c[p] \in Tokens

SchedulerType ==
    /\ shape \in [Requests -> Shapes]
    /\ stage \in [Requests -> Stages]
    /\ age \in [Requests -> 0..StarvationAge]
    /\ firstScheduled \in [Requests -> Nat]
    /\ preemptions \in [Requests -> Nat]
    /\ promoted \in SUBSET Requests

QueueType ==
    /\ stopping \in BOOLEAN
    /\ waiting \in SUBSET Requests
    /\ active \in Seq(Requests)
    /\ freeSlots \in Seq(Slots)
    /\ arrived \in 0..NumRequests
    /\ submitting \in 0..NumRequests
    /\ queue \in [Requests -> Seq(Tokens \cup {SENTINEL})]

DataType ==
    /\ seqId \in [Requests -> Slots \cup {NoSeq}]
    /\ nComputed \in [Requests -> Nat]
    /\ prefillSrc \in [Requests -> Seq(Tokens)]
    /\ output \in [Requests -> Seq(Tokens)]
    /\ DOMAIN samplers \subseteq Requests
    /\ \A r \in DOMAIN samplers : samplers[r] \in Seq(Tokens)
    /\ DOMAIN pending \subseteq Requests
    /\ \A r \in DOMAIN pending : pending[r] \in Tokens
    /\ DOMAIN kv = Slots
    /\ \A s \in Slots : IsCache(kv[s])

ThreadType ==
    /\ pc \in Control
    /\ budget \in 0..NBatch
    /\ slots \in Seq(BatchSlot)
    /\ targets \in Seq(Target)
    /\ turn \in Nat
    /\ cur \in 0..NumRequests
    /\ reason \in Reasons
    /\ paused \in 0..NumRequests

(* The type invariant: every variable keeps to the values its Python
   counterpart can take. *)
TypeOK == SchedulerType /\ QueueType /\ DataType /\ ThreadType

(* Finished requests, and those the engine has taken on and not finished. *)
Ended(r)  == stage[r] \in {"done", "aborted"}
Active    == ToSet(active)

(***************************************************************************)
(* Sequence slots are neither lost nor handed out twice: at every moment a *)
(* slot is free, once, or held by exactly one active request, however      *)
(* preemption, completion, failure and shutdown follow on each other.      *)
(* (_free_slots.pop in _admit_locked, the appends of _preempt_locked and   *)
(* _retire.)                                                               *)
(***************************************************************************)
SlotsConserved ==
    /\ IsInjective(freeSlots)
    /\ IsInjective(active)
    /\ \A r \in Active : seqId[r] \in Slots \ ToSet(freeSlots)
    /\ \A r, q \in Active : seqId[r] = seqId[q] => r = q
    /\ \A s \in Slots : s \in ToSet(freeSlots) \/ \E r \in Active : seqId[r] = s

(***************************************************************************)
(* No accepted request is lost or in two places: it is on its way into the *)
(* queue, waiting, active, or finished, and its stage says which, so every *)
(* path that takes a request out of one list puts it into another or ends  *)
(* it.  (submit, _admit_locked, _preempt_locked, _retire, _drain.)         *)
(***************************************************************************)
RequestPlaced ==
    \A r \in Requests :
        /\ r = submitting => r \notin waiting \cup Active /\ stage[r] = "queued"
        /\ r \in waiting => r \notin Active /\ stage[r] \in {"queued", "preempted"}
        /\ r \in Active => stage[r] \in {"prefill", "decode"}
        /\ stage[r] \in {"queued", "prefill", "decode", "preempted"} =>
              r = submitting \/ r \in waiting \/ r \in Active
        /\ r > arrived => stage[r] = "new"

(* Requests between the two critical sections of submit. *)
Submissions == IF submitting = 0 THEN 0 ELSE 1

(***************************************************************************)
(* The engine holds no more than max_queue requests, although submit       *)
(* checks the bound in one critical section and appends in another, with   *)
(* the scheduler thread running in between.                                *)
(***************************************************************************)
QueueBounded == Cardinality(waiting) + Len(active) + Submissions <= MaxQueue

(***************************************************************************)
(* What the scheduler thread counts on between its critical sections: the  *)
(* request it holds is still active, each batch target is a different      *)
(* decoding request with its logits in the batch and its sampler open, and *)
(* a target that has been retired is not met again.                        *)
(***************************************************************************)
ThreadConsistent ==
    /\ Active \subseteq DOMAIN samplers
    /\ pc \in {"loop", "preempt", "failAll", "exited"} => targets = << >>
    /\ pc = "chunk" => cur \in Active /\ stage[cur] = "prefill"
    /\ pc = "retire" => /\ cur \in Active
                        /\ \A i \in DOMAIN targets : targets[i].req # cur
                        /\ reason = "error" => targets = << >>
    /\ \A i \in DOMAIN targets : /\ targets[i].req \in Active
                                 /\ targets[i].idx \in DOMAIN slots
                                 /\ stage[targets[i].req] = "decode"
    /\ \A i, j \in DOMAIN targets : targets[i].req = targets[j].req => i = j
    /\ pc = "snapshot" =>
          \A i \in DOMAIN targets :
             \E j \in DOMAIN active : j < turn /\ active[j] = targets[i].req

(***************************************************************************)
(* The KV cache of a slot holds nothing but the tokens of the request that *)
(* runs in it, each at its own position, and a free slot holds nothing: no *)
(* request ever attends to what an earlier one, or its own earlier run,    *)
(* left behind.  (The seq_rm calls of _preempt_locked, _retire,            *)
(* _admit_locked and the positions _step and _fill_prefills assign.)       *)
(***************************************************************************)
CacheOwned ==
    /\ \A s \in ToSet(freeSlots) : kv[s] = << >>
    /\ \A r \in Active : \A p \in DOMAIN kv[seqId[r]] :
          p < nComputed[r] /\ kv[seqId[r]][p] = <<r, p>>

(***************************************************************************)
(* When a token is about to be sampled for a request, the logits it is     *)
(* sampled from belong to that request's own sequence, at its last token,  *)
(* with its whole prompt and output in the cache, and the sampler knows    *)
(* exactly the output so far: a resume is exact, also for the repetition   *)
(* penalty.  (sample_targets and slot indices in _step and _fill_prefills, *)
(* restore_history in _admit_locked.)                                      *)
(***************************************************************************)
SampledInContext ==
    pc = "advance" =>
        \A i \in DOMAIN targets :
            LET r == targets[i].req
                b == slots[targets[i].idx]
            IN  /\ r \in Active
                /\ b.seq = seqId[r]
                /\ b.pos + 1 = PromptLen(r) + Len(output[r])
                /\ HoldsContext(b.seq, r, b.pos + 1)
                /\ r \in DOMAIN samplers /\ samplers[r] = output[r]

(* Tokens that the client of request r should have seen after n of them. *)
Generation(r, n) == [i \in 1..n |-> <<r, PromptLen(r) + i - 1>>]

(***************************************************************************)
(* A client's stream is a prefix of its own generation: no token is        *)
(* dropped, repeated, or sampled from a wrong context, whatever            *)
(* preemptions lie behind it; it is no longer than max_tokens, and it ends *)
(* with one SENTINEL exactly when the request has ended.                   *)
(* (scheduler.py:21, continuous.py:302, _advance and _retire.)             *)
(***************************************************************************)
StreamExact ==
    \A r \in Requests :
        /\ Len(output[r]) <= shape[r].maxTokens
        /\ queue[r] = Generation(r, Len(output[r]))
                        \o IF Ended(r) THEN <<SENTINEL>> ELSE << >>

(***************************************************************************)
(* Preemption is bounded: a request is paused at most max_preemptions      *)
(* times, which is half of the livelock argument of scheduler.py:48-51.    *)
(***************************************************************************)
PreemptionBounded == \A r \in Requests : preemptions[r] <= MaxPreemptions

(***************************************************************************)
(* The other half: once a promoted request runs, nothing takes its slot    *)
(* before it has ended.                                                    *)
(***************************************************************************)
PromotedKeepsSlot ==
    [][\A r \in promoted \cap Active : r \in Active' \/ Ended(r)']_vars

(***************************************************************************)
(* _maybe_preempt frees the slot "for a waiting request": the request that *)
(* was paused for it does not get the slot back in the same iteration,     *)
(* unless it has waited to starvation meanwhile.                           *)
(***************************************************************************)
PauseHelpsAnother ==
    [][\A r \in Requests :
         r = paused /\ ~ IsStarving(r) => ~ (r \in waiting /\ r \in Active')]_vars

(***************************************************************************)
(* Requests of equal priority are admitted in the order they arrived       *)
(* (scheduler.py:13), and urgent ones before patient ones: a request is    *)
(* admitted past one that waits only if it is more urgent, or older, or    *)
(* has starved.                                                            *)
(***************************************************************************)
ServedInOrder ==
    [][\A r \in waiting : r \in Active' =>
         \/ IsStarving(r)
         \/ \A q \in waiting : /\ ~ IsStarving(q)
                              /\ Priority(r) <= Priority(q)
                              /\ Priority(q) = Priority(r) => r <= q]_vars

(***************************************************************************)
(* The engine implements the service the API layer relies on.              *)
(***************************************************************************)
Accepted == {r \in Requests : stage[r] \notin {"new", "refused"}}

Closed   == {r \in Requests : queue[r] # << >> /\ Last(queue[r]) = SENTINEL}

Service == INSTANCE GenerationService WITH
    accepted <- Accepted,
    prompt   <- [r \in Requests |-> IF r \in Accepted THEN PromptLen(r) ELSE 0],
    stream   <- [r \in Requests |->
                   IF r \in Closed THEN Front(queue[r]) ELSE queue[r]],
    closed   <- Closed

(* Every step of the engine is a step of the service or leaves it alone. *)
ServiceSafety == Service!Spec

(* Every accepted request is answered to its end: preemption, failed
   decodes, immunity and shutdown never leave a client waiting forever. *)
EveryRequestAnswered == Service!AllAnswered
=============================================================================
