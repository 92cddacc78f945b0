----------------------------- MODULE StaticBatch -----------------------------
(***************************************************************************)
(* The static-batch engine of engine/static_batch.py: a worker thread      *)
(* (`pc') takes a batch of requests from the queue, prefills them one      *)
(* after the other, and then decodes one token of each of them per pass    *)
(* until all have ended.  The event loop submits requests and stops the    *)
(* engine.  Actions are cut where the thread takes the lock, where it      *)
(* calls the backend, and once per pass of a loop over requests.           *)
(*                                                                         *)
(* The samplers are left out: they live as long as a batch, and every      *)
(* token they accept is one that they sampled.                             *)
(***************************************************************************)
EXTENDS ModelBackend, SequencesExt

CONSTANTS
    Shapes,        \* what a client may ask for: prompt, maxTokens
    MaxSeqs, MaxQueue, NBatch, PrefillChunkSize,
    NCtx,          \* n_ctx_per_seq
    SamplingFails  \* do sampling and detokenizing raise of themselves?

ASSUME StaticAssumption ==
    /\ NumRequests \in Nat \ {0}
    /\ \A s \in Shapes : s.prompt \in Nat /\ s.maxTokens \in Nat \ {0}
    /\ MaxSeqs \in Nat \ {0} /\ SeqIds = 0..(MaxSeqs - 1)
    /\ MaxQueue \in Nat /\ NCtx \in Nat
    /\ NBatch \in Nat
    /\ PrefillChunkSize \in Int
    /\ SamplingFails \in BOOLEAN

NoSeq == -1

VARIABLES
    \* shared under _cv
    stopping, waiting, runningN,
    \* the event loop
    arrived,      \* requests created so far, which is also the last rid
    submitting,   \* rid between the two critical sections of submit, or 0
    \* the requests
    shape, stage, seqId, nComputed, output, queue,
    \* the worker thread
    pc, batch, active, still, slots, logitsIdx,
    todo,         \* requests the loop in progress has still to visit
    start         \* prompt tokens of the first of them that are prefilled

clientVars  == <<stopping, arrived, submitting>>
requestVars == <<shape, stage, seqId, nComputed, output, queue>>
threadVars  == <<pc, batch, active, still, slots, logitsIdx, todo, start>>
vars == <<backendVars, waiting, runningN, clientVars, requestVars, threadVars>>

PromptTokens(r) == [i \in 1..shape[r].prompt |-> <<r, i - 1>>]
Finished(r) == stage[r] \in {"done", "aborted"}
Put(d, k, v) == [x \in DOMAIN d \cup {k} |-> IF x = k THEN v ELSE d[x]]
-----------------------------------------------------------------------------
Init ==
    /\ kv = [s \in SeqIds |-> << >>] /\ logits = << >>
    /\ stopping = FALSE /\ waiting = << >> /\ runningN = 0
    /\ arrived = 0 /\ submitting = 0
    /\ shape = [r \in Requests |-> [prompt |-> 0, maxTokens |-> 1]]
    /\ stage = [r \in Requests |-> "new"]
    /\ seqId = [r \in Requests |-> NoSeq]
    /\ nComputed = [r \in Requests |-> 0]
    /\ output = [r \in Requests |-> << >>]
    /\ queue = [r \in Requests |-> << >>]
    /\ pc = "loop" /\ batch = << >> /\ active = << >> /\ still = << >>
    /\ slots = << >> /\ logitsIdx = << >> /\ todo = << >> /\ start = 0
-----------------------------------------------------------------------------
(* Seeded fault: the requests of the running batch are not counted. *)
QueueFullFault == Len(waiting) >= MaxQueue
QueueFull == Len(waiting) + runningN >= MaxQueue

Fits(s) == s.prompt + s.maxTokens <= NCtx

SubmitCheck ==
    /\ ~ stopping /\ submitting = 0 /\ arrived < NumRequests
    /\ arrived' = arrived + 1
    /\ \E s \in Shapes :
        /\ shape' = [shape EXCEPT ![arrived + 1] = s]
        /\ submitting' = IF ~ QueueFull /\ Fits(s) THEN arrived + 1 ELSE 0
        /\ stage' = [stage EXCEPT ![arrived + 1] =
                        IF ~ QueueFull /\ Fits(s) THEN "queued" ELSE "refused"]
    /\ UNCHANGED <<backendVars, waiting, runningN, stopping, seqId, nComputed,
                   output, queue, threadVars>>

SubmitAppend ==
    /\ submitting # 0
    /\ waiting' = Append(waiting, submitting)
    /\ submitting' = 0
    /\ UNCHANGED <<backendVars, runningN, stopping, arrived, requestVars, threadVars>>

Stop ==
    /\ ~ stopping /\ submitting = 0
    /\ stopping' = TRUE
    /\ UNCHANGED <<backendVars, waiting, runningN, arrived, submitting, requestVars,
                   threadVars>>
-----------------------------------------------------------------------------
(***************************************************************************)
(* _form_batch.  The thread waits for a request, then for stragglers: the  *)
(* lock is free meanwhile, and the wait ends when the batch is full, when  *)
(* its time is over, or when the engine stops.  A stop that comes before   *)
(* the first request was seen ends the thread, whatever is in the queue.   *)
(***************************************************************************)
Exit ==
    /\ pc = "loop" /\ stopping
    /\ pc' = "exited"
    /\ UNCHANGED <<backendVars, waiting, runningN, clientVars, requestVars, batch,
                   active, still, slots, logitsIdx, todo, start>>

FirstArrives ==
    /\ pc = "loop" /\ ~ stopping /\ waiting # << >>
    /\ pc' = "gather"
    /\ UNCHANGED <<backendVars, waiting, runningN, clientVars, requestVars, batch,
                   active, still, slots, logitsIdx, todo, start>>

BatchSize == IF Len(waiting) < MaxSeqs THEN Len(waiting) ELSE MaxSeqs
Chosen == SubSeq(waiting, 1, BatchSize)

(* The end of _form_batch and the beginning of _run_batch. *)
StartBatch ==
    /\ pc = "gather"
    /\ waiting' = SubSeq(waiting, BatchSize + 1, Len(waiting))
    /\ runningN' = runningN + BatchSize
    /\ batch' = Chosen /\ todo' = Chosen
    /\ seqId' = [r \in Requests |-> IF r \in ToSet(Chosen)
                                    THEN (CHOOSE i \in 1..BatchSize : Chosen[i] = r) - 1
                                    ELSE seqId[r]]
    /\ stage' = [r \in Requests |-> IF r \in ToSet(Chosen) THEN "prefill" ELSE stage[r]]
    /\ kv' = Emptied(kv, 0..(BatchSize - 1))
    /\ pc' = "prefill"
    /\ UNCHANGED <<logits, clientVars, shape, nComputed, output, queue, active,
                   still, slots, logitsIdx, start>>
-----------------------------------------------------------------------------
(***************************************************************************)
(* _run_batch: the prompts, one request after the other, in chunks.        *)
(***************************************************************************)
ChunkSize ==
    LET n == IF PrefillChunkSize < NBatch THEN PrefillChunkSize ELSE NBatch
    IN  IF n < 1 THEN 1 ELSE n

PartEnd(r) ==
    IF start + ChunkSize < shape[r].prompt THEN start + ChunkSize ELSE shape[r].prompt

(* Seeded fault: the last token but one wants logits. *)
PartFault(r) ==
    [i \in 1..(PartEnd(r) - start) |->
        TokenSlot(seqId[r], PromptTokens(r)[start + i], start + i - 1,
                  start + i = shape[r].prompt - 1)]

(* The slots of the next chunk; only the last prompt token wants logits. *)
Part(r) ==
    [i \in 1..(PartEnd(r) - start) |->
        TokenSlot(seqId[r], PromptTokens(r)[start + i], start + i - 1,
                  start + i = shape[r].prompt)]

PrefillChunk ==
    /\ pc = "prefill" /\ todo # << >>
    /\ LET r == Head(todo) IN
        /\ start < shape[r].prompt
        /\ Decode(Part(r))
        /\ logitsIdx' = Put(logitsIdx, r, PartEnd(r) - start)
        /\ start' = PartEnd(r)
    /\ UNCHANGED <<waiting, runningN, clientVars, requestVars, pc, batch, active,
                   still, slots, todo>>

PrefillEnd ==
    /\ pc = "prefill" /\ todo # << >>
    /\ LET r == Head(todo) IN
        /\ start >= shape[r].prompt
        /\ nComputed' = [nComputed EXCEPT ![r] = shape[r].prompt]
        /\ stage' = [stage EXCEPT ![r] = "decode"]
    /\ todo' = Tail(todo) /\ start' = 0
    /\ UNCHANGED <<backendVars, waiting, runningN, clientVars, shape, seqId, output,
                   queue, pc, batch, active, still, slots, logitsIdx>>

PrefillDone ==
    /\ pc = "prefill" /\ todo = << >>
    /\ active' = batch /\ todo' = batch
    /\ pc' = "sample"
    /\ UNCHANGED <<backendVars, waiting, runningN, clientVars, requestVars, batch,
                   still, slots, logitsIdx, start>>
-----------------------------------------------------------------------------
(***************************************************************************)
(* The joint decode loop: sample each active request, release those that   *)
(* have ended, decode one token of each of the others.                     *)
(***************************************************************************)
Sampling(r) ==
    /\ pc = "sample" /\ todo # << >> /\ r = Head(todo)
    /\ todo' = Tail(todo)

HasLogits(r) == r \in DOMAIN logitsIdx /\ logitsIdx[r] \in DOMAIN logits

SampleEos(r) ==
    /\ Sampling(r) /\ HasLogits(r)
    /\ stage' = [stage EXCEPT ![r] = "done"]
    /\ UNCHANGED <<backendVars, waiting, runningN, clientVars, shape, seqId,
                   nComputed, output, queue, pc, batch, active, still, slots,
                   logitsIdx, start>>

(* A token is streamed; a stop string in the text or the limit ends the
   request, or the token goes into the next decode. *)
SampleToken(r) ==
    /\ Sampling(r) /\ HasLogits(r)
    /\ LET tok == logits[logitsIdx[r]].tok IN
        /\ output' = [output EXCEPT ![r] = Append(@, tok)]
        /\ queue' = [queue EXCEPT ![r] = Append(@, tok)]
        /\ \/ /\ stage' = [stage EXCEPT ![r] = "done"]
              /\ UNCHANGED <<slots, still, nComputed>>
           \/ /\ Len(output'[r]) < shape[r].maxTokens
              /\ slots' = Append(slots, TokenSlot(seqId[r], tok, nComputed[r], TRUE))
              /\ nComputed' = [nComputed EXCEPT ![r] = @ + 1]
              /\ still' = Append(still, r)
              /\ UNCHANGED stage
    /\ UNCHANGED <<backendVars, waiting, runningN, clientVars, shape, seqId, pc,
                   batch, active, logitsIdx, start>>

SampleDone ==
    /\ pc = "sample" /\ todo = << >>
    /\ pc' = "release" /\ todo' = active
    /\ UNCHANGED <<backendVars, waiting, runningN, clientVars, requestVars, batch,
                   active, still, slots, logitsIdx, start>>

(* _release(r) *)
Released(r) ==
    /\ runningN' = runningN - 1
    /\ queue' = [queue EXCEPT ![r] = Append(@, SENTINEL)]

ReleaseNext ==
    /\ pc = "release" /\ todo # << >>
    /\ IF Finished(Head(todo)) THEN Released(Head(todo)) ELSE UNCHANGED <<runningN, queue>>
    /\ todo' = Tail(todo)
    /\ UNCHANGED <<backendVars, waiting, clientVars, shape, stage, seqId, nComputed,
                   output, pc, batch, active, still, slots, logitsIdx, start>>

(* The `finally' block, at the end of the batch or after an exception. *)
LeaveBatch == pc' = "cleanup" /\ todo' = batch

BatchEnds ==
    /\ pc = "release" /\ todo = << >> /\ slots = << >>
    /\ LeaveBatch
    /\ UNCHANGED <<backendVars, waiting, runningN, clientVars, requestVars, batch,
                   active, still, slots, logitsIdx, start>>

(* Seeded fault: the indices are those of the pass before. *)
NextIdxFault == logitsIdx
NextIdx == [r \in DOMAIN logitsIdx \cup ToSet(still) |->
               IF r \in ToSet(still) THEN CHOOSE i \in DOMAIN still : still[i] = r
               ELSE logitsIdx[r]]

JointDecode ==
    /\ pc = "release" /\ todo = << >> /\ slots # << >>
    /\ Decode(slots)
    /\ logitsIdx' = NextIdx
    /\ active' = still /\ todo' = still
    /\ still' = << >> /\ slots' = << >>
    /\ pc' = "sample"
    /\ UNCHANGED <<waiting, runningN, clientVars, requestVars, batch, start>>

DecodeFails ==
    /\ \/ pc = "prefill" /\ todo # << >> /\ start < shape[Head(todo)].prompt
       \/ pc = "release" /\ todo = << >> /\ slots # << >>
    /\ LeaveBatch
    /\ UNCHANGED <<backendVars, waiting, runningN, clientVars, requestVars, batch,
                   active, still, slots, logitsIdx, start>>

(* No logits were computed where the sampler looks for them, or it raises. *)
SampleFails ==
    /\ pc = "sample" /\ todo # << >>
    /\ SamplingFails \/ ~ HasLogits(Head(todo))
    /\ LeaveBatch
    /\ UNCHANGED <<backendVars, waiting, runningN, clientVars, requestVars, batch,
                   active, still, slots, logitsIdx, start>>

(* Seeded faults: what has ended is released again; nothing is. *)
UnreleasedFaultAll(r) == TRUE
UnreleasedFaultNone(r) == FALSE
Unreleased(r) == ~ Finished(r)

CleanUp ==
    /\ pc = "cleanup" /\ todo # << >>
    /\ LET r == Head(todo) IN
        /\ kv' = Emptied(kv, {seqId[r]})
        /\ IF Unreleased(r) THEN stage' = [stage EXCEPT ![r] = "aborted"] /\ Released(r)
           ELSE UNCHANGED <<stage, runningN, queue>>
    /\ todo' = Tail(todo)
    /\ UNCHANGED <<logits, waiting, clientVars, shape, seqId, nComputed, output, pc,
                   batch, active, still, slots, logitsIdx, start>>

(* _run_batch returns; its local variables end.  Whatever was raised has no
   unfinished request left to report to. *)
BatchDone ==
    /\ pc = "cleanup" /\ todo = << >>
    /\ pc' = "loop"
    /\ batch' = << >> /\ active' = << >> /\ still' = << >> /\ slots' = << >>
    /\ logitsIdx' = << >> /\ start' = 0
    /\ UNCHANGED <<backendVars, waiting, runningN, clientVars, requestVars, todo>>
-----------------------------------------------------------------------------
Environment == SubmitCheck \/ SubmitAppend \/ Stop

Thread ==
    \/ Exit \/ FirstArrives \/ StartBatch \/ PrefillChunk \/ PrefillEnd
    \/ PrefillDone \/ SampleDone \/ ReleaseNext \/ BatchEnds \/ JointDecode
    \/ DecodeFails \/ SampleFails \/ CleanUp \/ BatchDone
    \/ \E r \in Requests : SampleEos(r) \/ SampleToken(r)

Next == Environment \/ Thread

Spec == Init /\ [][Next]_vars

(* The thread never waits for ever: for the first request it wakes when one
   is submitted, for stragglers it waits static_batch_wait_s at most. *)
FairSpec == Spec /\ WF_vars(Thread) /\ WF_vars(SubmitAppend)
=============================================================================
