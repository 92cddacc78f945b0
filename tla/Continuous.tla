----------------------------- MODULE Continuous -----------------------------
(***************************************************************************)
(* The continuous-batching engine of engine/continuous.py: one scheduler   *)
(* thread (`pc') that builds, decodes and samples one batch per iteration, *)
(* and the event loop, which submits requests and stops the engine.  They  *)
(* share the request queue under one lock.  The thread's code is cut into  *)
(* actions where it takes that lock, where it calls the backend, and once  *)
(* per pass of its loops; everything between is private to the thread.     *)
(*                                                                         *)
(* Data.  A token is <<r, n>>, the n-th token of request r counted from    *)
(* its first prompt token; the model is a function of the context it       *)
(* attends to, so it produces <<r, n>> exactly when the cache of the slot  *)
(* holds tokens 0..n-1 of r at positions 0..n-1, and Garbage otherwise.    *)
(* The prefix cache is modelled by what it promises (OnAdmit).             *)
(***************************************************************************)
EXTENDS Scheduler, SequencesExt

CONSTANTS
    MaxSeqs,       \* number of KV sequence slots for running requests
    MaxQueue,      \* max_queue: bound on waiting + active requests
    NBatch,        \* backend.n_batch: tokens in one decode call
    PrefillChunkSize,  \* prefill_chunk: prompt tokens of one request in a batch
    NCtx,          \* n_ctx_per_seq: positions in one sequence slot
    BlockSize,     \* cached prefixes are whole blocks of this many tokens
    PrefixCache    \* enable_prefix_cache

Slots == 0..(MaxSeqs - 1)

ASSUME ContinuousAssumption ==
    /\ MaxSeqs \in Nat \ {0}
    /\ MaxQueue \in Nat
    /\ NBatch \in Nat \ {0}
    /\ PrefillChunkSize \in Nat \ {0}
    /\ NCtx \in Nat
    /\ BlockSize \in Nat \ {0}
    /\ PrefixCache \in BOOLEAN

NoSeq    == -1
Garbage  == <<0, 0>>
SENTINEL == <<0, 1>>
Tokens   == (Requests \X Nat) \cup {Garbage}

VARIABLES
    \* shared under the engine's lock
    stopping,    \* _stop
    waiting,     \* _waiting; a set: no code depends on the order of the deque
    active,      \* _active
    freeSlots,   \* _free_slots
    \* the event loop
    arrived,     \* requests created so far, which is also the last rid
    submitting,  \* rid between the two critical sections of submit, or 0
    queue,       \* [Requests -> Seq(Tokens \cup {SENTINEL})], Request.queue
    \* fields of the requests
    seqId, nComputed, prefillSrc, output,
    \* dictionaries of the engine, by rid
    samplers,    \* open samplers, each with the token history it holds
    pending,     \* _pending_token
    \* the backend
    kv,          \* per slot, the token cached at each position
    \* the scheduler thread
    pc, budget, slots, targets,
    turn,        \* position in active that the decode pass has come to, or 0
    cur,         \* the request being prefilled or retired, or 0
    reason,      \* why it is retired
    paused       \* history: the request paused in this iteration, or 0

requestVars == <<seqId, nComputed, prefillSrc, output>>
dictVars    == <<samplers, pending>>
batchVars   == <<budget, slots, targets, turn>>
threadVars  == <<pc, batchVars, cur, reason, paused>>
clientVars  == <<stopping, arrived, submitting>>

vars == <<schedulerVars, stopping, waiting, active, freeSlots, arrived,
          submitting, queue, requestVars, dictVars, kv, threadVars>>
-----------------------------------------------------------------------------
Put(d, k, v) == [x \in DOMAIN d \cup {k} |-> IF x = k THEN v ELSE d[x]]
Pop(d, k)    == [x \in DOMAIN d \ {k} |-> d[x]]
Smaller(a, b) == IF a <= b THEN a ELSE b

PromptLen(r)    == shape[r].prompt
PromptTokens(r) == [i \in 1..PromptLen(r) |-> <<r, i - 1>>]

(* Seeded fault: a resumed request gets back its prompt only. *)
ResumeTokensFault(r) == PromptTokens(r)
ResumeTokens(r) == PromptTokens(r) \o output[r]

(* Seeded fault: the request stays in the list. *)
WithoutActiveFault(r) == active

(* active.remove(r) *)
WithoutActive(r) == RemoveFirst(active, r)

(* The first active request that is still prefilling, if there is one. *)
Prefilling == {i \in DOMAIN active : stage[active[i]] = "prefill"}
IsFirstPrefilling(r) == \E i \in Prefilling : /\ r = active[i]
                                              /\ \A j \in Prefilling : i <= j

(* Does slot s hold tokens 0..n-1 of request r at positions 0..n-1? *)
HoldsContext(s, r, n) ==
    \A p \in 0..(n - 1) : p \in DOMAIN kv[s] /\ kv[s][p] = <<r, p>>

(* The token sampled from the logits of batch slot b: the model continues
   the context that the cache of the sequence holds up to that position. *)
Sample(b) ==
    IF \E r \in Requests : HoldsContext(b.seq, r, b.pos + 1)
    THEN <<CHOOSE r \in Requests : HoldsContext(b.seq, r, b.pos + 1), b.pos + 1>>
    ELSE Garbage

(* backend.decode writes each batch slot into its sequence and position. *)
Written(s) == {i \in DOMAIN slots : slots[i].seq = s}
AfterDecode ==
    [s \in Slots |->
        [p \in DOMAIN kv[s] \cup {slots[i].pos : i \in Written(s)} |->
            IF \E i \in Written(s) : slots[i].pos = p
            THEN slots[CHOOSE i \in Written(s) : slots[i].pos = p].tok
            ELSE kv[s][p]]]

(* seq_rm(s, -1, -1), and a seeded fault that forgets it. *)
EmptiedFault(cache, s) == cache
Emptied(cache, s) == [cache EXCEPT ![s] = << >>]
-----------------------------------------------------------------------------
NoShape == CHOOSE s \in Shapes : TRUE

Init ==
    /\ shape = [r \in Requests |-> NoShape]
    /\ stage = [r \in Requests |-> "new"]
    /\ age = [r \in Requests |-> 0]
    /\ firstScheduled = [r \in Requests |-> 0]
    /\ preemptions = [r \in Requests |-> 0]
    /\ promoted = {}
    /\ stopping = FALSE
    /\ waiting = {}
    /\ active = << >>
    /\ freeSlots = [i \in 1..MaxSeqs |-> i - 1]
    /\ arrived = 0
    /\ submitting = 0
    /\ queue = [r \in Requests |-> << >>]
    /\ seqId = [r \in Requests |-> NoSeq]
    /\ nComputed = [r \in Requests |-> 0]
    /\ prefillSrc = [r \in Requests |-> << >>]
    /\ output = [r \in Requests |-> << >>]
    /\ samplers = << >>
    /\ pending = << >>
    /\ kv = [s \in Slots |-> << >>]
    /\ pc = "loop"
    /\ budget = 0
    /\ slots = << >>
    /\ targets = << >>
    /\ turn = 0
    /\ cur = 0
    /\ reason = "none"
    /\ paused = 0
-----------------------------------------------------------------------------
(***************************************************************************)
(* The event loop.  submit() runs there and nowhere else, so one request   *)
(* at a time is between its two critical sections; the scheduler thread    *)
(* may run in between.  The server stops the engine after it has stopped   *)
(* taking requests.                                                        *)
(***************************************************************************)
(* Seeded fault: running requests are not counted. *)
QueueFullFault == Cardinality(waiting) >= MaxQueue
QueueFull == Cardinality(waiting) + Len(active) >= MaxQueue

(* A client's request reaches submit() and passes, or fails, the queue
   check and the context check.  "refused" stands for the exception. *)
SubmitCheck ==
    /\ ~ stopping /\ submitting = 0 /\ arrived < NumRequests
    /\ arrived' = arrived + 1
    /\ \E s \in Shapes :
         LET accepted == ~ QueueFull /\ s.prompt + s.maxTokens <= NCtx
         IN  /\ shape' = [shape EXCEPT ![arrived + 1] = s]
             /\ submitting' = IF accepted THEN arrived + 1 ELSE 0
             /\ stage' = [stage EXCEPT ![arrived + 1] =
                             IF accepted THEN "queued" ELSE "refused"]
    /\ UNCHANGED <<age, firstScheduled, preemptions, promoted, stopping, waiting,
                   active, freeSlots, queue, requestVars, dictVars, kv, threadVars>>

SubmitAppend ==
    /\ submitting # 0
    /\ waiting' = waiting \cup {submitting}
    /\ submitting' = 0
    /\ UNCHANGED <<schedulerVars, stopping, active, freeSlots, arrived, queue,
                   requestVars, dictVars, kv, threadVars>>

Stop ==
    /\ ~ stopping /\ submitting = 0
    /\ stopping' = TRUE
    /\ UNCHANGED <<schedulerVars, waiting, active, freeSlots, arrived, submitting,
                   queue, requestVars, dictVars, kv, threadVars>>

(* Time passes for the requests that wait. *)
Aging == {r \in waiting \cup ({submitting} \ {0}) : age[r] < StarvationAge}

Tick ==
    /\ Aging # {}
    /\ age' = [r \in Requests |-> IF r \in Aging THEN age[r] + 1 ELSE age[r]]
    /\ UNCHANGED <<shape, stage, firstScheduled, preemptions, promoted, stopping,
                   waiting, active, freeSlots, arrived, submitting, queue,
                   requestVars, dictVars, kv, threadVars>>
-----------------------------------------------------------------------------
(* The local variables of an iteration end with it, or with an exception. *)
LeaveStep(next) ==
    /\ pc' = next
    /\ slots' = << >> /\ targets' = << >> /\ budget' = 0 /\ turn' = 0
    /\ cur' = 0 /\ reason' = "none" /\ paused' = 0

(***************************************************************************)
(* _run and _step.  Each pass of the outer loop takes the lock, and either *)
(* waits, drains the engine for good, or starts an iteration.              *)
(***************************************************************************)
StartStep ==
    /\ pc = "loop" /\ ~ stopping
    /\ waiting # {} \/ active # << >>
    /\ pc' = "preempt"
    /\ budget' = NBatch
    /\ UNCHANGED <<schedulerVars, clientVars, waiting, active, freeSlots, queue,
                   requestVars, dictVars, kv, slots, targets, turn, cur, reason,
                   paused>>

Crowded == freeSlots = << >> /\ waiting # {}

(* _maybe_preempt where it finds nobody to pause; the pick may still
   promote a starving request. *)
NoPreemption ==
    /\ pc = "preempt"
    /\ \/ /\ ~ Crowded
          /\ UNCHANGED promoted
       \/ /\ Crowded
          /\ Victim(ToSet(active), Pick(waiting)) = {}
          /\ promoted' = PromotedByPick(waiting)
    /\ pc' = "snapshot" /\ turn' = 1
    /\ UNCHANGED <<shape, stage, age, firstScheduled, preemptions, clientVars,
                   waiting, active, freeSlots, queue, requestVars, dictVars, kv,
                   budget, slots, targets, cur, reason, paused>>

(* _maybe_preempt with _preempt_locked: request r gives up its slot. *)
Preempt(r) ==
    /\ pc = "preempt" /\ Crowded
    /\ r \in Victim(ToSet(active), Pick(waiting))
    /\ promoted' = PromotedByPick(waiting)
    /\ active' = WithoutActive(r)
    /\ stage' = [stage EXCEPT ![r] = "preempted"]
    /\ kv' = Emptied(kv, seqId[r])
    /\ freeSlots' = Append(freeSlots, seqId[r])
    /\ seqId' = [seqId EXCEPT ![r] = NoSeq]
    /\ nComputed' = [nComputed EXCEPT ![r] = 0]
    /\ prefillSrc' = [prefillSrc EXCEPT ![r] = << >>]
    /\ preemptions' = [preemptions EXCEPT ![r] = @ + 1]
    /\ age' = [age EXCEPT ![r] = 0]
    /\ samplers' = Pop(samplers, r)
    /\ pending' = Pop(pending, r)
    /\ waiting' = waiting \cup {r}
    /\ paused' = r
    /\ pc' = "snapshot" /\ turn' = 1
    /\ UNCHANGED <<shape, firstScheduled, clientVars, queue, output, budget, slots,
                   targets, cur, reason>>

(* The decode slots of the batch: one pass for each active request, in the
   order of the list, which nobody else changes meanwhile. *)
Visiting(r) == pc = "snapshot" /\ turn \in DOMAIN active /\ r = active[turn]

SkipPrefilling(r) ==
    /\ Visiting(r) /\ stage[r] # "decode"
    /\ turn' = turn + 1
    /\ UNCHANGED <<schedulerVars, clientVars, waiting, active, freeSlots, queue,
                   requestVars, dictVars, kv, pc, budget, slots, targets, cur,
                   reason, paused>>

AddDecodeSlot(r) ==
    /\ Visiting(r) /\ stage[r] = "decode" /\ budget > 0
    /\ r \in DOMAIN pending
    /\ slots' = Append(slots,
                   [seq |-> seqId[r], tok |-> pending[r], pos |-> nComputed[r]])
    /\ targets' = Append(targets, [req |-> r, idx |-> Len(slots) + 1])
    /\ nComputed' = [nComputed EXCEPT ![r] = @ + 1]
    /\ budget' = budget - 1
    /\ turn' = turn + 1
    /\ UNCHANGED <<schedulerVars, clientVars, waiting, active, freeSlots, queue,
                   seqId, prefillSrc, output, dictVars, kv, pc, cur, reason, paused>>

(* _pending_token[rid] raises a KeyError. *)
MissingToken(r) ==
    /\ Visiting(r) /\ stage[r] = "decode" /\ budget > 0
    /\ r \notin DOMAIN pending
    /\ LeaveStep("failAll")
    /\ UNCHANGED <<schedulerVars, clientVars, waiting, active, freeSlots, queue,
                   requestVars, dictVars, kv>>

SnapshotDone ==
    /\ pc = "snapshot"
    /\ turn \notin DOMAIN active \/ budget = 0
    /\ pc' = "fill" /\ turn' = 0
    /\ UNCHANGED <<schedulerVars, clientVars, waiting, active, freeSlots, queue,
                   requestVars, dictVars, kv, budget, slots, targets, cur, reason,
                   paused>>
-----------------------------------------------------------------------------
(***************************************************************************)
(* _fill_prefills: spend the rest of the budget on prompt tokens.  Each    *)
(* pass takes the lock to find a request (FillDone, ContinuePrefill,       *)
(* Admit) and then adds a chunk of it to the batch (PrefillChunk).         *)
(***************************************************************************)
Admissible == waiting # {} /\ freeSlots # << >>

(* No budget or no request is left; _step returns early from an empty batch. *)
FillDone ==
    /\ pc = "fill"
    /\ budget = 0 \/ (Prefilling = {} /\ ~ Admissible)
    /\ IF slots = << >> THEN LeaveStep("loop")
       ELSE pc' = "decode" /\ UNCHANGED <<batchVars, cur, reason, paused>>
    /\ UNCHANGED <<schedulerVars, clientVars, waiting, active, freeSlots, queue,
                   requestVars, dictVars, kv>>

ContinuePrefill(r) ==
    /\ pc = "fill" /\ budget > 0 /\ IsFirstPrefilling(r)
    /\ cur' = r
    /\ pc' = "chunk"
    /\ UNCHANGED <<schedulerVars, clientVars, waiting, active, freeSlots, queue,
                   requestVars, dictVars, kv, batchVars, reason, paused>>

(* on_admit of the prefix cache, by its contract: some whole blocks, short
   of all the tokens, of exactly what the request needs, or nothing. *)
OnAdmit(src) ==
    {0} \cup {n \in 1..(Len(src) - 1) : PrefixCache /\ n % BlockSize = 0}

(* What on_admit leaves in the slot, and a seeded off-by-one. *)
CachedPrefixFault(r, n) == [p \in 0..(n - 2) |-> ResumeTokens(r)[p + 1]]
CachedPrefix(r, n) == [p \in 0..(n - 1) |-> ResumeTokens(r)[p + 1]]

(* restore_history: the new sampler is told the output so far; seeded fault:
   it starts blank. *)
RestoredHistoryFault(r) == << >>
RestoredHistory(r) == output[r]

(* _admit_locked: the picked request moves into the first free slot. *)
Admit(r) ==
    /\ pc = "fill" /\ budget > 0 /\ Prefilling = {}
    /\ Admissible /\ r = Pick(waiting)
    /\ promoted' = PromotedByPick(waiting)
    /\ waiting' = waiting \ {r}
    /\ seqId' = [seqId EXCEPT ![r] = Head(freeSlots)]
    /\ freeSlots' = Tail(freeSlots)
    /\ stage' = [stage EXCEPT ![r] = "prefill"]
    /\ firstScheduled' = [firstScheduled EXCEPT ![r] =
           IF @ = 0 THEN 1 + Cardinality({q \in Requests : firstScheduled[q] # 0})
           ELSE @]
    /\ prefillSrc' = [prefillSrc EXCEPT ![r] = ResumeTokens(r)]
    /\ \E n \in OnAdmit(ResumeTokens(r)) :
         /\ nComputed' = [nComputed EXCEPT ![r] = n]
         /\ kv' = [kv EXCEPT ![Head(freeSlots)] = CachedPrefix(r, n)]
    /\ samplers' = Put(samplers, r, RestoredHistory(r))
    /\ active' = Append(active, r)
    /\ cur' = r
    /\ pc' = "chunk"
    /\ UNCHANGED <<shape, age, preemptions, clientVars, queue, output, pending,
                   batchVars, reason, paused>>

(* How many tokens of r join the batch, and a seeded fault that forgets what
   is left of the budget. *)
TakeFault(r) == Smaller(PrefillChunkSize, Len(prefillSrc[r]) - nComputed[r])
Take(r) == Smaller(Smaller(budget, PrefillChunkSize),
                   Len(prefillSrc[r]) - nComputed[r])

(* The batch slots of the next chunk of r. *)
Chunk(r) == [i \in 1..Take(r) |-> [seq |-> seqId[r],
                                   tok |-> prefillSrc[r][nComputed[r] + i],
                                   pos |-> nComputed[r] + i - 1]]

(* A chunk of the prompt of cur joins the batch; with its last token cur
   starts decoding.  A request with nothing to prefill skips to decoding. *)
PrefillChunk ==
    /\ pc = "chunk"
    /\ pc' = "fill" /\ cur' = 0
    /\ LET take  == Take(cur)
           final == nComputed[cur] + take = Len(prefillSrc[cur])
       IN  /\ stage' = [stage EXCEPT ![cur] = IF final THEN "decode" ELSE @]
           /\ IF take <= 0 THEN UNCHANGED <<slots, targets, budget, nComputed>>
              ELSE /\ slots' = slots \o Chunk(cur)
                   /\ nComputed' = [nComputed EXCEPT ![cur] = @ + take]
                   /\ budget' = budget - take
                   /\ targets' = IF final
                         THEN Append(targets, [req |-> cur, idx |-> Len(slots) + take])
                         ELSE targets
    /\ UNCHANGED <<shape, age, firstScheduled, preemptions, promoted, clientVars,
                   waiting, active, freeSlots, queue, seqId, prefillSrc, output,
                   dictVars, kv, turn, reason, paused>>
-----------------------------------------------------------------------------
(***************************************************************************)
(* The decode call, and _advance for each request that produced logits.    *)
(***************************************************************************)
Decode ==
    /\ pc = "decode"
    /\ kv' = AfterDecode
    /\ pc' = "advance"
    /\ UNCHANGED <<schedulerVars, clientVars, waiting, active, freeSlots, queue,
                   requestVars, dictVars, batchVars, cur, reason, paused>>

(* The backend raises, before or after it has written the cells. *)
DecodeFails ==
    /\ pc = "decode"
    /\ kv' \in {kv, AfterDecode}
    /\ LeaveStep("failAll")
    /\ UNCHANGED <<schedulerVars, clientVars, waiting, active, freeSlots, queue,
                   requestVars, dictVars>>

(* Every target has advanced: the iteration is over. *)
StepDone ==
    /\ pc = "advance" /\ targets = << >>
    /\ LeaveStep("loop")
    /\ UNCHANGED <<schedulerVars, clientVars, waiting, active, freeSlots, queue,
                   requestVars, dictVars, kv>>

(* The sampled token ends the generation; it is not part of the output. *)
AdvanceEos ==
    /\ pc = "advance" /\ targets # << >>
    /\ cur' = Head(targets).req /\ targets' = Tail(targets)
    /\ reason' = "eos" /\ pc' = "retire"
    /\ UNCHANGED <<schedulerVars, clientVars, waiting, active, freeSlots, queue,
                   requestVars, dictVars, kv, budget, slots, turn, paused>>

(* Why _advance ends request r once it has n output tokens, if it does. *)
EndReason(r, n, stopHit) ==
    IF stopHit THEN "stop"
    ELSE IF n >= shape[r].maxTokens \/ nComputed[r] >= NCtx THEN "length"
    ELSE "none"

(* The sampled token is accepted and streamed; a stop string may show up in
   the text, or a limit is met, or it is the next token to decode. *)
AdvanceToken ==
    /\ pc = "advance" /\ targets # << >>
    /\ LET r   == Head(targets).req
           tok == Sample(slots[Head(targets).idx])
       IN  /\ samplers' = Put(samplers, r, Append(samplers[r], tok))
           /\ output' = [output EXCEPT ![r] = Append(@, tok)]
           /\ queue' = [queue EXCEPT ![r] = Append(@, tok)]
           /\ \E stopHit \in BOOLEAN :
                reason' = EndReason(r, Len(output[r]) + 1, stopHit)
           /\ IF reason' = "none"
              THEN pending' = Put(pending, r, tok) /\ pc' = "advance" /\ cur' = 0
              ELSE UNCHANGED pending /\ pc' = "retire" /\ cur' = r
    /\ targets' = Tail(targets)
    /\ UNCHANGED <<schedulerVars, clientVars, waiting, active, freeSlots, seqId,
                   nComputed, prefillSrc, kv, budget, slots, turn, paused>>

(* Sampling or detokenizing raises in the middle of the targets. *)
AdvanceFails ==
    /\ pc = "advance" /\ targets # << >>
    /\ LeaveStep("failAll")
    /\ UNCHANGED <<schedulerVars, clientVars, waiting, active, freeSlots, queue,
                   requestVars, dictVars, kv>>
-----------------------------------------------------------------------------
(* finish: the stage a request ends in. *)
FinalStage(why) == IF why \in {"abort", "error"} THEN "aborted" ELSE "done"

(* _retire, from finish() to the closing of the stream. *)
Retire ==
    /\ pc = "retire"
    /\ stage' = [stage EXCEPT ![cur] = FinalStage(reason)]
    /\ active' = WithoutActive(cur)
    /\ kv' = Emptied(kv, seqId[cur])
    /\ freeSlots' = Append(freeSlots, seqId[cur])
    /\ samplers' = Pop(samplers, cur)
    /\ pending' = Pop(pending, cur)
    /\ promoted' = promoted \ {cur}
    /\ queue' = [queue EXCEPT ![cur] = Append(@, SENTINEL)]
    /\ pc' = IF reason = "error" THEN "failAll" ELSE "advance"
    /\ cur' = 0 /\ reason' = "none"
    /\ UNCHANGED <<shape, age, firstScheduled, preemptions, clientVars, waiting,
                   requestVars, batchVars, paused>>

(* _fail_all: the active requests are retired with an error, in turn. *)
FailNext ==
    /\ pc = "failAll" /\ active # << >>
    /\ cur' = Head(active) /\ reason' = "error" /\ pc' = "retire"
    /\ UNCHANGED <<schedulerVars, clientVars, waiting, active, freeSlots, queue,
                   requestVars, dictVars, kv, batchVars, paused>>

FailDone ==
    /\ pc = "failAll" /\ active = << >>
    /\ pc' = "loop"
    /\ UNCHANGED <<schedulerVars, clientVars, waiting, active, freeSlots, queue,
                   requestVars, dictVars, kv, batchVars, cur, reason, paused>>

(* The requests _drain aborts; seeded fault: the queue is forgotten. *)
DrainVictimsFault == ToSet(active)
DrainVictims == ToSet(active) \cup waiting

(* _drain, with the lock held: everything in the engine is aborted, and the
   thread ends.  A request that waits owns no slot; only the scheduler's
   record of its promotion is left behind. *)
Drain ==
    /\ pc = "loop" /\ stopping
    /\ LET running == ToSet(active) IN
        /\ stage' = [r \in Requests |->
              IF r \in DrainVictims THEN "aborted" ELSE stage[r]]
        /\ queue' = [r \in Requests |->
              IF r \in DrainVictims THEN Append(queue[r], SENTINEL)
              ELSE queue[r]]
        /\ kv' = [s \in Slots |->
              IF \E r \in running : seqId[r] = s THEN << >> ELSE kv[s]]
        /\ samplers' = [r \in DOMAIN samplers \ running |-> samplers[r]]
        /\ pending' = [r \in DOMAIN pending \ running |-> pending[r]]
        /\ promoted' = promoted \ running
    /\ freeSlots' = freeSlots \o [i \in DOMAIN active |-> seqId[active[i]]]
    /\ active' = << >> /\ waiting' = {}
    /\ pc' = "exited"
    /\ UNCHANGED <<shape, age, firstScheduled, preemptions, clientVars,
                   requestVars, batchVars, cur, reason, paused>>
-----------------------------------------------------------------------------
Environment == SubmitCheck \/ SubmitAppend \/ Stop \/ Tick

Thread ==
    \/ StartStep \/ NoPreemption \/ SnapshotDone \/ FillDone \/ PrefillChunk
    \/ Decode \/ DecodeFails \/ StepDone \/ AdvanceEos \/ AdvanceToken \/ AdvanceFails
    \/ Retire \/ FailNext \/ FailDone \/ Drain
    \/ \E r \in Requests : \/ Preempt(r) \/ Admit(r) \/ ContinuePrefill(r)
                          \/ SkipPrefilling(r) \/ AddDecodeSlot(r) \/ MissingToken(r)

Next == Environment \/ Thread

Spec == Init /\ [][Next]_vars

(* The scheduler thread runs whenever it has something to do: it waits on
   the condition for half a second at most, and the lock is never held for
   long.  A submission that has begun is completed: submit() does not await.
   Clients and the clock owe nothing. *)
FairSpec == Spec /\ WF_vars(Thread) /\ WF_vars(SubmitAppend)
=============================================================================
