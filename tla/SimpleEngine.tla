----------------------------- MODULE SimpleEngine -----------------------------
(***************************************************************************)
(* The simple engine of engine/simple.py.  submit() and the generator that *)
(* stream() returns run on the event loop; the generator takes its turn at *)
(* a semaphore, `line', and then has _run_blocking generate in a thread of *)
(* the executor (`worker').  All generations use sequence 0.               *)
(*                                                                         *)
(* A client that goes away has its generator closed, which leaves the      *)
(* semaphore and does not wait for the thread.                             *)
(***************************************************************************)
EXTENDS ModelBackend, SequencesExt

CONSTANTS
    Shapes,        \* what a client may ask for: prompt, maxTokens
    MaxQueue, NBatch, PrefillChunkSize,
    NCtx,          \* n_ctx_per_seq, or n_ctx
    MaxGone        \* bound: how many clients go away

ASSUME SimpleAssumption ==
    /\ NumRequests \in Nat \ {0}
    /\ \A s \in Shapes : s.prompt \in Nat /\ s.maxTokens \in Nat \ {0}
    /\ SeqIds = {0}
    /\ MaxQueue \in Nat /\ NCtx \in Nat /\ NBatch \in Nat
    /\ PrefillChunkSize \in Int
    /\ MaxGone \in Nat

VARIABLES
    \* the event loop
    arrived,      \* requests created so far, which is also the last rid
    pendingN,     \* _pending
    line,         \* who holds _gate, and who waits for it, in order
    client,       \* what has become of the generator of a request
    \* the requests
    shape, stage, output, queue,
    \* the generating threads
    worker,       \* where the thread of a request is
    pos,          \* positions it has decoded
    logitsIndex   \* its logits_index; 0 while it is unbound

vars == <<backendVars, arrived, pendingN, line, client, shape, stage, output,
          queue, worker, pos, logitsIndex>>
requestVars == <<stage, output, queue>>
threadVars  == <<worker, pos, logitsIndex>>
loopVars    == <<arrived, pendingN, line, client, shape>>

PromptTokens(r) == [i \in 1..shape[r].prompt |-> <<r, i - 1>>]
-----------------------------------------------------------------------------
Init ==
    /\ kv = [s \in SeqIds |-> << >>] /\ logits = << >>
    /\ arrived = 0 /\ pendingN = 0 /\ line = << >>
    /\ client = [r \in Requests |-> "none"]
    /\ shape = [r \in Requests |-> [prompt |-> 0, maxTokens |-> 1]]
    /\ stage = [r \in Requests |-> "new"]
    /\ output = [r \in Requests |-> << >>]
    /\ queue = [r \in Requests |-> << >>]
    /\ worker = [r \in Requests |-> "off"]
    /\ pos = [r \in Requests |-> 0]
    /\ logitsIndex = [r \in Requests |-> 0]
-----------------------------------------------------------------------------
QueueFull == pendingN >= MaxQueue

(* Seeded fault: the tokens to come are forgotten. *)
FitsFault(s) == s.prompt <= NCtx
Fits(s) == s.prompt + s.maxTokens <= NCtx

(* submit, which is one step of the event loop. *)
Submit ==
    /\ arrived < NumRequests
    /\ arrived' = arrived + 1
    /\ \E s \in Shapes :
        /\ shape' = [shape EXCEPT ![arrived + 1] = s]
        /\ IF ~ QueueFull /\ Fits(s)
           THEN /\ stage' = [stage EXCEPT ![arrived + 1] = "queued"]
                /\ client' = [client EXCEPT ![arrived + 1] = "submitted"]
                /\ pendingN' = pendingN + 1
           ELSE /\ stage' = [stage EXCEPT ![arrived + 1] = "refused"]
                /\ UNCHANGED <<client, pendingN>>
    /\ UNCHANGED <<backendVars, line, output, queue, threadVars>>

(* The generator is asked for its first piece, and asks for the gate. *)
StreamBegins(r) ==
    /\ client[r] = "submitted"
    /\ client' = [client EXCEPT ![r] = "streaming"]
    /\ line' = Append(line, r)
    /\ UNCHANGED <<backendVars, arrived, pendingN, shape, requestVars, threadVars>>

(* Seeded fault: nobody waits for the gate. *)
HoldsGateFault(r) == r \in ToSet(line)
HoldsGate(r) == line # << >> /\ r = Head(line)

StartWorker(r) ==
    /\ client[r] = "streaming" /\ HoldsGate(r) /\ worker[r] = "off"
    /\ worker' = [worker EXCEPT ![r] = "begin"]
    /\ UNCHANGED <<backendVars, loopVars, requestVars, pos, logitsIndex>>

(* Seeded fault: the generator ends without leaving the semaphore. *)
WithoutFault(r) == line
Without(r) == RemoveFirst(line, r)

(* The `finally' of stream() and of the gate. *)
Leave(r, why) ==
    /\ client' = [client EXCEPT ![r] = why]
    /\ line' = Without(r)
    /\ pendingN' = pendingN - 1

(* The end of the stream was read and the thread has returned. *)
StreamEnds(r) ==
    /\ client[r] = "streaming" /\ SENTINEL \in ToSet(queue[r])
    /\ Leave(r, "ended")
    /\ UNCHANGED <<backendVars, arrived, shape, requestVars, threadVars>>

Gone == {r \in Requests : client[r] = "gone"}

(* A generator that has not begun is dropped without its `finally'. *)
Disconnect(r) ==
    /\ Cardinality(Gone) < MaxGone
    /\ \/ client[r] = "streaming" /\ Leave(r, "gone")
       \/ /\ client[r] = "submitted"
          /\ client' = [client EXCEPT ![r] = "gone"]
          /\ UNCHANGED <<line, pendingN>>
    /\ UNCHANGED <<backendVars, arrived, shape, requestVars, threadVars>>
-----------------------------------------------------------------------------
(***************************************************************************)
(* _run_blocking: an action for each call of the backend and for each      *)
(* token.                                                                  *)
(***************************************************************************)
ChunkSize ==
    LET n == IF PrefillChunkSize < NBatch THEN PrefillChunkSize ELSE NBatch
    IN  IF n < 1 THEN 1 ELSE n

PartEnd(r) ==
    IF pos[r] + ChunkSize < shape[r].prompt THEN pos[r] + ChunkSize ELSE shape[r].prompt

(* Seeded fault: the position of a token is that in its chunk. *)
PartFault(r) ==
    [i \in 1..(PartEnd(r) - pos[r]) |->
        TokenSlot(0, PromptTokens(r)[pos[r] + i], i - 1,
                  pos[r] + i = shape[r].prompt)]
Part(r) ==
    [i \in 1..(PartEnd(r) - pos[r]) |->
        TokenSlot(0, PromptTokens(r)[pos[r] + i], pos[r] + i - 1,
                  pos[r] + i = shape[r].prompt)]

Goto(r, where) == worker' = [worker EXCEPT ![r] = where]

BeginWork(r) ==
    /\ worker[r] = "begin"
    /\ stage' = [stage EXCEPT ![r] = "prefill"]
    /\ kv' = Emptied(kv, {0})
    /\ Goto(r, "prefill")
    /\ UNCHANGED <<logits, loopVars, output, queue, pos, logitsIndex>>

PrefillChunk(r) ==
    /\ worker[r] = "prefill" /\ pos[r] < shape[r].prompt
    /\ Decode(Part(r))
    /\ logitsIndex' = [logitsIndex EXCEPT ![r] = PartEnd(r) - pos[r]]
    /\ pos' = [pos EXCEPT ![r] = PartEnd(r)]
    /\ UNCHANGED <<loopVars, requestVars, worker>>

PrefillDone(r) ==
    /\ worker[r] = "prefill" /\ pos[r] >= shape[r].prompt
    /\ stage' = [stage EXCEPT ![r] = "decode"]
    /\ Goto(r, "sample")
    /\ UNCHANGED <<backendVars, loopVars, output, queue, pos, logitsIndex>>

HasLogits(r) == logitsIndex[r] \in DOMAIN logits

SampleEos(r) ==
    /\ worker[r] = "sample" /\ HasLogits(r)
    /\ Len(output[r]) < shape[r].maxTokens
    /\ stage' = [stage EXCEPT ![r] = "done"]
    /\ Goto(r, "end")
    /\ UNCHANGED <<backendVars, loopVars, output, queue, pos, logitsIndex>>

(* A stop string may show up in the text; else the token is decoded, the
   last one too. *)
SampleToken(r) ==
    /\ worker[r] = "sample" /\ HasLogits(r)
    /\ Len(output[r]) < shape[r].maxTokens
    /\ LET tok == logits[logitsIndex[r]].tok IN
        /\ output' = [output EXCEPT ![r] = Append(@, tok)]
        /\ queue' = [queue EXCEPT ![r] = Append(@, tok)]
    /\ \/ stage' = [stage EXCEPT ![r] = "done"] /\ Goto(r, "end")
       \/ Goto(r, "decode") /\ UNCHANGED stage
    /\ UNCHANGED <<backendVars, loopVars, pos, logitsIndex>>

DecodeToken(r) ==
    /\ worker[r] = "decode"
    /\ Decode(<<TokenSlot(0, Last(output[r]), pos[r], TRUE)>>)
    /\ logitsIndex' = [logitsIndex EXCEPT ![r] = 1]
    /\ pos' = [pos EXCEPT ![r] = @ + 1]
    /\ Goto(r, "sample")
    /\ UNCHANGED <<loopVars, requestVars>>

LimitReached(r) ==
    /\ worker[r] = "sample" /\ Len(output[r]) >= shape[r].maxTokens
    /\ stage' = [stage EXCEPT ![r] = "done"]
    /\ Goto(r, "end")
    /\ UNCHANGED <<backendVars, loopVars, output, queue, pos, logitsIndex>>

(* The backend, the sampler or the detokenizer raises, or there are no
   logits to sample from. *)
WorkFails(r) ==
    /\ worker[r] \in {"prefill", "sample", "decode"}
    /\ stage' = [stage EXCEPT ![r] = "aborted"]
    /\ Goto(r, "end")
    /\ UNCHANGED <<backendVars, loopVars, output, queue, pos, logitsIndex>>

EndWork(r) ==
    /\ worker[r] = "end"
    /\ kv' = Emptied(kv, {0})
    /\ queue' = [queue EXCEPT ![r] = Append(@, SENTINEL)]
    /\ Goto(r, "returned")
    /\ UNCHANGED <<logits, loopVars, stage, output, pos, logitsIndex>>
-----------------------------------------------------------------------------
EventLoop(r) == StreamBegins(r) \/ StartWorker(r) \/ StreamEnds(r)

Worker(r) ==
    \/ BeginWork(r) \/ PrefillChunk(r) \/ PrefillDone(r) \/ SampleEos(r)
    \/ SampleToken(r) \/ DecodeToken(r) \/ LimitReached(r) \/ WorkFails(r)
    \/ EndWork(r)

Next == Submit \/ \E r \in Requests : EventLoop(r) \/ Worker(r) \/ Disconnect(r)

Spec == Init /\ [][Next]_vars

(* The event loop asks each generator on, the semaphore is first come, first
   served, and threads run. *)
FairSpec == Spec /\ \A r \in Requests : WF_vars(EventLoop(r)) /\ WF_vars(Worker(r))
=============================================================================
