-------------------------- MODULE SimpleEngineProofs --------------------------
(***************************************************************************)
(* Proofs about the simple engine: for every number of requests and every  *)
(* chunk and context size, whoever goes away and whatever fails.           *)
(***************************************************************************)
EXTENDS SimpleEngineProperties, SequenceLemmas

-----------------------------------------------------------------------------
(***************************************************************************)
(* The backend: what a decode writes and predicts, and what ends a stream. *)
(***************************************************************************)
LEMMA WrittenCells ==
    ASSUME NEW cache, NEW list, NEW s \in SeqIds
    PROVE  /\ DOMAIN Written(cache, list) = SeqIds
           /\ \A p : p \in DOMAIN Written(cache, list)[s] <=>
                 \/ p \in DOMAIN cache[s]
                 \/ \E i \in DOMAIN list : list[i].seq = s /\ list[i].pos = p
           /\ \A p \in DOMAIN Written(cache, list)[s] :
                 (\A i \in DOMAIN list : list[i].seq = s => list[i].pos # p) =>
                    /\ Written(cache, list)[s][p] = cache[s][p]
                    /\ p \in DOMAIN cache[s]
           /\ \A i \in DOMAIN list :
                 /\ list[i].seq = s
                 /\ \A j \in DOMAIN list :
                       list[j].seq = s /\ list[j].pos = list[i].pos => j = i
                 => Written(cache, list)[s][list[i].pos] = list[i].tok
<1> DEFINE mine == {i \in DOMAIN list : list[i].seq = s}
           dom == DOMAIN cache[s] \cup {list[i].pos : i \in mine}
<1>1. DOMAIN Written(cache, list) = SeqIds
  BY DEF Written
<1>2. Written(cache, list)[s] =
         [p \in dom |-> IF \E i \in mine : list[i].pos = p
                        THEN list[CHOOSE i \in mine : list[i].pos = p].tok
                        ELSE cache[s][p]]
  BY DEF Written
<1>3. \A p : p \in dom <=> \/ p \in DOMAIN cache[s]
                           \/ \E i \in DOMAIN list : list[i].seq = s /\ list[i].pos = p
  OBVIOUS
<1>4. ASSUME NEW p \in dom, \A i \in DOMAIN list : list[i].seq = s => list[i].pos # p
      PROVE  Written(cache, list)[s][p] = cache[s][p] /\ p \in DOMAIN cache[s]
  <2>1. ~ \E i \in mine : list[i].pos = p
    BY <1>4
  <2> QED BY <2>1, <1>2, <1>3, <1>4
<1>5. ASSUME NEW i \in DOMAIN list, list[i].seq = s,
             \A j \in DOMAIN list : list[j].seq = s /\ list[j].pos = list[i].pos => j = i
      PROVE  Written(cache, list)[s][list[i].pos] = list[i].tok
  <2>1. i \in mine /\ list[i].pos \in dom
    BY <1>5
  <2>2. PICK k : k = CHOOSE j \in mine : list[j].pos = list[i].pos
    OBVIOUS
  <2>3. k \in mine /\ list[k].pos = list[i].pos
    BY <2>1, <2>2
  <2>4. k = i
    BY <2>3, <1>5
  <2>5. Written(cache, list)[s][list[i].pos]
        = list[CHOOSE j \in mine : list[j].pos = list[i].pos].tok
    BY <1>2, <2>1
  <2> QED BY <2>2, <2>4, <2>5
<1>6. DOMAIN Written(cache, list)[s] = dom
  BY <1>2
<1> HIDE DEF mine, dom
<1> QED BY <1>1, <1>3, <1>4, <1>5, <1>6

LEMMA DecodedInto ==
    ASSUME NEW list, NEW s \in SeqIds, Decode(list)
    PROVE  /\ DOMAIN kv' = SeqIds
           /\ \A p : p \in DOMAIN kv'[s] <=>
                 \/ p \in DOMAIN kv[s]
                 \/ \E i \in DOMAIN list : list[i].seq = s /\ list[i].pos = p
           /\ \A p \in DOMAIN kv'[s] :
                 (\A i \in DOMAIN list : list[i].seq = s => list[i].pos # p) =>
                    /\ kv'[s][p] = kv[s][p]
                    /\ p \in DOMAIN kv[s]
           /\ \A i \in DOMAIN list :
                 /\ list[i].seq = s
                 /\ \A j \in DOMAIN list :
                       list[j].seq = s /\ list[j].pos = list[i].pos => j = i
                 => kv'[s][list[i].pos] = list[i].tok
<1>1. kv' = Written(kv, list)
  BY DEF Decode
<1> QED BY <1>1, WrittenCells

(* The cells of a sequence are the context of one request at most. *)
LEMMA PredictedNext ==
    ASSUME NEW cells, NEW n \in Nat
    PROVE  /\ Predicted(cells, n) \in Tokens
           /\ \A r \in Requests : HoldsContext(cells, r, n + 1) =>
                 Predicted(cells, n) = <<r, n + 1>>
<1>1. CASE \E r \in Requests : HoldsContext(cells, r, n + 1)
  <2>1. PICK q : q = CHOOSE r \in Requests : HoldsContext(cells, r, n + 1)
    OBVIOUS
  <2>2. q \in Requests /\ HoldsContext(cells, q, n + 1)
    BY <1>1, <2>1
  <2>3. Predicted(cells, n) = <<q, n + 1>>
    BY <1>1, <2>1 DEF Predicted
  <2>4. ASSUME NEW r \in Requests, HoldsContext(cells, r, n + 1) PROVE r = q
    <3>1. 0 \in 0..(n + 1 - 1)
      OBVIOUS
    <3>2. cells[0] = <<r, 0>> /\ cells[0] = <<q, 0>>
      BY <3>1, <2>2, <2>4 DEF HoldsContext
    <3> QED BY <3>2
  <2>5. <<q, n + 1>> \in Tokens
    BY <2>2 DEF Tokens
  <2> QED BY <2>3, <2>4, <2>5
<1>2. CASE ~ \E r \in Requests : HoldsContext(cells, r, n + 1)
  BY <1>2 DEF Predicted, Tokens
<1> QED BY <1>1, <1>2

(* The end of a stream is not a token. *)
LEMMA SentinelIsNoToken == SENTINEL \notin Tokens /\ Garbage \in Tokens
  BY DEF SENTINEL, Tokens, Garbage, Requests

(* What a decode leaves to be read. *)
LEMMA DecodeLogits ==
    ASSUME NEW list \in Seq([seq : SeqIds, tok : Tokens, pos : Nat, want : BOOLEAN]),
           Decode(list)
    PROVE  /\ logits' \in Seq([seq : SeqIds, pos : Nat, tok : Tokens])
           /\ DOMAIN logits' = DOMAIN list /\ DOMAIN list = 1..Len(list)
           /\ \A i \in DOMAIN list :
                 /\ logits'[i].seq = list[i].seq /\ logits'[i].pos = list[i].pos
                 /\ list[i].want =>
                       logits'[i].tok = Predicted(kv'[list[i].seq], list[i].pos)
<1>1. Len(list) \in Nat /\ DOMAIN list = 1..Len(list)
  BY LenProperties
<1>2. logits' = [i \in DOMAIN list |->
                    [seq |-> list[i].seq, pos |-> list[i].pos,
                     tok |-> IF list[i].want
                             THEN Predicted(kv'[list[i].seq], list[i].pos)
                             ELSE Garbage]]
  BY DEF Decode
<1>3. ASSUME NEW i \in DOMAIN list
      PROVE  logits'[i] \in [seq : SeqIds, pos : Nat, tok : Tokens]
  <2>1. list[i] \in [seq : SeqIds, tok : Tokens, pos : Nat, want : BOOLEAN]
    BY <1>1, ElementOfSeq
  <2>2. list[i].seq \in SeqIds /\ list[i].pos \in Nat
    BY <2>1
  <2>3. Predicted(kv'[list[i].seq], list[i].pos) \in Tokens
    BY <2>2, PredictedNext
  <2>4. Garbage \in Tokens
    BY SentinelIsNoToken
  <2> QED BY <1>2, <2>2, <2>3, <2>4
<1>4. logits' \in Seq([seq : SeqIds, pos : Nat, tok : Tokens])
  <2>1. logits' \in [1..Len(list) -> [seq : SeqIds, pos : Nat, tok : Tokens]]
    BY <1>1, <1>2, <1>3
  <2> QED BY <2>1, <1>1, SeqOfFunction
<1> QED BY <1>1, <1>2, <1>4

(* Tokens, and the same with the end of a stream behind them. *)
LEMMA StreamEnd ==
    ASSUME NEW s \in Seq(Tokens)
    PROVE  /\ SENTINEL \notin ToSet(s) /\ s \o << >> = s
           /\ SENTINEL \in ToSet(Append(s, SENTINEL))
           /\ Append(s, SENTINEL) = s \o <<SENTINEL>>
           /\ Append(s, SENTINEL) \in Seq(Tokens \cup {SENTINEL})
           /\ Append(s, SENTINEL) # s
<1>1. /\ Len(s) \in Nat /\ DOMAIN s = 1..Len(s)
      /\ \A i \in 1..Len(s) : s[i] \in Tokens
  BY LenProperties, ElementOfSeq
<1>2. SENTINEL \notin ToSet(s)
  BY <1>1, SentinelIsNoToken DEF ToSet
<1>3. s \o << >> = s
  BY ConcatEmptySeq
<1>4. s \in Seq(Tokens \cup {SENTINEL})
  OBVIOUS
<1>5. SENTINEL \in ToSet(Append(s, SENTINEL))
  BY <1>4, AppendElements
<1>6. Append(s, SENTINEL) = s \o <<SENTINEL>>
  BY <1>4, AppendIsConcat
<1>7. /\ Append(s, SENTINEL) \in Seq(Tokens \cup {SENTINEL})
      /\ Len(Append(s, SENTINEL)) = Len(s) + 1
  BY <1>4, AppendProperties
<1>8. Append(s, SENTINEL) # s
  BY <1>2, <1>5
<1> QED BY <1>2, <1>3, <1>5, <1>6, <1>7, <1>8

-----------------------------------------------------------------------------
(* Who has been accepted and has not left. *)
Present == {r \in Requests : client[r] \in {"submitted", "streaming"}}
Shaped  == Shapes \cup {[prompt |-> 0, maxTokens |-> 1]}

(***************************************************************************)
(* The event loop: the gate's line is made of those who stream, and        *)
(* _pending counts at least those who are present.                         *)
(***************************************************************************)
LoopOK ==
    /\ arrived \in 0..NumRequests /\ pendingN \in 0..MaxQueue
    /\ client \in [Requests -> {"none", "submitted", "streaming", "ended", "gone"}]
    /\ shape \in [Requests -> Shaped]
    /\ line \in Seq(Requests) /\ IsInjective(line)
    /\ \A r \in Requests : r \in ToSet(line) <=> client[r] = "streaming"
    /\ IsFiniteSet(Present) /\ Cardinality(Present) <= pendingN

(* A request, its generator and its thread. *)
StageOK ==
    /\ stage \in [Requests -> {"new", "refused", "queued", "prefill", "decode",
                               "done", "aborted"}]
    /\ worker \in [Requests -> {"off", "begin", "prefill", "sample", "decode",
                                "end", "returned"}]
    /\ \A r \in Requests :
          /\ r > arrived => stage[r] = "new"
          /\ client[r] = "none" <=> stage[r] \in {"new", "refused"}
          /\ client[r] # "none" => shape[r] \in Shapes /\ Fits(shape[r])
          /\ worker[r] # "off" => client[r] \notin {"none", "submitted"}
          /\ client[r] = "ended" => worker[r] = "returned"

(* How far a thread has come. *)
WorkOK(r) ==
    /\ queue[r] = IF worker[r] = "returned" THEN Append(output[r], SENTINEL) ELSE output[r]
    /\ worker[r] \in {"off", "begin"} =>
          pos[r] = 0 /\ output[r] = << >> /\ logitsIndex[r] = 0
    /\ worker[r] = "prefill" =>
          /\ pos[r] <= shape[r].prompt /\ output[r] = << >>
          /\ pos[r] = 0 => logitsIndex[r] = 0
    /\ worker[r] = "sample" =>
          /\ pos[r] = shape[r].prompt + Len(output[r])
          /\ Len(output[r]) <= shape[r].maxTokens
    /\ worker[r] = "decode" =>
          /\ pos[r] = shape[r].prompt + Len(output[r]) - 1
          /\ Len(output[r]) \in 1..shape[r].maxTokens

ThreadsOK ==
    /\ output \in [Requests -> Seq(Tokens)]
    /\ queue \in [Requests -> Seq(Tokens \cup {SENTINEL})]
    /\ pos \in [Requests -> 0..NCtx]
    /\ logitsIndex \in [Requests -> Nat]
    /\ \A r \in Requests : WorkOK(r)

CacheOK ==
    /\ DOMAIN kv = {0}
    /\ \A p \in DOMAIN kv[0] : p \in 0..(NCtx - 1) /\ kv[0][p] \in Tokens
    /\ logits \in Seq([seq : SeqIds, pos : Nat, tok : Tokens])

(***************************************************************************)
(* While nobody has left, who generates holds the gate, and so has the     *)
(* cache and the logits of the backend to itself.                          *)
(***************************************************************************)
Cached(r) ==
    /\ DOMAIN kv[0] = 0..(pos[r] - 1)
    /\ \A p \in 0..(pos[r] - 1) : kv[0][p] = <<r, p>>

ReadsNext(r) ==
    HasLogits(r) => logits[logitsIndex[r]].tok = <<r, shape[r].prompt + Len(output[r])>>

Undisturbed(r) ==
    /\ worker[r] # "begin" => Cached(r)
    /\ worker[r] = "prefill" /\ pos[r] = shape[r].prompt => ReadsNext(r)
    /\ worker[r] = "sample" => ReadsNext(r)

OutputExact(r) ==
    \A i \in 1..Len(output[r]) : output[r][i] = <<r, shape[r].prompt + i - 1>>

Serial ==
    Gone = {} => /\ \A r \in Generating : HoldsGate(r) /\ Undisturbed(r)
                 /\ \A r \in Requests : OutputExact(r)

IInv == LoopOK /\ StageOK /\ ThreadsOK /\ CacheOK /\ Serial
-----------------------------------------------------------------------------
LEMMA ShapeFacts ==
    ASSUME LoopOK, NEW r \in Requests
    PROVE  shape[r].prompt \in Nat /\ shape[r].maxTokens \in Nat \ {0}
<1>1. shape[r] \in Shaped
  BY DEF LoopOK
<1>2. CASE shape[r] \in Shapes
  BY <1>2, SimpleAssumption
<1>3. CASE shape[r] = [prompt |-> 0, maxTokens |-> 1]
  BY <1>3
<1> QED BY <1>1, <1>2, <1>3 DEF Shaped

LEMMA EmptyList == Len(<< >>) = 0 /\ ToSet(<< >>) = {} /\ \A S : << >> \in Seq(S)
  BY EmptySeq, LenProperties DEF ToSet

(* The end of a stream is in the queue once the thread has returned. *)
LEMMA ClosedAtEnd ==
    ASSUME ThreadsOK, NEW r \in Requests
    PROVE  /\ Closed(r) <=> worker[r] = "returned"
           /\ queue[r] = output[r] \o (IF Closed(r) THEN <<SENTINEL>> ELSE << >>)
<1>1. output[r] \in Seq(Tokens) /\ WorkOK(r)
  BY DEF ThreadsOK
<1>2. CASE worker[r] = "returned"
  <2>1. queue[r] = Append(output[r], SENTINEL)
    BY <1>1, <1>2 DEF WorkOK
  <2> QED BY <1>1, <1>2, <2>1, StreamEnd DEF Closed
<1>3. CASE worker[r] # "returned"
  <2>1. queue[r] = output[r]
    BY <1>1, <1>3 DEF WorkOK
  <2> QED BY <1>1, <1>3, <2>1, StreamEnd DEF Closed
<1> QED BY <1>2, <1>3

(* Who generates still streams, if nobody has left. *)
LEMMA GeneratingStreams ==
    ASSUME StageOK, LoopOK, NEW r \in Generating
    PROVE  r \in Requests /\ client[r] \in {"streaming", "gone"}
<1>1. r \in Requests /\ worker[r] # "off" /\ worker[r] # "returned"
  BY DEF Generating
<1>2. client[r] \in {"none", "submitted", "streaming", "ended", "gone"}
  BY <1>1 DEF LoopOK
<1> QED BY <1>1, <1>2 DEF StageOK

-----------------------------------------------------------------------------
(***************************************************************************)
(* The event loop.                                                         *)
(***************************************************************************)
(* It does nothing to the cache and to what the threads have done. *)
LEMMA ThreadsKept ==
    ASSUME IInv, UNCHANGED <<backendVars, output, queue, worker, pos, logitsIndex>>,
           \A r \in Requests : worker[r] # "off" => shape'[r] = shape[r]
    PROVE  /\ ThreadsOK' /\ CacheOK' /\ Generating' = Generating
           /\ \A r \in Generating : Undisturbed(r) => (Undisturbed(r))'
           /\ \A r \in Requests : OutputExact(r) => (OutputExact(r))'
<1>1. UNCHANGED <<kv, logits, output, queue, worker, pos, logitsIndex>>
  BY DEF backendVars
<1>2. ThreadsOK'
  <2>1. ASSUME NEW r \in Requests PROVE (WorkOK(r))'
    <3>1. WorkOK(r)
      BY DEF IInv, ThreadsOK
    <3>2. CASE worker[r] = "off"
      BY <3>1, <3>2, <1>1 DEF WorkOK
    <3>3. CASE worker[r] # "off"
      BY <3>1, <3>3, <1>1 DEF WorkOK
    <3> QED BY <3>2, <3>3
  <2> QED BY <2>1, <1>1 DEF IInv, ThreadsOK
<1>3. CacheOK'
  BY <1>1 DEF IInv, CacheOK
<1>4. Generating' = Generating
  BY <1>1 DEF Generating
<1>5. ASSUME NEW r \in Generating, Undisturbed(r) PROVE (Undisturbed(r))'
  <2>1. shape'[r] = shape[r]
    BY DEF Generating
  <2>2. (Cached(r))' <=> Cached(r)
    BY <1>1 DEF Cached
  <2>3. (ReadsNext(r))' <=> ReadsNext(r)
    BY <1>1, <2>1 DEF ReadsNext, HasLogits
  <2> QED BY <1>1, <1>5, <2>1, <2>2, <2>3 DEF Undisturbed
<1>6. ASSUME NEW r \in Requests, OutputExact(r) PROVE (OutputExact(r))'
  <2>1. CASE worker[r] = "off"
    <3>1. output[r] = << >>
      BY <2>1 DEF IInv, ThreadsOK, WorkOK
    <3>2. Len(output'[r]) = 0
      BY <3>1, <1>1, EmptyList
    <3> QED BY <3>2 DEF OutputExact
  <2>2. CASE worker[r] # "off"
    BY <2>2, <1>1, <1>6 DEF OutputExact
  <2> QED BY <2>1, <2>2
<1> QED BY <1>2, <1>3, <1>4, <1>5, <1>6

(* Nobody comes back, so a step that leaves the gate to its holder keeps   *)
(* the generations serial.                                                 *)
LEMMA SerialKept ==
    ASSUME IInv, UNCHANGED <<backendVars, output, queue, worker, pos, logitsIndex>>,
           \A r \in Requests : worker[r] # "off" => shape'[r] = shape[r],
           Gone' = {} => Gone = {} /\ \A r \in Generating : HoldsGate(r) => (HoldsGate(r))'
    PROVE  ThreadsOK' /\ CacheOK' /\ Serial'
<1>1. /\ ThreadsOK' /\ CacheOK' /\ Generating' = Generating
      /\ \A r \in Generating : Undisturbed(r) => (Undisturbed(r))'
      /\ \A r \in Requests : OutputExact(r) => (OutputExact(r))'
  BY ThreadsKept
<1>2. Serial'
  <2> SUFFICES ASSUME Gone' = {}
               PROVE  /\ \A r \in Generating : (HoldsGate(r))' /\ (Undisturbed(r))'
                      /\ \A r \in Requests : (OutputExact(r))'
    BY <1>1 DEF Serial
  <2> QED BY <1>1 DEF IInv, Serial
<1> QED BY <1>1, <1>2

LEMMA SubmitStep ==
    ASSUME IInv, Submit
    PROVE  IInv'
<1>1. PICK n : n = arrived + 1
  OBVIOUS
<1>2. PICK s \in Shapes :
        /\ shape' = [shape EXCEPT ![n] = s]
        /\ \/ /\ pendingN < MaxQueue /\ Fits(s)
              /\ stage' = [stage EXCEPT ![n] = "queued"]
              /\ client' = [client EXCEPT ![n] = "submitted"]
              /\ pendingN' = pendingN + 1
           \/ /\ stage' = [stage EXCEPT ![n] = "refused"]
              /\ UNCHANGED <<client, pendingN>>
  <2>1. pendingN \in Nat /\ MaxQueue \in Nat
    BY SimpleAssumption DEF IInv, LoopOK
  <2>2. ~ (pendingN >= MaxQueue) => pendingN < MaxQueue
    BY <2>1
  <2> QED BY <1>1, <2>2 DEF Submit, QueueFull
<1>3. /\ arrived < NumRequests /\ arrived' = n
      /\ UNCHANGED <<backendVars, line, output, queue, worker, pos, logitsIndex>>
  BY <1>1 DEF Submit, threadVars
<1>4. /\ arrived \in Nat /\ n \in Requests /\ n > arrived /\ n \in 0..NumRequests
      /\ \A r \in Requests : r > n => r > arrived /\ r # n
  <2>1. arrived \in 0..NumRequests /\ NumRequests \in Nat
    BY SimpleAssumption DEF IInv, LoopOK
  <2> QED BY <1>1, <1>3, <2>1 DEF Requests
<1>5. /\ stage[n] = "new" /\ client[n] = "none" /\ worker[n] = "off"
      /\ n \notin ToSet(line) /\ n \notin Present
  <2>1. stage[n] = "new" /\ client[n] = "none"
    BY <1>4 DEF IInv, StageOK
  <2>2. worker[n] = "off"
    BY <2>1, <1>4 DEF IInv, StageOK
  <2> QED BY <2>1, <2>2, <1>4 DEF IInv, LoopOK, Present
<1>6. /\ \A r \in Requests : r # n => /\ shape'[r] = shape[r] /\ stage'[r] = stage[r]
                                      /\ client'[r] = client[r]
      /\ shape'[n] = s
      /\ \/ /\ stage'[n] = "queued" /\ client'[n] = "submitted" /\ Fits(s)
            /\ pendingN' = pendingN + 1 /\ pendingN < MaxQueue
         \/ /\ stage'[n] = "refused" /\ client'[n] = "none" /\ pendingN' = pendingN
  BY <1>2, <1>4, <1>5 DEF IInv, LoopOK, StageOK
<1>7. /\ stage' \in [Requests -> {"new", "refused", "queued", "prefill", "decode",
                                  "done", "aborted"}]
      /\ client' \in [Requests -> {"none", "submitted", "streaming", "ended", "gone"}]
      /\ shape' \in [Requests -> Shaped]
  BY <1>2 DEF IInv, LoopOK, StageOK, Shaped
<1>8. pendingN' \in 0..MaxQueue /\ IsFiniteSet(Present') /\ Cardinality(Present') <= pendingN'
  <2>1. /\ pendingN \in 0..MaxQueue /\ IsFiniteSet(Present)
        /\ Cardinality(Present) <= pendingN /\ MaxQueue \in Nat
    BY SimpleAssumption DEF IInv, LoopOK
  <2>2. CASE client'[n] = "submitted"
    <3>1. Present' = Present \cup {n}
      BY <2>2, <1>4, <1>6 DEF Present
    <3>2. /\ IsFiniteSet(Present') /\ Cardinality(Present') = Cardinality(Present) + 1
      BY <3>1, <2>1, <1>5, FS_AddElement
    <3>3. Cardinality(Present) \in Nat
      BY <2>1, FS_CardinalityType
    <3>4. pendingN' = pendingN + 1 /\ pendingN < MaxQueue
      BY <2>2, <1>6
    <3> QED BY <2>1, <3>2, <3>3, <3>4
  <2>3. CASE client'[n] = "none"
    <3>1. Present' = Present
      BY <2>3, <1>4, <1>5, <1>6 DEF Present
    <3> QED BY <2>1, <2>3, <3>1, <1>6
  <2> QED BY <2>2, <2>3, <1>6
<1>9. LoopOK'
  <2>1. \A r \in Requests : r \in ToSet(line) <=> client'[r] = "streaming"
    BY <1>5, <1>6 DEF IInv, LoopOK
  <2>2. line' = line
    BY <1>3
  <2> QED BY <2>1, <2>2, <1>3, <1>4, <1>7, <1>8 DEF IInv, LoopOK
<1>10. StageOK'
  <2>1. \A r \in Requests : (Fits(shape[r]))' <=> Fits(shape'[r])
    BY DEF Fits
  <2>2. ASSUME NEW r \in Requests
        PROVE  /\ r > n => stage'[r] = "new"
               /\ client'[r] = "none" <=> stage'[r] \in {"new", "refused"}
               /\ client'[r] # "none" => shape'[r] \in Shapes /\ Fits(shape'[r])
               /\ worker[r] # "off" => client'[r] \notin {"none", "submitted"}
               /\ client'[r] = "ended" => worker[r] = "returned"
    <3>1. CASE r = n
      BY <3>1, <1>4, <1>5, <1>6
    <3>2. CASE r # n
      BY <3>2, <1>4, <1>6 DEF IInv, StageOK
    <3> QED BY <3>1, <3>2
  <2>3. worker' = worker
    BY <1>3
  <2> QED BY <2>1, <2>2, <2>3, <1>3, <1>7 DEF IInv, StageOK
<1>11. Gone' = Gone
  BY <1>5, <1>6 DEF Gone
<1>12. ThreadsOK' /\ CacheOK' /\ Serial'
  <2>1. \A r : HoldsGate(r) => (HoldsGate(r))'
    BY <1>3 DEF HoldsGate
  <2>2. \A r \in Requests : worker[r] # "off" => shape'[r] = shape[r]
    BY <1>5, <1>6
  <2> QED BY <2>1, <2>2, <1>3, <1>11, SerialKept
<1> QED BY <1>9, <1>10, <1>12 DEF IInv

(* A generator changes: what remains to be shown of the loop. *)
LEMMA StageKept ==
    ASSUME IInv, NEW r \in Requests, NEW why \in {"streaming", "ended", "gone"},
           client' = [client EXCEPT ![r] = why], client[r] # "none",
           why = "ended" => worker[r] = "returned",
           UNCHANGED <<arrived, shape, stage, worker>>
    PROVE  /\ StageOK'
           /\ client' \in [Requests -> {"none", "submitted", "streaming", "ended", "gone"}]
           /\ client'[r] = why /\ \A q \in Requests : q # r => client'[q] = client[q]
<1>1. /\ client' \in [Requests -> {"none", "submitted", "streaming", "ended", "gone"}]
      /\ client'[r] = why /\ \A q \in Requests : q # r => client'[q] = client[q]
  BY DEF IInv, LoopOK
<1>2. \A q \in Requests : (Fits(shape[q]))' <=> Fits(shape[q])
  BY DEF Fits
<1>3. ASSUME NEW q \in Requests
      PROVE  /\ q > arrived => stage[q] = "new"
             /\ client'[q] = "none" <=> stage[q] \in {"new", "refused"}
             /\ client'[q] # "none" => shape[q] \in Shapes /\ Fits(shape[q])
             /\ worker[q] # "off" => client'[q] \notin {"none", "submitted"}
             /\ client'[q] = "ended" => worker[q] = "returned"
  <2>1. CASE q = r
    BY <2>1, <1>1 DEF IInv, StageOK
  <2>2. CASE q # r
    BY <2>2, <1>1 DEF IInv, StageOK
  <2> QED BY <2>1, <2>2
<1>4. StageOK'
  BY <1>2, <1>3 DEF IInv, StageOK
<1> QED BY <1>1, <1>4

LEMMA StreamBeginsStep ==
    ASSUME IInv, NEW r \in Requests, StreamBegins(r)
    PROVE  IInv'
<1>1. /\ client[r] = "submitted" /\ client' = [client EXCEPT ![r] = "streaming"]
      /\ line' = Append(line, r)
      /\ UNCHANGED <<backendVars, arrived, pendingN, shape, stage, output, queue, worker,
                     pos, logitsIndex>>
  BY DEF StreamBegins, requestVars, threadVars
<1>2. /\ StageOK' /\ client'[r] = "streaming"
      /\ client' \in [Requests -> {"none", "submitted", "streaming", "ended", "gone"}]
      /\ \A q \in Requests : q # r => client'[q] = client[q]
  BY <1>1, StageKept
<1>3. line \in Seq(Requests) /\ IsInjective(line) /\ r \notin ToSet(line)
  BY <1>1 DEF IInv, LoopOK
<1>4. /\ line' \in Seq(Requests) /\ IsInjective(line')
      /\ ToSet(line') = ToSet(line) \cup {r}
  BY <1>1, <1>3, AppendElements, AppendProperties
<1>5. Present' = Present
  BY <1>1, <1>2 DEF Present
<1>6. \A q \in Requests : q \in ToSet(line') <=> client'[q] = "streaming"
  BY <1>2, <1>4 DEF IInv, LoopOK
<1>7. LoopOK'
  BY <1>1, <1>2, <1>4, <1>5, <1>6 DEF IInv, LoopOK
<1>8. ThreadsOK' /\ CacheOK' /\ Serial'
  <2>1. Gone' = Gone
    BY <1>1, <1>2 DEF Gone
  <2>2. ASSUME NEW q, HoldsGate(q) PROVE (HoldsGate(q))'
    <3>1. line # << >> /\ q = Head(line)
      BY <2>2 DEF HoldsGate
    <3>2. Head(Append(line, r)) = Head(line)
      BY <1>3, <3>1, HeadTailAppend
    <3>3. Append(line, r) # << >>
      BY <1>3, AppendProperties
    <3> QED BY <1>1, <3>1, <3>2, <3>3 DEF HoldsGate
  <2> QED BY <1>1, <2>1, <2>2, SerialKept
<1> QED BY <1>2, <1>7, <1>8 DEF IInv

(* The generator of r is closed, after its end or before it. *)
LEMMA LeaveStep ==
    ASSUME IInv, NEW r \in Requests, NEW why \in {"ended", "gone"}, Leave(r, why),
           client[r] = "streaming", why = "ended" => worker[r] = "returned",
           UNCHANGED <<backendVars, arrived, shape, requestVars, threadVars>>
    PROVE  IInv'
<1>1. /\ client' = [client EXCEPT ![r] = why] /\ line' = RemoveFirst(line, r)
      /\ pendingN' = pendingN - 1
      /\ UNCHANGED <<backendVars, arrived, shape, stage, output, queue, worker, pos,
                     logitsIndex>>
  BY DEF Leave, Without, requestVars, threadVars
<1>2. /\ StageOK' /\ client'[r] = why
      /\ client' \in [Requests -> {"none", "submitted", "streaming", "ended", "gone"}]
      /\ \A q \in Requests : q # r => client'[q] = client[q]
  BY <1>1, StageKept
<1>3. line \in Seq(Requests) /\ IsInjective(line) /\ r \in ToSet(line)
  BY DEF IInv, LoopOK
<1>4. /\ line' \in Seq(Requests) /\ IsInjective(line')
      /\ ToSet(line') = ToSet(line) \ {r}
  BY <1>1, <1>3, RemoveFirstProperties
<1>5. pendingN' \in 0..MaxQueue /\ IsFiniteSet(Present') /\ Cardinality(Present') <= pendingN'
  <2>1. /\ pendingN \in 0..MaxQueue /\ IsFiniteSet(Present)
        /\ Cardinality(Present) <= pendingN /\ MaxQueue \in Nat
    BY SimpleAssumption DEF IInv, LoopOK
  <2>2. Present' = Present \ {r} /\ r \in Present
    BY <1>2 DEF Present
  <2>3. IsFiniteSet(Present') /\ Cardinality(Present') = Cardinality(Present) - 1
    BY <2>1, <2>2, FS_RemoveElement
  <2>4. Cardinality(Present') \in Nat /\ Cardinality(Present) \in Nat
    BY <2>1, <2>3, FS_CardinalityType
  <2> QED BY <1>1, <2>1, <2>3, <2>4
<1>6. \A q \in Requests : q \in ToSet(line') <=> client'[q] = "streaming"
  BY <1>2, <1>4 DEF IInv, LoopOK
<1>7. LoopOK'
  BY <1>1, <1>2, <1>4, <1>5, <1>6 DEF IInv, LoopOK
<1>8. Gone' = {} => Gone = {} /\ why = "ended"
  BY <1>2 DEF Gone
<1>9. ASSUME why = "ended", NEW q \in Generating, HoldsGate(q) PROVE (HoldsGate(q))'
  <2>1. q # r
    BY <1>9 DEF Generating
  <2>2. q = Head(line)
    BY <1>9 DEF HoldsGate
  <2>3. RemoveFirst(line, r) # << >> /\ Head(RemoveFirst(line, r)) = Head(line)
    BY <1>3, <2>1, <2>2, RemoveFirstHead
  <2> QED BY <1>1, <2>2, <2>3 DEF HoldsGate
<1>10. ThreadsOK' /\ CacheOK' /\ Serial'
  BY <1>1, <1>8, <1>9, SerialKept
<1> QED BY <1>2, <1>7, <1>10 DEF IInv

LEMMA StreamEndsStep ==
    ASSUME IInv, NEW r \in Requests, StreamEnds(r)
    PROVE  IInv'
<1>1. /\ client[r] = "streaming" /\ Closed(r) /\ Leave(r, "ended")
      /\ UNCHANGED <<backendVars, arrived, shape, requestVars, threadVars>>
  BY DEF StreamEnds, Closed
<1>2. worker[r] = "returned"
  BY <1>1, ClosedAtEnd DEF IInv
<1> QED BY <1>1, <1>2, LeaveStep

LEMMA DisconnectStep ==
    ASSUME IInv, NEW r \in Requests, Disconnect(r)
    PROVE  IInv'
<1>1. CASE client[r] = "streaming" /\ Leave(r, "gone")
  <2>1. UNCHANGED <<backendVars, arrived, shape, requestVars, threadVars>>
    BY DEF Disconnect
  <2> QED BY <1>1, <2>1, LeaveStep
<1>2. CASE client[r] = "submitted"
  <2>1. /\ client' = [client EXCEPT ![r] = "gone"]
        /\ UNCHANGED <<backendVars, arrived, line, pendingN, shape, stage, output, queue,
                       worker, pos, logitsIndex>>
    BY <1>2 DEF Disconnect, requestVars, threadVars
  <2>2. /\ StageOK' /\ client'[r] = "gone"
        /\ client' \in [Requests -> {"none", "submitted", "streaming", "ended", "gone"}]
        /\ \A q \in Requests : q # r => client'[q] = client[q]
    BY <1>2, <2>1, StageKept
  <2>3. IsFiniteSet(Present') /\ Cardinality(Present') <= pendingN
    <3>1. /\ IsFiniteSet(Present) /\ Cardinality(Present) <= pendingN /\ pendingN \in Nat
      BY SimpleAssumption DEF IInv, LoopOK
    <3>2. Present' \subseteq Present
      BY <2>2 DEF Present
    <3>3. IsFiniteSet(Present') /\ Cardinality(Present') <= Cardinality(Present)
      BY <3>1, <3>2, FS_Subset
    <3>4. Cardinality(Present') \in Nat /\ Cardinality(Present) \in Nat
      BY <3>1, <3>3, FS_CardinalityType
    <3> QED BY <3>1, <3>3, <3>4
  <2>4. \A q \in Requests : q \in ToSet(line) <=> client'[q] = "streaming"
    BY <1>2, <2>2 DEF IInv, LoopOK
  <2>5. LoopOK'
    BY <2>1, <2>2, <2>3, <2>4 DEF IInv, LoopOK
  <2>6. Gone' # {}
    BY <2>2 DEF Gone
  <2>7. ThreadsOK' /\ CacheOK' /\ Serial'
    BY <2>1, <2>6, SerialKept
  <2> QED BY <2>2, <2>5, <2>7 DEF IInv
<1> QED BY <1>1, <1>2 DEF Disconnect

LEMMA StartWorkerStep ==
    ASSUME IInv, NEW r \in Requests, StartWorker(r)
    PROVE  IInv'
<1>1. /\ client[r] = "streaming" /\ HoldsGate(r) /\ worker[r] = "off"
      /\ worker' = [worker EXCEPT ![r] = "begin"]
      /\ UNCHANGED <<kv, logits, arrived, pendingN, line, client, shape, stage, output,
                     queue, pos, logitsIndex>>
  BY DEF StartWorker, backendVars, loopVars, requestVars
<1>2. /\ worker'[r] = "begin" /\ \A q \in Requests : q # r => worker'[q] = worker[q]
      /\ worker' \in [Requests -> {"off", "begin", "prefill", "sample", "decode",
                                   "end", "returned"}]
  BY <1>1 DEF IInv, StageOK
<1>3. LoopOK'
  BY <1>1 DEF IInv, LoopOK, Present
<1>4. StageOK'
  <2>1. \A q \in Requests : (Fits(shape[q]))' <=> Fits(shape[q])
    BY <1>1 DEF Fits
  <2>2. \A q \in Requests :
           /\ worker'[q] # "off" => client[q] \notin {"none", "submitted"}
           /\ client[q] = "ended" => worker'[q] = "returned"
    BY <1>1, <1>2 DEF IInv, StageOK
  <2> QED BY <1>1, <1>2, <2>1, <2>2 DEF IInv, StageOK
<1>5. ThreadsOK'
  <2>1. ASSUME NEW q \in Requests PROVE (WorkOK(q))'
    <3>1. WorkOK(q)
      BY DEF IInv, ThreadsOK
    <3>2. CASE q = r
      BY <3>1, <3>2, <1>1, <1>2 DEF WorkOK
    <3>3. CASE q # r
      BY <3>1, <3>3, <1>1, <1>2 DEF WorkOK
    <3> QED BY <3>2, <3>3
  <2> QED BY <2>1, <1>1 DEF IInv, ThreadsOK
<1>6. CacheOK'
  BY <1>1 DEF IInv, CacheOK
<1>7. Serial'
  <2> SUFFICES ASSUME Gone' = {}
               PROVE  /\ \A q \in Generating' : (HoldsGate(q))' /\ (Undisturbed(q))'
                      /\ \A q \in Requests : (OutputExact(q))'
    BY DEF Serial
  <2>1. Gone = {}
    BY <1>1 DEF Gone
  <2>2. \A q \in Requests : (OutputExact(q))'
    BY <2>1, <1>1 DEF IInv, Serial, OutputExact
  <2>3. ASSUME NEW q \in Generating' PROVE (HoldsGate(q))' /\ (Undisturbed(q))'
    <3>1. CASE q = r
      BY <3>1, <1>1, <1>2 DEF HoldsGate, Undisturbed
    <3>2. CASE q # r
      <4>1. q \in Generating /\ worker'[q] = worker[q]
        BY <3>2, <1>2 DEF Generating
      <4>2. HoldsGate(q) /\ Undisturbed(q)
        BY <4>1, <2>1 DEF IInv, Serial
      <4> QED BY <4>1, <4>2, <1>1
              DEF HoldsGate, Undisturbed, Cached, ReadsNext, HasLogits
    <3> QED BY <3>1, <3>2
  <2> QED BY <2>2, <2>3
<1> QED BY <1>3, <1>4, <1>5, <1>6, <1>7 DEF IInv

-----------------------------------------------------------------------------
(***************************************************************************)
(* The generating threads.                                                 *)
(***************************************************************************)
(* The step of one thread: what is to be shown of it. *)
LEMMA WorkerStep ==
    ASSUME IInv, NEW r \in Requests, r \in Generating, UNCHANGED loopVars,
           worker' \in [Requests -> {"off", "begin", "prefill", "sample", "decode",
                                     "end", "returned"}],
           worker'[r] \notin {"off", "begin"},
           stage' \in [Requests -> {"new", "refused", "queued", "prefill", "decode",
                                    "done", "aborted"}],
           stage'[r] \notin {"new", "refused"},
           output' \in [Requests -> Seq(Tokens)],
           queue' \in [Requests -> Seq(Tokens \cup {SENTINEL})],
           pos' \in [Requests -> 0..NCtx],
           logitsIndex' \in [Requests -> Nat],
           \A q \in Requests : q # r =>
              /\ worker'[q] = worker[q] /\ stage'[q] = stage[q] /\ output'[q] = output[q]
              /\ queue'[q] = queue[q] /\ pos'[q] = pos[q]
              /\ logitsIndex'[q] = logitsIndex[q],
           (WorkOK(r))', CacheOK',
           Undisturbed(r) /\ OutputExact(r) =>
              /\ (OutputExact(r))'
              /\ worker'[r] # "returned" => (Undisturbed(r))'
    PROVE  IInv'
<1>1. UNCHANGED <<arrived, pendingN, line, client, shape>>
  BY DEF loopVars
<1>2. client[r] \in {"streaming", "gone"} /\ worker[r] # "off" /\ worker[r] # "returned"
  BY GeneratingStreams DEF IInv, Generating
<1>3. LoopOK'
  BY <1>1 DEF IInv, LoopOK, Present
<1>4. StageOK'
  <2>1. \A q \in Requests : (Fits(shape[q]))' <=> Fits(shape[q])
    BY <1>1 DEF Fits
  <2>2. ASSUME NEW q \in Requests
        PROVE  /\ q > arrived => stage'[q] = "new"
               /\ client[q] = "none" <=> stage'[q] \in {"new", "refused"}
               /\ client[q] # "none" => shape[q] \in Shapes /\ Fits(shape[q])
               /\ worker'[q] # "off" => client[q] \notin {"none", "submitted"}
               /\ client[q] = "ended" => worker'[q] = "returned"
    <3>1. CASE q = r
      BY <3>1, <1>2 DEF IInv, StageOK
    <3>2. CASE q # r
      BY <3>2 DEF IInv, StageOK
    <3> QED BY <3>1, <3>2
  <2> QED BY <1>1, <2>1, <2>2 DEF StageOK
<1>5. ThreadsOK'
  <2>1. ASSUME NEW q \in Requests, q # r PROVE (WorkOK(q))'
    <3>1. WorkOK(q)
      BY DEF IInv, ThreadsOK
    <3> QED BY <2>1, <3>1, <1>1 DEF WorkOK
  <2> QED BY <2>1 DEF ThreadsOK
<1>6. Serial'
  <2> SUFFICES ASSUME Gone' = {}
               PROVE  /\ \A q \in Generating' : (HoldsGate(q))' /\ (Undisturbed(q))'
                      /\ \A q \in Requests : (OutputExact(q))'
    BY DEF Serial
  <2>1. Gone = {}
    BY <1>1 DEF Gone
  <2>2. HoldsGate(r) /\ Undisturbed(r) /\ OutputExact(r)
    BY <2>1 DEF IInv, Serial
  <2>3. \A q \in Generating' : q = r
    <3> SUFFICES ASSUME NEW q \in Generating', q # r PROVE FALSE
      OBVIOUS
    <3>1. q \in Generating
      BY DEF Generating
    <3>2. HoldsGate(q)
      BY <2>1, <3>1 DEF IInv, Serial
    <3> QED BY <2>2, <3>2 DEF HoldsGate
  <2>4. r \in Generating' => worker'[r] # "returned"
    BY DEF Generating
  <2>5. (HoldsGate(r))'
    BY <2>2, <1>1 DEF HoldsGate
  <2>6. ASSUME NEW q \in Requests, q # r PROVE (OutputExact(q))'
    <3>1. OutputExact(q)
      BY <2>1 DEF IInv, Serial
    <3>2. output'[q] = output[q] /\ shape' = shape
      BY <2>6, <1>1
    <3> QED BY <3>1, <3>2 DEF OutputExact
  <2> QED BY <2>2, <2>3, <2>4, <2>5, <2>6
<1> QED BY <1>3, <1>4, <1>5, <1>6 DEF IInv

(* A request that is generated fits in the context. *)
LEMMA GeneratingFits ==
    ASSUME IInv, NEW r \in Generating
    PROVE  /\ r \in Requests /\ shape[r].prompt \in Nat /\ shape[r].maxTokens \in Nat \ {0}
           /\ shape[r].prompt + shape[r].maxTokens <= NCtx /\ NCtx \in Nat
           /\ pos[r] \in Nat /\ output[r] \in Seq(Tokens) /\ Len(output[r]) \in Nat
           /\ logitsIndex[r] \in Nat /\ WorkOK(r)
<1>1. r \in Requests /\ client[r] # "none"
  BY GeneratingStreams DEF IInv
<1>2. shape[r] \in Shapes /\ Fits(shape[r])
  BY <1>1 DEF IInv, StageOK
<1>3. /\ pos[r] \in 0..NCtx /\ output[r] \in Seq(Tokens) /\ logitsIndex[r] \in Nat
      /\ WorkOK(r)
  BY <1>1 DEF IInv, ThreadsOK
<1>4. Len(output[r]) \in Nat
  BY <1>3, LenProperties
<1> QED BY <1>1, <1>2, <1>3, <1>4, SimpleAssumption DEF Fits

(* What a decode of consecutive positions does to the only sequence. *)
LEMMA DecodedCells ==
    ASSUME CacheOK, NEW b \in Nat, NEW k \in Nat \ {0}, b + k <= NCtx,
           NEW list \in Seq([seq : SeqIds, tok : Tokens, pos : Nat, want : BOOLEAN]),
           Decode(list), DOMAIN list = 1..k,
           \A i \in 1..k : list[i].seq = 0 /\ list[i].pos = b + i - 1
    PROVE  /\ CacheOK'
           /\ \A p : p \in DOMAIN kv'[0] <=> p \in DOMAIN kv[0] \/ p \in b..(b + k - 1)
           /\ \A p \in DOMAIN kv[0] : p \notin b..(b + k - 1) => kv'[0][p] = kv[0][p]
           /\ \A i \in 1..k : kv'[0][b + i - 1] = list[i].tok
           /\ DOMAIN logits' = 1..k
           /\ list[k].want => logits'[k].tok = Predicted(kv'[0], b + k - 1)
<1>1. 0 \in SeqIds /\ SeqIds = {0}
  BY SimpleAssumption
<1>2. /\ DOMAIN kv' = SeqIds
      /\ \A p : p \in DOMAIN kv'[0] <=>
            \/ p \in DOMAIN kv[0]
            \/ \E i \in DOMAIN list : list[i].seq = 0 /\ list[i].pos = p
      /\ \A p \in DOMAIN kv'[0] :
            (\A i \in DOMAIN list : list[i].seq = 0 => list[i].pos # p) =>
               /\ kv'[0][p] = kv[0][p]
               /\ p \in DOMAIN kv[0]
      /\ \A i \in DOMAIN list :
            /\ list[i].seq = 0
            /\ \A j \in DOMAIN list : list[j].seq = 0 /\ list[j].pos = list[i].pos => j = i
            => kv'[0][list[i].pos] = list[i].tok
  BY <1>1, DecodedInto
<1>3. \A p : p \in b..(b + k - 1) <=> \E i \in 1..k : b + i - 1 = p
  <2> SUFFICES ASSUME NEW p PROVE p \in b..(b + k - 1) <=> \E i \in 1..k : b + i - 1 = p
    OBVIOUS
  <2>1. ASSUME p \in b..(b + k - 1) PROVE \E i \in 1..k : b + i - 1 = p
    <3>1. p - b + 1 \in 1..k /\ b + (p - b + 1) - 1 = p
      BY <2>1
    <3> QED BY <3>1
  <2>2. \A i \in 1..k : b + i - 1 \in b..(b + k - 1)
    OBVIOUS
  <2> QED BY <2>1, <2>2
<1>4. \A p : p \in DOMAIN kv'[0] <=> p \in DOMAIN kv[0] \/ p \in b..(b + k - 1)
  <2> SUFFICES ASSUME NEW p
               PROVE p \in DOMAIN kv'[0] <=> p \in DOMAIN kv[0] \/ p \in b..(b + k - 1)
    OBVIOUS
  <2>1. p \in b..(b + k - 1) <=> \E i \in DOMAIN list : list[i].seq = 0 /\ list[i].pos = p
    BY <1>3
  <2> QED BY <2>1, <1>2
<1>5. ASSUME NEW p \in DOMAIN kv[0], p \notin b..(b + k - 1) PROVE kv'[0][p] = kv[0][p]
  <2>1. \A i \in DOMAIN list : list[i].pos # p
    BY <1>3, <1>5
  <2> QED BY <2>1, <1>2, <1>4, <1>5
<1>6. ASSUME NEW i \in 1..k PROVE kv'[0][b + i - 1] = list[i].tok
  <2>1. \A j \in 1..k : b + j - 1 = b + i - 1 => j = i
    OBVIOUS
  <2>2. \A j \in DOMAIN list : list[j].seq = 0 /\ list[j].pos = list[i].pos => j = i
    BY <2>1
  <2>3. list[i].seq = 0 /\ list[i].pos = b + i - 1 /\ i \in DOMAIN list
    OBVIOUS
  <2>4. kv'[0][list[i].pos] = list[i].tok
    BY <2>2, <2>3, <1>2
  <2> QED BY <2>3, <2>4
<1>7. /\ logits' \in Seq([seq : SeqIds, pos : Nat, tok : Tokens])
      /\ DOMAIN logits' = 1..k
      /\ \A i \in 1..k : list[i].want =>
            logits'[i].tok = Predicted(kv'[list[i].seq], list[i].pos)
  BY DecodeLogits
<1>8. list[k].want => logits'[k].tok = Predicted(kv'[0], b + k - 1)
  <2>1. k \in 1..k /\ list[k].seq = 0 /\ list[k].pos = b + k - 1
    OBVIOUS
  <2>2. list[k].want => logits'[k].tok = Predicted(kv'[list[k].seq], list[k].pos)
    BY <2>1, <1>7
  <2> QED BY <2>1, <2>2
<1>9. ASSUME NEW p \in DOMAIN kv'[0] PROVE p \in 0..(NCtx - 1) /\ kv'[0][p] \in Tokens
  <2>1. CASE p \in b..(b + k - 1)
    <3>1. PICK i \in 1..k : b + i - 1 = p
      BY <1>3, <2>1
    <3>2. list[i].tok \in Tokens
      <4>1. i \in 1..Len(list)
        BY <3>1, LenProperties
      <4>2. list[i] \in [seq : SeqIds, tok : Tokens, pos : Nat, want : BOOLEAN]
        BY <4>1, ElementOfSeq
      <4> QED BY <4>2
    <3>3. p \in 0..(NCtx - 1)
      BY <2>1, SimpleAssumption
    <3> QED BY <3>1, <3>2, <3>3, <1>6
  <2>2. CASE p \notin b..(b + k - 1)
    BY <2>2, <1>4, <1>5 DEF CacheOK
  <2> QED BY <2>1, <2>2
<1>10. CacheOK'
  BY <1>1, <1>2, <1>7, <1>9 DEF CacheOK
<1> QED BY <1>4, <1>5, <1>6, <1>7, <1>8, <1>10

(* Who has the cache to itself extends its context, and the model continues *)
(* it.                                                                      *)
LEMMA OwnDecode ==
    ASSUME CacheOK, NEW r \in Requests, NEW b \in Nat, NEW k \in Nat \ {0}, b + k <= NCtx,
           NEW list \in Seq([seq : SeqIds, tok : Tokens, pos : Nat, want : BOOLEAN]),
           Decode(list), DOMAIN list = 1..k,
           \A i \in 1..k : /\ list[i].seq = 0 /\ list[i].pos = b + i - 1
                           /\ list[i].tok = <<r, b + i - 1>>,
           DOMAIN kv[0] = 0..(b - 1), \A p \in 0..(b - 1) : kv[0][p] = <<r, p>>
    PROVE  /\ DOMAIN kv'[0] = 0..(b + k - 1)
           /\ \A p \in 0..(b + k - 1) : kv'[0][p] = <<r, p>>
           /\ list[k].want => logits'[k].tok = <<r, b + k>>
<1>1. /\ \A p : p \in DOMAIN kv'[0] <=> p \in DOMAIN kv[0] \/ p \in b..(b + k - 1)
      /\ \A p \in DOMAIN kv[0] : p \notin b..(b + k - 1) => kv'[0][p] = kv[0][p]
      /\ \A i \in 1..k : kv'[0][b + i - 1] = list[i].tok
      /\ list[k].want => logits'[k].tok = Predicted(kv'[0], b + k - 1)
  <2>1. \A i \in 1..k : list[i].seq = 0 /\ list[i].pos = b + i - 1
    OBVIOUS
  <2> QED BY <2>1, DecodedCells, ZenonT(60)
<1>2. \A p : p \in 0..(b + k - 1) <=> p \in 0..(b - 1) \/ p \in b..(b + k - 1)
  OBVIOUS
<1>3. DOMAIN kv'[0] = 0..(b + k - 1)
  BY <1>1, <1>2
<1>4. ASSUME NEW p \in 0..(b + k - 1) PROVE kv'[0][p] = <<r, p>>
  <2>1. CASE p \in 0..(b - 1)
    <3>1. p \notin b..(b + k - 1)
      BY <2>1
    <3> QED BY <2>1, <3>1, <1>1
  <2>2. CASE p \in b..(b + k - 1)
    <3>1. PICK i \in 1..k : b + i - 1 = p
      <4>1. p - b + 1 \in 1..k /\ b + (p - b + 1) - 1 = p
        BY <2>2
      <4> QED BY <4>1
    <3> QED BY <3>1, <1>1
  <2> QED BY <2>1, <2>2, <1>2
<1>5. PICK n \in Nat : n = b + k - 1 /\ n + 1 = b + k
  OBVIOUS
<1>6. ASSUME NEW p \in 0..(n + 1 - 1) PROVE p \in DOMAIN kv'[0] /\ kv'[0][p] = <<r, p>>
  <2>1. p \in 0..(b + k - 1)
    BY <1>5
  <2> QED BY <2>1, <1>3, <1>4
<1>7. HoldsContext(kv'[0], r, n + 1)
  BY <1>6 DEF HoldsContext
<1>8. Predicted(kv'[0], n) = <<r, n + 1>>
  BY <1>7, PredictedNext
<1> QED BY <1>1, <1>3, <1>4, <1>5, <1>8

LEMMA NoLogits ==
    ASSUME CacheOK, NEW r, logitsIndex[r] = 0
    PROVE  ~ HasLogits(r)
<1>1. DOMAIN logits = 1..Len(logits) /\ Len(logits) \in Nat
  BY LenProperties DEF CacheOK
<1> QED BY <1>1 DEF HasLogits

LEMMA EmptiedCells ==
    ASSUME CacheOK, kv' = Emptied(kv, {0}), logits' = logits
    PROVE  CacheOK' /\ DOMAIN kv'[0] = {}
<1>1. DOMAIN kv' = {0} /\ kv'[0] = << >>
  BY SimpleAssumption DEF Emptied
<1>2. DOMAIN kv'[0] = {}
  <2>1. DOMAIN << >> = {}
    OBVIOUS
  <2> QED BY <1>1, <2>1
<1> QED BY <1>1, <1>2 DEF CacheOK

LEMMA BeginWorkStep ==
    ASSUME IInv, NEW r \in Requests, BeginWork(r)
    PROVE  IInv'
<1>1. /\ worker[r] = "begin" /\ stage' = [stage EXCEPT ![r] = "prefill"]
      /\ worker' = [worker EXCEPT ![r] = "prefill"]
      /\ kv' = Emptied(kv, {0})
      /\ UNCHANGED <<logits, loopVars, output, queue, pos, logitsIndex>>
  BY DEF BeginWork, Goto
<1>2. r \in Generating /\ UNCHANGED shape
  BY <1>1 DEF Generating, loopVars
<1>3. /\ shape[r].prompt \in Nat /\ pos[r] = 0 /\ output[r] = << >> /\ logitsIndex[r] = 0
      /\ queue[r] = output[r]
  BY <1>1, <1>2, GeneratingFits DEF WorkOK
<1>4. /\ worker' \in [Requests -> {"off", "begin", "prefill", "sample", "decode",
                                   "end", "returned"}]
      /\ stage' \in [Requests -> {"new", "refused", "queued", "prefill", "decode",
                                  "done", "aborted"}]
      /\ worker'[r] = "prefill" /\ stage'[r] = "prefill"
      /\ \A q \in Requests : q # r => worker'[q] = worker[q] /\ stage'[q] = stage[q]
  BY <1>1 DEF IInv, StageOK
<1>5. CacheOK' /\ DOMAIN kv'[0] = {}
  BY <1>1, EmptiedCells DEF IInv
<1>6. (WorkOK(r))'
  BY <1>1, <1>2, <1>3, <1>4 DEF WorkOK
<1>7. OutputExact(r) => (OutputExact(r))'
  BY <1>1, <1>2 DEF OutputExact
<1>8. (Undisturbed(r))'
  <2>1. (Cached(r))'
    <3>1. 0..(0 - 1) = {}
      OBVIOUS
    <3>2. pos'[r] = 0
      BY <1>1, <1>3
    <3> QED BY <1>5, <3>1, <3>2 DEF Cached
  <2>2. ~ (HasLogits(r))'
    <3>1. ~ HasLogits(r)
      BY <1>3, NoLogits DEF IInv
    <3> QED BY <1>1, <3>1 DEF HasLogits
  <2> QED BY <1>4, <2>1, <2>2 DEF Undisturbed, ReadsNext
<1>9. ThreadsOK
  BY DEF IInv
<1> QED BY <1>1, <1>2, <1>4, <1>5, <1>6, <1>7, <1>8, <1>9, WorkerStep DEF ThreadsOK

(* A step that only moves the thread on, to the end or to the first token. *)
LEMMA MoveStep ==
    ASSUME IInv, NEW r \in Requests, r \in Generating,
           NEW where \in {"sample", "end"}, NEW how \in {"decode", "done", "aborted"},
           stage' = [stage EXCEPT ![r] = how], Goto(r, where),
           worker[r] # "begin",
           where = "sample" => worker[r] = "prefill" /\ pos[r] >= shape[r].prompt,
           UNCHANGED <<backendVars, loopVars, output, queue, pos, logitsIndex>>
    PROVE  IInv'
<1>1. UNCHANGED <<kv, logits, shape>> /\ worker' = [worker EXCEPT ![r] = where]
  BY DEF backendVars, loopVars, Goto
<1>2. /\ worker' \in [Requests -> {"off", "begin", "prefill", "sample", "decode",
                                   "end", "returned"}]
      /\ stage' \in [Requests -> {"new", "refused", "queued", "prefill", "decode",
                                  "done", "aborted"}]
      /\ worker'[r] = where /\ stage'[r] = how
      /\ \A q \in Requests : q # r => worker'[q] = worker[q] /\ stage'[q] = stage[q]
  BY <1>1 DEF IInv, StageOK
<1>3. /\ shape[r].prompt \in Nat /\ shape[r].maxTokens \in Nat /\ pos[r] \in Nat
      /\ WorkOK(r) /\ worker[r] # "returned"
  BY GeneratingFits DEF Generating
<1>4. where = "sample" => output[r] = << >> /\ pos[r] = shape[r].prompt /\ Len(output[r]) = 0
  <2>1. where = "sample" => output[r] = << >> /\ pos[r] = shape[r].prompt
    BY <1>3 DEF WorkOK
  <2> QED BY <2>1, EmptyList
<1>5. CacheOK'
  BY <1>1 DEF IInv, CacheOK
<1>6. (WorkOK(r))'
  BY <1>1, <1>2, <1>3, <1>4 DEF WorkOK
<1>7. OutputExact(r) => (OutputExact(r))'
  BY <1>1 DEF OutputExact
<1>8. ASSUME Undisturbed(r) PROVE (Undisturbed(r))'
  <2>1. (Cached(r))' <=> Cached(r)
    BY <1>1 DEF Cached
  <2>2. (ReadsNext(r))' <=> ReadsNext(r)
    BY <1>1 DEF ReadsNext, HasLogits
  <2>3. Cached(r)
    BY <1>8 DEF Undisturbed
  <2>4. where = "sample" => ReadsNext(r)
    BY <1>4, <1>8 DEF Undisturbed
  <2> QED BY <1>2, <2>1, <2>2, <2>3, <2>4 DEF Undisturbed
<1>9. ThreadsOK
  BY DEF IInv
<1> QED BY <1>1, <1>2, <1>5, <1>6, <1>7, <1>8, <1>9, WorkerStep DEF ThreadsOK

LEMMA SampleTokenStep ==
    ASSUME IInv, NEW r \in Requests, SampleToken(r)
    PROVE  IInv'
<1>1. PICK tok : tok = logits[logitsIndex[r]].tok
  OBVIOUS
<1>2. PICK where \in {"end", "decode"}, how \in {"done", stage[r]} :
        /\ worker' = [worker EXCEPT ![r] = where] /\ stage' = [stage EXCEPT ![r] = how]
        /\ how = IF where = "end" THEN "done" ELSE stage[r]
  <2>1. CASE stage' = [stage EXCEPT ![r] = "done"] /\ Goto(r, "end")
    BY <2>1 DEF Goto
  <2>2. CASE Goto(r, "decode") /\ UNCHANGED stage
    <3>1. stage' = [stage EXCEPT ![r] = stage[r]]
      BY <2>2 DEF IInv, StageOK
    <3> QED BY <2>2, <3>1 DEF Goto
  <2> QED BY <2>1, <2>2 DEF SampleToken
<1>3. /\ worker[r] = "sample" /\ HasLogits(r) /\ Len(output[r]) < shape[r].maxTokens
      /\ output' = [output EXCEPT ![r] = Append(output[r], tok)]
      /\ queue' = [queue EXCEPT ![r] = Append(queue[r], tok)]
      /\ UNCHANGED <<backendVars, loopVars, pos, logitsIndex>>
  BY <1>1 DEF SampleToken
<1>4. UNCHANGED <<kv, logits, shape>>
  BY <1>3 DEF backendVars, loopVars
<1>5. /\ r \in Generating /\ shape[r].prompt \in Nat /\ shape[r].maxTokens \in Nat
      /\ pos[r] \in Nat /\ output[r] \in Seq(Tokens) /\ Len(output[r]) \in Nat
      /\ queue[r] = output[r] /\ pos[r] = shape[r].prompt + Len(output[r])
  <2>1. r \in Generating
    BY <1>3 DEF Generating
  <2> QED BY <1>3, <2>1, GeneratingFits DEF WorkOK
<1>6. client[r] # "none" /\ stage[r] \notin {"new", "refused"}
  BY <1>5, GeneratingStreams DEF IInv, StageOK
<1>7. /\ worker' \in [Requests -> {"off", "begin", "prefill", "sample", "decode",
                                   "end", "returned"}]
      /\ stage' \in [Requests -> {"new", "refused", "queued", "prefill", "decode",
                                  "done", "aborted"}]
      /\ worker'[r] = where /\ stage'[r] \notin {"new", "refused"}
      /\ \A q \in Requests : q # r => worker'[q] = worker[q] /\ stage'[q] = stage[q]
  BY <1>2, <1>6 DEF IInv, StageOK
<1>8. tok \in Tokens
  <2>1. PICK i : i = logitsIndex[r]
    OBVIOUS
  <2>2. logits \in Seq([seq : SeqIds, pos : Nat, tok : Tokens])
    BY DEF IInv, CacheOK
  <2>3. i \in 1..Len(logits)
    BY <2>1, <2>2, <1>3, LenProperties DEF HasLogits
  <2>4. logits[i] \in [seq : SeqIds, pos : Nat, tok : Tokens]
    BY <2>2, <2>3, ElementOfSeq
  <2> QED BY <2>1, <2>4, <1>1
<1>9. PICK out : out = Append(output[r], tok)
  OBVIOUS
<1>10. /\ out \in Seq(Tokens) /\ out \in Seq(Tokens \cup {SENTINEL})
       /\ Len(out) = Len(output[r]) + 1 /\ out[Len(out)] = tok
       /\ \A i \in 1..Len(output[r]) : out[i] = output[r][i]
  <2>1. /\ out \in Seq(Tokens) /\ Len(out) = Len(output[r]) + 1
        /\ out[Len(output[r]) + 1] = tok
        /\ \A i \in 1..Len(output[r]) : out[i] = output[r][i]
    BY <1>5, <1>8, <1>9, AppendProperties
  <2> QED BY <2>1
<1>11. /\ output' \in [Requests -> Seq(Tokens)]
       /\ queue' \in [Requests -> Seq(Tokens \cup {SENTINEL})]
       /\ output'[r] = out /\ queue'[r] = out
       /\ \A q \in Requests : q # r => output'[q] = output[q] /\ queue'[q] = queue[q]
  <2>1. /\ output \in [Requests -> Seq(Tokens)]
        /\ queue \in [Requests -> Seq(Tokens \cup {SENTINEL})]
    BY DEF IInv, ThreadsOK
  <2>2. output' = [output EXCEPT ![r] = out] /\ queue' = [queue EXCEPT ![r] = out]
    BY <1>3, <1>5, <1>9
  <2> QED BY <2>1, <2>2, <1>10
<1>12. CacheOK'
  BY <1>4 DEF IInv, CacheOK
<1>13. (WorkOK(r))'
  <2>1. Len(out) \in 1..shape[r].maxTokens /\ pos[r] = shape[r].prompt + Len(out) - 1
    BY <1>3, <1>5, <1>10
  <2> QED BY <2>1, <1>3, <1>4, <1>7, <1>11 DEF WorkOK
<1>14. ASSUME Undisturbed(r), OutputExact(r) PROVE (OutputExact(r))' /\ (Undisturbed(r))'
  <2>1. tok = <<r, shape[r].prompt + Len(output[r])>>
    BY <1>1, <1>3, <1>14 DEF Undisturbed, ReadsNext
  <2>2. ASSUME NEW i \in 1..Len(out) PROVE out[i] = <<r, shape[r].prompt + i - 1>>
    <3>1. CASE i \in 1..Len(output[r])
      BY <3>1, <1>10, <1>14 DEF OutputExact
    <3>2. CASE i = Len(out)
      <4>1. shape[r].prompt + i - 1 = shape[r].prompt + Len(output[r])
        BY <3>2, <1>5, <1>10
      <4> QED BY <3>2, <4>1, <2>1, <1>10
    <3>3. i \in 1..Len(output[r]) \/ i = Len(out)
      BY <1>5, <1>10
    <3> QED BY <3>1, <3>2, <3>3
  <2>3. (OutputExact(r))'
    BY <2>2, <1>4, <1>11 DEF OutputExact
  <2>4. Cached(r)
    BY <1>3, <1>14 DEF Undisturbed
  <2>5. (Cached(r))'
    BY <2>4, <1>3, <1>4 DEF Cached
  <2> QED BY <2>3, <2>5, <1>7 DEF Undisturbed
<1>15. /\ worker'[r] \notin {"off", "begin"} /\ UNCHANGED loopVars
       /\ pos' \in [Requests -> 0..NCtx] /\ logitsIndex' \in [Requests -> Nat]
       /\ \A q \in Requests : pos'[q] = pos[q] /\ logitsIndex'[q] = logitsIndex[q]
  BY <1>3, <1>7 DEF IInv, ThreadsOK
<1> QED BY <1>5, <1>7, <1>11, <1>12, <1>13, <1>14, <1>15, WorkerStep

LEMMA EndWorkStep ==
    ASSUME IInv, NEW r \in Requests, EndWork(r)
    PROVE  IInv'
<1>1. /\ worker[r] = "end" /\ worker' = [worker EXCEPT ![r] = "returned"]
      /\ kv' = Emptied(kv, {0}) /\ queue' = [queue EXCEPT ![r] = Append(queue[r], SENTINEL)]
      /\ UNCHANGED <<logits, loopVars, stage, output, pos, logitsIndex>>
  BY DEF EndWork, Goto
<1>2. UNCHANGED shape
  BY <1>1 DEF loopVars
<1>3. r \in Generating /\ output[r] \in Seq(Tokens) /\ queue[r] = output[r]
  <2>1. r \in Generating
    BY <1>1 DEF Generating
  <2> QED BY <1>1, <2>1, GeneratingFits DEF WorkOK
<1>4. client[r] # "none" /\ stage[r] \notin {"new", "refused"}
  BY <1>3, GeneratingStreams DEF IInv, StageOK
<1>5. /\ worker' \in [Requests -> {"off", "begin", "prefill", "sample", "decode",
                                   "end", "returned"}]
      /\ worker'[r] = "returned" /\ \A q \in Requests : q # r => worker'[q] = worker[q]
      /\ stage' \in [Requests -> {"new", "refused", "queued", "prefill", "decode",
                                  "done", "aborted"}]
      /\ stage'[r] \notin {"new", "refused"}
  BY <1>1, <1>4 DEF IInv, StageOK
<1>6. PICK full : full = Append(output[r], SENTINEL)
  OBVIOUS
<1>7. full \in Seq(Tokens \cup {SENTINEL})
  BY <1>3, <1>6, StreamEnd
<1>8. /\ queue' \in [Requests -> Seq(Tokens \cup {SENTINEL})]
      /\ queue'[r] = full /\ \A q \in Requests : q # r => queue'[q] = queue[q]
  <2>1. queue \in [Requests -> Seq(Tokens \cup {SENTINEL})]
    BY DEF IInv, ThreadsOK
  <2>2. queue' = [queue EXCEPT ![r] = full]
    BY <1>1, <1>3, <1>6
  <2> QED BY <2>1, <2>2, <1>7
<1>9. CacheOK'
  BY <1>1, EmptiedCells DEF IInv
<1>10. (WorkOK(r))'
  BY <1>1, <1>5, <1>6, <1>8 DEF WorkOK
<1>11. OutputExact(r) => (OutputExact(r))'
  BY <1>1, <1>2 DEF OutputExact
<1>12. /\ output' \in [Requests -> Seq(Tokens)] /\ pos' \in [Requests -> 0..NCtx]
       /\ logitsIndex' \in [Requests -> Nat] /\ UNCHANGED loopVars
       /\ \A q \in Requests : /\ output'[q] = output[q] /\ pos'[q] = pos[q]
                              /\ logitsIndex'[q] = logitsIndex[q] /\ stage'[q] = stage[q]
  BY <1>1 DEF IInv, ThreadsOK
<1> QED BY <1>3, <1>5, <1>8, <1>9, <1>10, <1>11, <1>12, WorkerStep

(* A decode of a thread that has the cache to itself: what is left to show *)
(* is where the thread has come.                                           *)
LEMMA ThreadDecodes ==
    ASSUME IInv, NEW r \in Requests, r \in Generating, UNCHANGED loopVars,
           NEW k \in Nat \ {0}, pos[r] + k <= NCtx,
           NEW where \in {"prefill", "sample"},
           NEW list \in Seq([seq : SeqIds, tok : Tokens, pos : Nat, want : BOOLEAN]),
           Decode(list), DOMAIN list = 1..k,
           \A i \in 1..k : list[i].seq = 0 /\ list[i].pos = pos[r] + i - 1,
           worker[r] # "begin",
           worker' = [worker EXCEPT ![r] = where],
           pos' = [pos EXCEPT ![r] = pos[r] + k],
           logitsIndex' = [logitsIndex EXCEPT ![r] = k],
           UNCHANGED <<stage, output, queue>>,
           (WorkOK(r))',
           Undisturbed(r) /\ OutputExact(r) =>
              \A i \in 1..k : list[i].tok = <<r, pos[r] + i - 1>>,
           where = "sample" \/ pos[r] + k = shape[r].prompt =>
              list[k].want /\ pos[r] + k = shape[r].prompt + Len(output[r])
    PROVE  IInv'
<1>1. PICK b \in Nat : b = pos[r] /\ b + k = pos[r] + k
  BY GeneratingFits
<1>2. b + k <= NCtx /\ b + k \in 0..NCtx /\ UNCHANGED shape
  BY <1>1, SimpleAssumption DEF loopVars
<1>3. client[r] # "none" /\ stage[r] \notin {"new", "refused"}
  BY GeneratingStreams DEF IInv, StageOK
<1>4. /\ worker' \in [Requests -> {"off", "begin", "prefill", "sample", "decode",
                                   "end", "returned"}]
      /\ worker'[r] = where
      /\ stage' \in [Requests -> {"new", "refused", "queued", "prefill", "decode",
                                  "done", "aborted"}]
      /\ stage'[r] \notin {"new", "refused"}
      /\ \A q \in Requests : q # r => worker'[q] = worker[q] /\ stage'[q] = stage[q]
  BY <1>3 DEF IInv, StageOK
<1>5. /\ output' \in [Requests -> Seq(Tokens)]
      /\ queue' \in [Requests -> Seq(Tokens \cup {SENTINEL})]
      /\ pos' \in [Requests -> 0..NCtx] /\ pos'[r] = b + k
      /\ logitsIndex' \in [Requests -> Nat] /\ logitsIndex'[r] = k
      /\ \A q \in Requests : q # r =>
            /\ output'[q] = output[q] /\ queue'[q] = queue[q] /\ pos'[q] = pos[q]
            /\ logitsIndex'[q] = logitsIndex[q]
  BY <1>1, <1>2 DEF IInv, ThreadsOK
<1>6. \A i \in 1..k : list[i].seq = 0 /\ list[i].pos = b + i - 1
  BY <1>1
<1>7. CacheOK' /\ DOMAIN logits' = 1..k
  BY <1>2, <1>6, DecodedCells DEF IInv
<1>8. ASSUME Undisturbed(r), OutputExact(r) PROVE (OutputExact(r))' /\ (Undisturbed(r))'
  <2>1. DOMAIN kv[0] = 0..(b - 1) /\ \A p \in 0..(b - 1) : kv[0][p] = <<r, p>>
    BY <1>1, <1>8 DEF Undisturbed, Cached
  <2>2. \A i \in 1..k : /\ list[i].seq = 0 /\ list[i].pos = b + i - 1
                        /\ list[i].tok = <<r, b + i - 1>>
    BY <1>1, <1>6, <1>8
  <2>3. /\ DOMAIN kv'[0] = 0..(b + k - 1)
        /\ \A p \in 0..(b + k - 1) : kv'[0][p] = <<r, p>>
        /\ list[k].want => logits'[k].tok = <<r, b + k>>
    <3>1. CacheOK /\ b + k <= NCtx
      BY <1>2 DEF IInv
    <3> QED BY <3>1, <2>1, <2>2, OwnDecode, ZenonT(60)
  <2>4. (Cached(r))'
    BY <2>3, <1>5 DEF Cached
  <2>5. where = "sample" \/ b + k = shape[r].prompt => (ReadsNext(r))'
    <3> SUFFICES ASSUME where = "sample" \/ b + k = shape[r].prompt
                 PROVE  logits'[k].tok = <<r, shape[r].prompt + Len(output[r])>>
      BY <1>2, <1>5 DEF ReadsNext
    <3>1. list[k].want /\ b + k = shape[r].prompt + Len(output[r])
      BY <1>1
    <3> QED BY <3>1, <2>3
  <2>6. (Undisturbed(r))'
    BY <2>4, <2>5, <1>2, <1>4, <1>5 DEF Undisturbed
  <2>7. (OutputExact(r))'
    BY <1>2, <1>8 DEF OutputExact
  <2> QED BY <2>6, <2>7
<1> QED BY <1>4, <1>5, <1>7, <1>8, WorkerStep

LEMMA DecodeTokenStep ==
    ASSUME IInv, NEW r \in Requests, DecodeToken(r)
    PROVE  IInv'
<1>1. PICK list : list = <<TokenSlot(0, Last(output[r]), pos[r], TRUE)>>
  OBVIOUS
<1>2. /\ worker[r] = "decode" /\ worker' = [worker EXCEPT ![r] = "sample"]
      /\ Decode(list) /\ logitsIndex' = [logitsIndex EXCEPT ![r] = 1]
      /\ pos' = [pos EXCEPT ![r] = pos[r] + 1]
      /\ UNCHANGED <<loopVars, stage, output, queue>>
  BY <1>1 DEF DecodeToken, Goto, requestVars
<1>3. r \in Generating /\ UNCHANGED shape
  BY <1>2 DEF Generating, loopVars
<1>4. PICK n \in Nat : n = Len(output[r])
  BY <1>3, GeneratingFits
<1>5. /\ shape[r].prompt \in Nat /\ shape[r].maxTokens \in Nat /\ NCtx \in Nat
      /\ shape[r].prompt + shape[r].maxTokens <= NCtx
      /\ output[r] \in Seq(Tokens) /\ pos[r] \in Nat
      /\ pos[r] = shape[r].prompt + n - 1 /\ n \in 1..shape[r].maxTokens
      /\ queue[r] = output[r]
  BY <1>2, <1>3, <1>4, GeneratingFits DEF WorkOK
<1>6. Last(output[r]) = output[r][n] /\ output[r][n] \in Tokens
  BY <1>4, <1>5, ElementOfSeq DEF Last
<1>7. /\ list \in Seq([seq : SeqIds, tok : Tokens, pos : Nat, want : BOOLEAN])
      /\ DOMAIN list = 1..1 /\ list[1].seq = 0 /\ list[1].pos = pos[r]
      /\ list[1].tok = output[r][n] /\ list[1].want
  <2>1. TokenSlot(0, Last(output[r]), pos[r], TRUE)
           \in [seq : SeqIds, tok : Tokens, pos : Nat, want : BOOLEAN]
    BY <1>5, <1>6, SimpleAssumption DEF TokenSlot
  <2>2. PICK e \in [seq : SeqIds, tok : Tokens, pos : Nat, want : BOOLEAN] :
           e = TokenSlot(0, Last(output[r]), pos[r], TRUE)
    BY <2>1
  <2>3. list = <<e>>
    BY <1>1, <2>2
  <2>4. /\ list \in Seq([seq : SeqIds, tok : Tokens, pos : Nat, want : BOOLEAN])
        /\ DOMAIN list = 1..1 /\ list[1] = e
    BY <2>3
  <2> QED BY <2>2, <2>4, <1>6 DEF TokenSlot
<1>8. \A i \in 1..1 : list[i].seq = 0 /\ list[i].pos = pos[r] + i - 1
  BY <1>5, <1>7
<1>9. pos[r] + 1 <= NCtx /\ pos[r] + 1 = shape[r].prompt + Len(output[r])
  <2>1. PICK p \in Nat, m \in Nat : p = shape[r].prompt /\ m = shape[r].maxTokens
    BY <1>5
  <2>2. p + m <= NCtx /\ pos[r] = p + n - 1 /\ n \in 1..m /\ pos[r] \in Nat /\ NCtx \in Nat
    BY <2>1, <1>5
  <2>3. pos[r] + 1 <= NCtx /\ pos[r] + 1 = p + n
    BY <2>2
  <2> QED BY <2>1, <2>3, <1>4
<1>10. (WorkOK(r))'
  <2>1. /\ worker'[r] = "sample" /\ pos'[r] = shape[r].prompt + Len(output[r])
        /\ Len(output[r]) <= shape[r].maxTokens
    BY <1>2, <1>4, <1>5, <1>9 DEF IInv, StageOK, ThreadsOK
  <2> QED BY <2>1, <1>2, <1>3, <1>5 DEF WorkOK
<1>11. OutputExact(r) => \A i \in 1..1 : list[i].tok = <<r, pos[r] + i - 1>>
  <2> SUFFICES ASSUME OutputExact(r) PROVE output[r][n] = <<r, pos[r]>>
    BY <1>5, <1>7
  <2>1. output[r][n] = <<r, shape[r].prompt + n - 1>>
    BY <1>4, <1>5 DEF OutputExact
  <2> QED BY <2>1, <1>5
<1>12. 1 \in Nat \ {0} /\ "sample" \in {"prefill", "sample"}
  OBVIOUS
<1> QED BY <1>2, <1>3, <1>7, <1>8, <1>9, <1>10, <1>11, <1>12, ThreadDecodes

LEMMA PartBounds ==
    ASSUME IInv, NEW r \in Generating, pos[r] < shape[r].prompt
    PROVE  /\ PartEnd(r) \in Nat /\ pos[r] \in Nat /\ pos[r] < PartEnd(r)
           /\ PartEnd(r) <= shape[r].prompt /\ shape[r].prompt \in Nat
<1>1. ChunkSize \in Nat \ {0}
  BY SimpleAssumption DEF ChunkSize
<1>2. pos[r] \in Nat /\ shape[r].prompt \in Nat
  BY GeneratingFits
<1> QED BY <1>1, <1>2 DEF PartEnd

(* The slots of a chunk: the next k prompt tokens of r, in order. *)
LEMMA PartSlots ==
    ASSUME NEW r \in Requests, NEW b \in Nat, NEW k \in Nat, shape[r].prompt \in Nat,
           pos[r] = b, PartEnd(r) = b + k, b + k <= shape[r].prompt
    PROVE  /\ Part(r) \in Seq([seq : SeqIds, tok : Tokens, pos : Nat, want : BOOLEAN])
           /\ DOMAIN Part(r) = 1..k
           /\ \A i \in 1..k : /\ Part(r)[i].seq = 0 /\ Part(r)[i].tok = <<r, b + i - 1>>
                              /\ Part(r)[i].pos = b + i - 1
                              /\ Part(r)[i].want = (b + i = shape[r].prompt)
<1>1. PICK list : list = Part(r)
  OBVIOUS
<1>2. PartEnd(r) - pos[r] = k
  OBVIOUS
<1>3. list = [i \in 1..k |-> TokenSlot(0, PromptTokens(r)[b + i], b + i - 1,
                                       b + i = shape[r].prompt)]
  BY <1>1, <1>2 DEF Part
<1>4. ASSUME NEW i \in 1..k
      PROVE  /\ list[i].seq = 0 /\ list[i].tok = <<r, b + i - 1>>
             /\ list[i].pos = b + i - 1 /\ list[i].want = (b + i = shape[r].prompt)
             /\ list[i] \in [seq : SeqIds, tok : Tokens, pos : Nat, want : BOOLEAN]
  <2>1. b + i \in 1..shape[r].prompt /\ b + i - 1 \in Nat
    OBVIOUS
  <2>2. PromptTokens(r)[b + i] = <<r, b + i - 1>>
    <3>1. PICK p : p = b + i
      OBVIOUS
    <3>2. PromptTokens(r)[p] = <<r, p - 1>>
      BY <2>1, <3>1 DEF PromptTokens
    <3>3. p - 1 = b + i - 1
      BY <3>1
    <3> QED BY <3>1, <3>2, <3>3
  <2>3. <<r, b + i - 1>> \in Tokens
    BY <2>1 DEF Tokens
  <2>4. list[i] = TokenSlot(0, <<r, b + i - 1>>, b + i - 1, b + i = shape[r].prompt)
    BY <1>3, <2>2
  <2> QED BY <2>1, <2>3, <2>4, SimpleAssumption DEF TokenSlot
<1>5. /\ list \in Seq([seq : SeqIds, tok : Tokens, pos : Nat, want : BOOLEAN])
      /\ DOMAIN list = 1..k
  <2>1. list \in [1..k -> [seq : SeqIds, tok : Tokens, pos : Nat, want : BOOLEAN]]
    BY <1>3, <1>4
  <2> QED BY <2>1, SeqOfFunction
<1> QED BY <1>1, <1>4, <1>5

LEMMA PrefillChunkStep ==
    ASSUME IInv, NEW r \in Requests, PrefillChunk(r)
    PROVE  IInv'
<1>1. PICK list : list = Part(r)
  OBVIOUS
<1>2. worker[r] = "prefill" /\ pos[r] < shape[r].prompt /\ r \in Generating
  BY DEF PrefillChunk, Generating
<1>3. PICK b \in Nat, k \in Nat \ {0} :
         /\ pos[r] = b /\ PartEnd(r) = b + k /\ PartEnd(r) - pos[r] = k
         /\ b + k <= shape[r].prompt /\ shape[r].prompt \in Nat
  <2>1. /\ PartEnd(r) \in Nat /\ pos[r] \in Nat /\ pos[r] < PartEnd(r)
        /\ PartEnd(r) <= shape[r].prompt /\ shape[r].prompt \in Nat
    BY <1>2, PartBounds
  <2>2. /\ PartEnd(r) - pos[r] \in Nat \ {0}
        /\ PartEnd(r) = pos[r] + (PartEnd(r) - pos[r])
    BY <2>1
  <2> QED BY <2>1, <2>2
<1>4. /\ worker' = [worker EXCEPT ![r] = "prefill"]
      /\ Decode(list) /\ logitsIndex' = [logitsIndex EXCEPT ![r] = k]
      /\ pos' = [pos EXCEPT ![r] = pos[r] + k]
      /\ UNCHANGED <<loopVars, stage, output, queue>> /\ UNCHANGED worker
  <2>1. worker' = worker /\ worker' = [worker EXCEPT ![r] = "prefill"]
    BY <1>2 DEF PrefillChunk, IInv, StageOK
  <2> QED BY <2>1, <1>1, <1>3 DEF PrefillChunk, requestVars
<1>5. UNCHANGED shape
  BY <1>4 DEF loopVars
<1>6. /\ list \in Seq([seq : SeqIds, tok : Tokens, pos : Nat, want : BOOLEAN])
      /\ DOMAIN list = 1..k
      /\ \A i \in 1..k : /\ list[i].seq = 0 /\ list[i].tok = <<r, b + i - 1>>
                         /\ list[i].pos = b + i - 1
                         /\ list[i].want = (b + i = shape[r].prompt)
  <2>1. /\ pos[r] = b /\ PartEnd(r) = b + k /\ b + k <= shape[r].prompt
        /\ b \in Nat /\ k \in Nat /\ shape[r].prompt \in Nat
    BY <1>3
  <2>2. /\ Part(r) \in Seq([seq : SeqIds, tok : Tokens, pos : Nat, want : BOOLEAN])
        /\ DOMAIN Part(r) = 1..k
        /\ \A i \in 1..k : /\ Part(r)[i].seq = 0 /\ Part(r)[i].tok = <<r, b + i - 1>>
                           /\ Part(r)[i].pos = b + i - 1
                           /\ Part(r)[i].want = (b + i = shape[r].prompt)
    BY <2>1, PartSlots, Zenon
  <2> QED BY <2>2, <1>1, Zenon
<1>7. \A i \in 1..k : /\ list[i].seq = 0 /\ list[i].pos = pos[r] + i - 1
                      /\ list[i].tok = <<r, pos[r] + i - 1>>
  BY <1>3, <1>6
<1>8. /\ output[r] = << >> /\ Len(output[r]) = 0 /\ queue[r] = output[r]
      /\ shape[r].prompt <= NCtx /\ NCtx \in Nat /\ pos[r] + k <= NCtx
  <2>1. output[r] = << >> /\ queue[r] = output[r]
    BY <1>2, GeneratingFits DEF WorkOK
  <2>2. /\ shape[r].prompt + shape[r].maxTokens <= NCtx /\ NCtx \in Nat
        /\ shape[r].maxTokens \in Nat
    BY <1>2, GeneratingFits
  <2> QED BY <1>3, <2>1, <2>2, EmptyList
<1>9. (WorkOK(r))'
  <2>1. worker'[r] = "prefill" /\ pos'[r] = b + k
    BY <1>2, <1>3, <1>4 DEF IInv, ThreadsOK
  <2>2. b + k # 0
    BY <1>3
  <2> QED BY <2>1, <2>2, <1>3, <1>4, <1>5, <1>8 DEF WorkOK
<1>10. pos[r] + k = shape[r].prompt =>
          list[k].want /\ pos[r] + k = shape[r].prompt + Len(output[r])
  <2> SUFFICES ASSUME pos[r] + k = shape[r].prompt
               PROVE  list[k].want /\ shape[r].prompt = shape[r].prompt + Len(output[r])
    OBVIOUS
  <2>1. list[k].want = (b + k = shape[r].prompt)
    BY <1>3, <1>6
  <2>2. b + k = shape[r].prompt
    BY <1>3
  <2>3. list[k].want
    BY <2>1, <2>2, Zenon
  <2> QED BY <2>3, <1>3, <1>8
<1>11. k \in Nat \ {0} /\ "prefill" \in {"prefill", "sample"} /\ "prefill" # "sample"
  BY <1>3
<1>12. /\ \A i \in 1..k : list[i].seq = 0 /\ list[i].pos = pos[r] + i - 1
       /\ \A i \in 1..k : list[i].tok = <<r, pos[r] + i - 1>>
  BY <1>7
<1> QED BY <1>2, <1>4, <1>6, <1>8, <1>9, <1>10, <1>11, <1>12, ThreadDecodes

(* The steps that only move a thread on. *)
LEMMA MoveSteps ==
    ASSUME IInv, NEW r \in Requests,
           PrefillDone(r) \/ SampleEos(r) \/ LimitReached(r) \/ WorkFails(r)
    PROVE  IInv'
<1>1. CASE PrefillDone(r)
  <2>1. r \in Generating /\ worker[r] = "prefill"
    BY <1>1 DEF PrefillDone, Generating
  <2> QED BY <1>1, <2>1, MoveStep DEF PrefillDone
<1>2. CASE SampleEos(r) \/ LimitReached(r)
  <2>1. r \in Generating /\ worker[r] = "sample"
    BY <1>2 DEF SampleEos, LimitReached, Generating
  <2>2. /\ stage' = [stage EXCEPT ![r] = "done"] /\ Goto(r, "end")
        /\ UNCHANGED <<backendVars, loopVars, output, queue, pos, logitsIndex>>
    BY <1>2 DEF SampleEos, LimitReached
  <2> QED BY <2>1, <2>2, MoveStep
<1>3. CASE WorkFails(r)
  <2>1. r \in Generating /\ worker[r] # "begin"
    BY <1>3 DEF WorkFails, Generating
  <2> QED BY <1>3, <2>1, MoveStep DEF WorkFails
<1> QED BY <1>1, <1>2, <1>3
-----------------------------------------------------------------------------
LEMMA InitHolds == Init => IInv
<1> SUFFICES ASSUME Init PROVE IInv
  OBVIOUS
<1>1. /\ kv = [s \in SeqIds |-> << >>] /\ logits = << >>
      /\ arrived = 0 /\ pendingN = 0 /\ line = << >>
      /\ client = [r \in Requests |-> "none"]
      /\ shape = [r \in Requests |-> [prompt |-> 0, maxTokens |-> 1]]
      /\ stage = [r \in Requests |-> "new"]
      /\ output = [r \in Requests |-> << >>]
      /\ queue = [r \in Requests |-> << >>]
      /\ worker = [r \in Requests |-> "off"]
      /\ pos = [r \in Requests |-> 0]
      /\ logitsIndex = [r \in Requests |-> 0]
  BY DEF Init
<1>2. LoopOK
  <2>1. IsInjective(line) /\ line \in Seq(Requests) /\ ToSet(line) = {}
    BY <1>1, EmptyList DEF IsInjective
  <2>2. Present = {}
    BY <1>1 DEF Present
  <2>3. IsFiniteSet(Present) /\ Cardinality(Present) = 0
    BY <2>2, FS_EmptySet
  <2>4. arrived \in 0..NumRequests /\ pendingN \in 0..MaxQueue
    BY <1>1, SimpleAssumption
  <2> QED BY <1>1, <2>1, <2>3, <2>4 DEF LoopOK, Shaped
<1>3. StageOK
  BY <1>1 DEF StageOK
<1>4. ThreadsOK
  <2>1. \A r \in Requests : WorkOK(r)
    BY <1>1 DEF WorkOK
  <2>2. pos \in [Requests -> 0..NCtx]
    BY <1>1, SimpleAssumption
  <2> QED BY <1>1, <2>1, <2>2, EmptyList DEF ThreadsOK
<1>5. CacheOK
  <2>1. DOMAIN kv = {0} /\ kv[0] = << >>
    BY <1>1, SimpleAssumption
  <2>2. DOMAIN << >> = {}
    OBVIOUS
  <2> QED BY <1>1, <2>1, <2>2, EmptyList DEF CacheOK
<1>6. Serial
  <2>1. Generating = {}
    BY <1>1 DEF Generating
  <2>2. \A r \in Requests : Len(output[r]) = 0
    BY <1>1, EmptyList
  <2> QED BY <2>1, <2>2 DEF Serial, OutputExact
<1> QED BY <1>2, <1>3, <1>4, <1>5, <1>6 DEF IInv

LEMMA NextKeeps == IInv /\ [Next]_vars => IInv'
<1> SUFFICES ASSUME IInv, [Next]_vars PROVE IInv'
  OBVIOUS
<1>1. CASE Submit
  BY <1>1, SubmitStep
<1>2. ASSUME NEW r \in Requests, EventLoop(r) PROVE IInv'
  BY <1>2, StreamBeginsStep, StartWorkerStep, StreamEndsStep DEF EventLoop
<1>3. ASSUME NEW r \in Requests, Worker(r) PROVE IInv'
  BY <1>3, BeginWorkStep, PrefillChunkStep, MoveSteps, SampleTokenStep, DecodeTokenStep,
     EndWorkStep DEF Worker
<1>4. ASSUME NEW r \in Requests, Disconnect(r) PROVE IInv'
  BY <1>4, DisconnectStep
<1>5. CASE UNCHANGED vars
  <2>1. /\ UNCHANGED <<backendVars, output, queue, worker, pos, logitsIndex>>
        /\ UNCHANGED <<arrived, pendingN, line, client, shape, stage>>
    BY <1>5 DEF vars
  <2>2. LoopOK' /\ StageOK'
    BY <2>1 DEF IInv, LoopOK, StageOK, Present, Fits
  <2>3. ThreadsOK' /\ CacheOK' /\ Serial'
    BY <2>1, SerialKept DEF Gone, HoldsGate
  <2> QED BY <2>2, <2>3 DEF IInv
<1> QED BY <1>1, <1>2, <1>3, <1>4, <1>5 DEF Next

LEMMA InvariantHolds == Spec => []IInv
<1> QED BY InitHolds, NextKeeps, PTL DEF Spec
-----------------------------------------------------------------------------
(* No position beyond the context is ever cached, and _pending stays       *)
(* between 0 and max_queue, whoever goes away (submit, stream).            *)
THEOREM SimpleTypes == Spec => []TypeOK
<1>1. ASSUME IInv PROVE TypeOK
  BY <1>1 DEF IInv, LoopOK, StageOK, ThreadsOK, CacheOK, TypeOK
<1> QED BY <1>1, InvariantHolds, PTL

(***************************************************************************)
(* As long as every client stays, there is "one request in flight at a     *)
(* time" (simple.py:3), and the cache holds its tokens, each at its        *)
(* position.                                                               *)
(***************************************************************************)
THEOREM ServesAlone == Spec => []AloneIfAllStay
<1>1. ASSUME IInv, Gone = {}
      PROVE  /\ OneInFlight
             /\ \A r \in Generating : worker[r] # "begin" =>
                   \A p \in DOMAIN kv[0] : p < pos[r] /\ kv[0][p] = <<r, p>>
  <2>1. \A r \in Generating : HoldsGate(r) /\ Undisturbed(r)
    BY <1>1 DEF IInv, Serial
  <2>2. Cardinality(Generating) <= 1
    <3>1. CASE Generating = {}
      BY <3>1, FS_EmptySet
    <3>2. ASSUME NEW r \in Generating PROVE Cardinality(Generating) <= 1
      <4>1. Generating = {r}
        BY <2>1 DEF HoldsGate
      <4>2. Cardinality(Generating) = 1
        BY <4>1, FS_Singleton
      <4> QED BY <4>2
    <3> QED BY <3>1, <3>2
  <2>3. ASSUME NEW r \in Generating, worker[r] # "begin", NEW p \in DOMAIN kv[0]
        PROVE  p < pos[r] /\ kv[0][p] = <<r, p>>
    <3>1. Cached(r)
      BY <2>1, <2>3 DEF Undisturbed
    <3>2. p \in 0..(pos[r] - 1) /\ pos[r] \in Nat
      BY <1>1, <3>1, GeneratingFits DEF Cached
    <3>3. p < pos[r]
      BY <3>2
    <3> QED BY <3>1, <3>2, <3>3 DEF Cached
  <2> QED BY <2>2, <2>3 DEF OneInFlight
<1>2. IInv => AloneIfAllStay
  BY <1>1 DEF AloneIfAllStay
<1> QED BY <1>2, InvariantHolds, PTL

(***************************************************************************)
(* As long as every client stays, each is sent the tokens of its own       *)
(* generation, and the end after the last of them (stream, _run_blocking). *)
(***************************************************************************)
THEOREM ServesExactly == Spec => []ExactIfAllStay
<1>1. ASSUME IInv, Gone = {}, NEW r \in Requests
      PROVE  /\ \A i \in DOMAIN output[r] :
                   output[r][i] = <<r, shape[r].prompt + i - 1>>
             /\ queue[r] = output[r] \o (IF Closed(r) THEN <<SENTINEL>> ELSE << >>)
  <2>1. OutputExact(r)
    BY <1>1 DEF IInv, Serial
  <2>2. DOMAIN output[r] = 1..Len(output[r])
    BY <1>1, LenProperties DEF IInv, ThreadsOK
  <2> QED BY <1>1, <2>1, <2>2, ClosedAtEnd DEF OutputExact, IInv
<1>2. IInv => ExactIfAllStay
  BY <1>1 DEF ExactIfAllStay
<1> QED BY <1>2, InvariantHolds, PTL
=============================================================================
