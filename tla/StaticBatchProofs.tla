-------------------------- MODULE StaticBatchProofs --------------------------
(***************************************************************************)
(* Proofs about the static-batch engine: for every number of requests and  *)
(* of sequences, every chunk size and context, and whatever fails.         *)
(***************************************************************************)
EXTENDS StaticBatchProperties, SequenceLemmas, WellFoundedInduction

-----------------------------------------------------------------------------
(***************************************************************************)
(* The backend: what a decode writes and predicts.                         *)
(***************************************************************************)
LEMMA WrittenCells ==
    ASSUME NEW cache, NEW list, NEW s \in SeqIds
    PROVE  /\ DOMAIN Written(cache, list) = SeqIds
           /\ \A p : p \in DOMAIN Written(cache, list)[s] <=>
                 \/ p \in DOMAIN cache[s]
                 \/ \E i \in DOMAIN list : list[i].seq = s /\ list[i].pos = p
           /\ \A p \in DOMAIN Written(cache, list)[s] :
                 (\A i \in DOMAIN list : list[i].seq = s => list[i].pos # p) =>
                    /\ Written(cache, list)[s][p] = cache[s][p]
                    /\ p \in DOMAIN cache[s]
           /\ \A i \in DOMAIN list :
                 /\ list[i].seq = s
                 /\ \A j \in DOMAIN list :
                       list[j].seq = s /\ list[j].pos = list[i].pos => j = i
                 => Written(cache, list)[s][list[i].pos] = list[i].tok
<1> DEFINE mine == {i \in DOMAIN list : list[i].seq = s}
           dom == DOMAIN cache[s] \cup {list[i].pos : i \in mine}
<1>1. DOMAIN Written(cache, list) = SeqIds
  BY DEF Written
<1>2. Written(cache, list)[s] =
         [p \in dom |-> IF \E i \in mine : list[i].pos = p
                        THEN list[CHOOSE i \in mine : list[i].pos = p].tok
                        ELSE cache[s][p]]
  BY DEF Written
<1>3. \A p : p \in dom <=> \/ p \in DOMAIN cache[s]
                           \/ \E i \in DOMAIN list : list[i].seq = s /\ list[i].pos = p
  OBVIOUS
<1>4. ASSUME NEW p \in dom, \A i \in DOMAIN list : list[i].seq = s => list[i].pos # p
      PROVE  Written(cache, list)[s][p] = cache[s][p] /\ p \in DOMAIN cache[s]
  <2>1. ~ \E i \in mine : list[i].pos = p
    BY <1>4
  <2> QED BY <2>1, <1>2, <1>3, <1>4
<1>5. ASSUME NEW i \in DOMAIN list, list[i].seq = s,
             \A j \in DOMAIN list : list[j].seq = s /\ list[j].pos = list[i].pos => j = i
      PROVE  Written(cache, list)[s][list[i].pos] = list[i].tok
  <2>1. i \in mine /\ list[i].pos \in dom
    BY <1>5
  <2>2. PICK k : k = CHOOSE j \in mine : list[j].pos = list[i].pos
    OBVIOUS
  <2>3. k \in mine /\ list[k].pos = list[i].pos
    BY <2>1, <2>2
  <2>4. k = i
    BY <2>3, <1>5
  <2>5. Written(cache, list)[s][list[i].pos]
        = list[CHOOSE j \in mine : list[j].pos = list[i].pos].tok
    BY <1>2, <2>1
  <2> QED BY <2>2, <2>4, <2>5
<1>6. DOMAIN Written(cache, list)[s] = dom
  BY <1>2
<1> HIDE DEF mine, dom
<1> QED BY <1>1, <1>3, <1>4, <1>5, <1>6

(* The cells of a sequence are the context of one request at most. *)
LEMMA PredictedNext ==
    ASSUME NEW cells, NEW n \in Nat
    PROVE  /\ Predicted(cells, n) \in Tokens
           /\ \A r \in Requests : HoldsContext(cells, r, n + 1) =>
                 Predicted(cells, n) = <<r, n + 1>>
<1>1. CASE \E r \in Requests : HoldsContext(cells, r, n + 1)
  <2>1. PICK q : q = CHOOSE r \in Requests : HoldsContext(cells, r, n + 1)
    OBVIOUS
  <2>2. q \in Requests /\ HoldsContext(cells, q, n + 1)
    BY <1>1, <2>1
  <2>3. Predicted(cells, n) = <<q, n + 1>>
    BY <1>1, <2>1 DEF Predicted
  <2>4. ASSUME NEW r \in Requests, HoldsContext(cells, r, n + 1) PROVE r = q
    <3>1. 0 \in 0..(n + 1 - 1)
      OBVIOUS
    <3>2. cells[0] = <<r, 0>> /\ cells[0] = <<q, 0>>
      BY <3>1, <2>2, <2>4 DEF HoldsContext
    <3> QED BY <3>2
  <2>5. <<q, n + 1>> \in Tokens
    BY <2>2 DEF Tokens
  <2> QED BY <2>3, <2>4, <2>5
<1>2. CASE ~ \E r \in Requests : HoldsContext(cells, r, n + 1)
  BY <1>2 DEF Predicted, Tokens
<1> QED BY <1>1, <1>2

(* The end of a stream is not a token. *)
LEMMA SentinelIsNoToken == SENTINEL \notin Tokens /\ Garbage \in Tokens
  BY DEF SENTINEL, Tokens, Garbage, Requests

(* What a decode leaves to be read. *)
LEMMA DecodeLogits ==
    ASSUME NEW list \in Seq([seq : SeqIds, tok : Tokens, pos : Nat, want : BOOLEAN]),
           Decode(list)
    PROVE  /\ logits' \in Seq([seq : SeqIds, pos : Nat, tok : Tokens])
           /\ DOMAIN logits' = DOMAIN list /\ DOMAIN list = 1..Len(list)
           /\ \A i \in DOMAIN list :
                 /\ logits'[i].seq = list[i].seq /\ logits'[i].pos = list[i].pos
                 /\ list[i].want =>
                       logits'[i].tok = Predicted(kv'[list[i].seq], list[i].pos)
<1>1. Len(list) \in Nat /\ DOMAIN list = 1..Len(list)
  BY LenProperties
<1>2. logits' = [i \in DOMAIN list |->
                    [seq |-> list[i].seq, pos |-> list[i].pos,
                     tok |-> IF list[i].want
                             THEN Predicted(kv'[list[i].seq], list[i].pos)
                             ELSE Garbage]]
  BY DEF Decode
<1>3. ASSUME NEW i \in DOMAIN list
      PROVE  logits'[i] \in [seq : SeqIds, pos : Nat, tok : Tokens]
  <2>1. list[i] \in [seq : SeqIds, tok : Tokens, pos : Nat, want : BOOLEAN]
    BY <1>1, ElementOfSeq
  <2>2. list[i].seq \in SeqIds /\ list[i].pos \in Nat
    BY <2>1
  <2>3. Predicted(kv'[list[i].seq], list[i].pos) \in Tokens
    BY <2>2, PredictedNext
  <2>4. Garbage \in Tokens
    BY SentinelIsNoToken
  <2> QED BY <1>2, <2>2, <2>3, <2>4
<1>4. logits' \in Seq([seq : SeqIds, pos : Nat, tok : Tokens])
  <2>1. logits' \in [1..Len(list) -> [seq : SeqIds, pos : Nat, tok : Tokens]]
    BY <1>1, <1>2, <1>3
  <2> QED BY <2>1, <1>1, SeqOfFunction
<1> QED BY <1>1, <1>2, <1>4

-----------------------------------------------------------------------------
(***************************************************************************)
(* The lists of the thread hold requests in the order they arrived.        *)
(***************************************************************************)
Rising(s) == \A i, j \in 1..Len(s) : i < j => s[i] < s[j]

Scheduled(r) == seqId[r] # NoSeq
Open(r)      == queue[r] = output[r]
Unclosed     == {r \in Requests : Scheduled(r) /\ Open(r)}
Shaped       == Shapes \cup {[prompt |-> 0, maxTokens |-> 1]}

Typed ==
    /\ waiting \in Seq(Requests) /\ runningN \in Nat
    /\ arrived \in 0..NumRequests /\ submitting \in 0..NumRequests
    /\ shape \in [Requests -> Shaped]
    /\ stage \in [Requests -> Stages]
    /\ seqId \in [Requests -> SeqIds \cup {NoSeq}]
    /\ nComputed \in [Requests -> Nat]
    /\ output \in [Requests -> Seq(Tokens)]
    /\ queue \in [Requests -> Seq(Tokens \cup {SENTINEL})]
    /\ pc \in {"loop", "gather", "prefill", "sample", "release", "cleanup", "exited"}
    /\ batch \in Seq(Requests) /\ active \in Seq(Requests)
    /\ still \in Seq(Requests) /\ todo \in Seq(Requests)
    /\ slots \in Seq([seq : SeqIds, tok : Tokens, pos : Nat, want : BOOLEAN])
    /\ Len(slots) = Len(still)
    /\ DOMAIN logitsIdx \subseteq Requests
    /\ logits \in Seq([seq : SeqIds, pos : Nat, tok : Tokens])
    /\ start \in Nat

(* Where a request is, between submit and the batch. *)
QueueOK ==
    /\ \A r \in Requests : stage[r] = "new" <=> r > arrived
    /\ \A r \in Requests : stage[r] = "queued" <=> r \in ToSet(waiting) \/ r = submitting
    /\ submitting # 0 => submitting = arrived /\ submitting \notin ToSet(waiting)
    /\ Rising(waiting)
    /\ \A r \in Requests :
          Scheduled(r) <=> stage[r] \in {"prefill", "decode", "done", "aborted"}
    /\ \A q, r \in Requests : Scheduled(q) /\ stage[r] = "queued" => q < r

Pending   == IF submitting = 0 THEN 0 ELSE 1
WithinMax == Len(waiting) + runningN + Pending <= MaxQueue

FitsContext ==
    \A r \in Requests : stage[r] \notin {"new", "refused"} =>
        shape[r] \in Shapes /\ Fits(shape[r])

StreamOf(r) ==
    /\ Open(r) \/ queue[r] = Append(output[r], SENTINEL)
    /\ ~ Open(r) => Finished(r)
    /\ stage[r] \notin {"decode", "done", "aborted"} => output[r] = << >>
    /\ stage[r] = "decode" => /\ nComputed[r] = shape[r].prompt + Len(output[r])
                              /\ Len(output[r]) < shape[r].maxTokens

StreamsOK == \A r \in Requests : StreamOf(r)

Counted == IsFiniteSet(Unclosed) /\ runningN = Cardinality(Unclosed)

(* The sequences of the batch, and those who had one before. *)
BatchOK ==
    /\ Rising(batch)
    /\ \A r \in ToSet(batch) : seqId[r] \in SeqIds
    /\ \A q, r \in ToSet(batch) : q < r => seqId[q] < seqId[r]
    /\ \A r \in Requests : Scheduled(r) /\ r \notin ToSet(batch) =>
          Finished(r) /\ \A q \in ToSet(batch) : r < q

CellAt(r, p) == IF p < shape[r].prompt THEN <<r, p>>
                ELSE output[r][p - shape[r].prompt + 1]

Caches(r, n) ==
    /\ DOMAIN kv[seqId[r]] = 0..(n - 1)
    /\ \A p \in 0..(n - 1) : kv[seqId[r]][p] = CellAt(r, p)

CacheOK ==
    /\ DOMAIN kv = SeqIds
    /\ \A s \in SeqIds : \A p \in DOMAIN kv[s] : p \in 0..(NCtx - 1) /\ kv[s][p] \in Tokens
    /\ \A s \in SeqIds : (\A r \in ToSet(batch) : seqId[r] # s) => DOMAIN kv[s] = {}

(* The request that is prefilled last. *)
IsLast(r) == r \in ToSet(batch) /\ \A q \in ToSet(batch) : q <= r

ReadsNext(r) ==
    HasLogits(r) => logits[logitsIdx[r]].tok = <<r, shape[r].prompt + Len(output[r])>>

ReadsOwn(r) ==
    /\ HasLogits(r)
    /\ logits[logitsIdx[r]].seq = seqId[r]
    /\ logits[logitsIdx[r]].pos = nComputed[r] - 1

Visiting(s) == Rising(todo) /\ ToSet(todo) \subseteq ToSet(s)

IdleOK ==
    pc \in {"loop", "gather", "exited"} =>
        /\ batch = << >> /\ todo = << >> /\ still = << >> /\ slots = << >>
        /\ start = 0 /\ DOMAIN logitsIdx = {}

Prefilled(r) ==
    /\ stage[r] = "decode" /\ Caches(r, shape[r].prompt)
    /\ IsLast(r) => ReadsNext(r)
Prefilling(r) ==
    /\ Caches(r, start) /\ start <= shape[r].prompt
    /\ IsLast(r) /\ start > 0 /\ start = shape[r].prompt => ReadsNext(r)
    /\ r \in DOMAIN logitsIdx => start > 0
PrefillOK ==
    pc = "prefill" =>
        /\ Visiting(batch) /\ still = << >> /\ slots = << >>
        /\ \A r \in ToSet(batch) :
              /\ output[r] = << >>
              /\ r \notin ToSet(todo) => Prefilled(r)
              /\ r \in ToSet(todo) => stage[r] = "prefill"
              /\ r \in ToSet(todo) /\ r = Head(todo) => Prefilling(r)
              /\ r \in ToSet(todo) /\ r # Head(todo) =>
                    Caches(r, 0) /\ r \notin DOMAIN logitsIdx
              /\ IsLast(r) /\ todo # << >> => r \in ToSet(todo)
        /\ todo = << >> => start = 0

Continues(r) ==
    /\ r \in ToSet(active) /\ stage[r] = "decode" /\ output[r] # << >>
    /\ Caches(r, nComputed[r] - 1)
DecodesNext ==
    /\ Rising(active) /\ ToSet(active) \subseteq ToSet(batch)
    /\ \A r \in ToSet(batch) : r \notin ToSet(active) => Finished(r)
    /\ Rising(still) /\ \A r \in ToSet(still) : Continues(r)
    /\ \A i \in 1..Len(still) :
          slots[i] = TokenSlot(seqId[still[i]], output[still[i]][Len(output[still[i]])],
                               nComputed[still[i]] - 1, TRUE)

ToSample(r) ==
    /\ stage[r] = "decode" /\ Caches(r, nComputed[r])
    /\ output[r] # << >> => ReadsOwn(r)
    /\ IsLast(r) => ReadsNext(r)
SampleOK ==
    pc = "sample" =>
        /\ Visiting(active) /\ DecodesNext /\ start = 0
        /\ \A r \in ToSet(active) : Open(r)
        /\ \A r \in ToSet(active) : r \notin ToSet(todo) =>
              stage[r] = "done" \/ r \in ToSet(still)
        /\ \A r \in ToSet(todo) : ToSample(r)
        /\ \A q \in ToSet(still) : \A r \in ToSet(todo) : q < r

ReleaseOK ==
    pc = "release" =>
        /\ Visiting(active) /\ DecodesNext /\ start = 0
        /\ \A r \in ToSet(active) : stage[r] = "done" \/ r \in ToSet(still)
        /\ \A r \in ToSet(todo) : Open(r)

CleanOK ==
    pc = "cleanup" =>
        /\ Visiting(batch)
        /\ \A r \in ToSet(batch) : r \notin ToSet(todo) =>
              Finished(r) /\ DOMAIN kv[seqId[r]] = {}

OutputExact(r) ==
    \A i \in 1..Len(output[r]) : output[r][i] = <<r, shape[r].prompt + i - 1>>

LastOK == \A r \in Requests : PrefilledLast(r) => OutputExact(r)

QueueInv == QueueOK /\ WithinMax /\ FitsContext /\ StreamsOK /\ Counted
PhaseOK  == IdleOK /\ PrefillOK /\ SampleOK /\ ReleaseOK /\ CleanOK
IInv == Typed /\ QueueInv /\ BatchOK /\ CacheOK /\ PhaseOK /\ LastOK
-----------------------------------------------------------------------------
(***************************************************************************)
(* Rising lists.                                                           *)
(***************************************************************************)
(* Each request is in a rising list once. *)
LEMMA RisingOnce ==
    ASSUME NEW s \in Seq(Requests), Rising(s)
    PROVE  /\ IsInjective(s) /\ Len(s) \in Nat /\ DOMAIN s = 1..Len(s)
           /\ \A i \in 1..Len(s) : s[i] \in Requests /\ s[i] \in ToSet(s)
           /\ \A r \in ToSet(s) : r \in Requests /\ \E i \in 1..Len(s) : s[i] = r
<1>1. /\ Len(s) \in Nat /\ DOMAIN s = 1..Len(s)
      /\ \A i \in 1..Len(s) : s[i] \in Requests
  BY LenProperties, ElementOfSeq
<1>2. ASSUME NEW i \in 1..Len(s), NEW j \in 1..Len(s), i # j
      PROVE  s[i] # s[j]
  <2>1. s[i] \in Nat /\ s[j] \in Nat
    BY <1>1, StaticAssumption DEF Requests
  <2>2. CASE i < j
    BY <2>1, <2>2 DEF Rising
  <2>3. CASE j < i
    BY <2>1, <2>3 DEF Rising
  <2> QED BY <2>2, <2>3, <1>1, <1>2
<1> QED BY <1>1, <1>2 DEF IsInjective, ToSet

LEMMA ListElements ==
    ASSUME NEW s \in Seq(Requests)
    PROVE  /\ ToSet(s) \subseteq Requests
           /\ s = << >> <=> ToSet(s) = {}
<1>1. /\ Len(s) \in Nat /\ DOMAIN s = 1..Len(s)
      /\ \A i \in 1..Len(s) : s[i] \in Requests
      /\ s = << >> <=> Len(s) = 0
  BY LenProperties, ElementOfSeq, EmptySeq
<1>2. ASSUME Len(s) # 0 PROVE s[1] \in ToSet(s)
  BY <1>1, <1>2 DEF ToSet
<1>3. ASSUME Len(s) = 0 PROVE ToSet(s) = {}
  BY <1>1, <1>3 DEF ToSet
<1>4. ToSet(s) \subseteq Requests
  BY <1>1 DEF ToSet
<1> QED BY <1>1, <1>2, <1>3, <1>4

LEMMA EmptyList ==
    /\ Rising(<< >>) /\ ToSet(<< >>) = {} /\ Len(<< >>) = 0
    /\ \A S : << >> \in Seq(S)
<1>1. Len(<< >>) = 0 /\ \A S : << >> \in Seq(S)
  BY EmptySeq
<1>2. << >> \in Seq(Requests)
  BY <1>1
<1>3. ToSet(<< >>) = {}
  BY <1>2, ListElements
<1> QED BY <1>1, <1>3 DEF Rising

(* A loop visits the smallest of those that it has still to visit. *)
LEMMA RisingTail ==
    ASSUME NEW s \in Seq(Requests), Rising(s), s # << >>
    PROVE  /\ Head(s) \in ToSet(s) /\ Head(s) \in Requests
           /\ Tail(s) \in Seq(Requests) /\ Rising(Tail(s))
           /\ ToSet(Tail(s)) = ToSet(s) \ {Head(s)}
           /\ \A q \in ToSet(Tail(s)) : Head(s) < q
           /\ ToSet(Tail(s)) # {} => Tail(s) # << >> /\ Head(Tail(s)) \in ToSet(Tail(s))
<1>1. /\ Len(s) \in Nat \ {0} /\ Head(s) = s[1] /\ s[1] \in Requests
      /\ Tail(s) \in Seq(Requests) /\ Len(Tail(s)) = Len(s) - 1
      /\ \A i \in 1..(Len(s) - 1) : Tail(s)[i] = s[i + 1]
  BY LenProperties, EmptySeq, HeadTailProperties, ElementOfSeq
<1>2. Head(s) \in ToSet(s) /\ ToSet(Tail(s)) = ToSet(s) \ {Head(s)}
  BY RisingOnce, TailElements
<1> DEFINE t == Tail(s)
<1>3. Len(t) = Len(s) - 1 /\ \A i \in 1..(Len(s) - 1) : t[i] = s[i + 1]
  BY <1>1
<1>4. t \in Seq(Requests)
  BY <1>1
<1> HIDE DEF t
<1>5. Rising(t)
  <2> SUFFICES ASSUME NEW i \in 1..Len(t), NEW j \in 1..Len(t), i < j
               PROVE  t[i] < t[j]
    BY DEF Rising
  <2>1. i + 1 \in 1..Len(s) /\ j + 1 \in 1..Len(s) /\ i + 1 < j + 1
    BY <1>1, <1>3
  <2>2. s[i + 1] < s[j + 1]
    BY <2>1 DEF Rising
  <2> QED BY <2>2, <1>1, <1>3
<1>6. ASSUME NEW q \in ToSet(t) PROVE s[1] < q
  <2>1. PICK i \in 1..Len(t) : t[i] = q
    BY <1>4, <1>5, RisingOnce
  <2>2. i + 1 \in 1..Len(s) /\ 1 < i + 1 /\ 1 \in 1..Len(s) /\ i \in 1..(Len(s) - 1)
    BY <1>1, <1>3
  <2>3. s[1] < s[i + 1] /\ t[i] = s[i + 1]
    BY <2>2, <1>3 DEF Rising
  <2> QED BY <2>1, <2>3
<1>7. ASSUME ToSet(t) # {} PROVE t # << >> /\ Head(t) \in ToSet(t)
  <2>1. t # << >>
    BY <1>7, <1>4, ListElements
  <2> QED BY <2>1, <1>4, <1>5, RisingOnce, TailElements
<1> QED BY <1>1, <1>2, <1>4, <1>5, <1>6, <1>7 DEF t

LEMMA RisingAppend ==
    ASSUME NEW s \in Seq(Requests), Rising(s), NEW r \in Requests,
           \A q \in ToSet(s) : q < r
    PROVE  /\ Append(s, r) \in Seq(Requests) /\ Rising(Append(s, r))
           /\ Len(s) \in Nat /\ Len(Append(s, r)) = Len(s) + 1
           /\ \A i \in 1..Len(s) : Append(s, r)[i] = s[i]
           /\ Append(s, r)[Len(s) + 1] = r
           /\ ToSet(Append(s, r)) = ToSet(s) \cup {r}
<1>1. /\ Append(s, r) \in Seq(Requests)
      /\ Len(Append(s, r)) = Len(s) + 1 /\ Len(s) \in Nat
      /\ \A i \in 1..Len(s) : Append(s, r)[i] = s[i]
      /\ Append(s, r)[Len(s) + 1] = r
  BY AppendProperties, LenProperties
<1>2. ToSet(Append(s, r)) = ToSet(s) \cup {r}
  BY AppendElements
<1> DEFINE t == Append(s, r)
<1> HIDE DEF t
<1>3. /\ Len(t) = Len(s) + 1 /\ Len(s) \in Nat
      /\ \A i \in 1..Len(s) : t[i] = s[i]
      /\ t[Len(s) + 1] = r
  BY <1>1 DEF t
<1>4. \A i \in 1..Len(s) : s[i] < r
  BY RisingOnce
<1>5. Rising(t)
  <2> SUFFICES ASSUME NEW i \in 1..Len(t), NEW j \in 1..Len(t), i < j
               PROVE  t[i] < t[j]
    BY DEF Rising
  <2>1. i \in 1..Len(s) /\ (j \in 1..Len(s) \/ j = Len(s) + 1)
    BY <1>3
  <2> QED BY <2>1, <1>3, <1>4 DEF Rising
<1> QED BY <1>1, <1>2, <1>5 DEF t

(* A rising list cut in two. *)
Cut(s, k, a, b) == a = SubSeq(s, 1, k) /\ b = SubSeq(s, k + 1, Len(s))

(* Both parts rise, the first one below the second. *)
LEMMA RisingCut ==
    ASSUME NEW s \in Seq(Requests), Rising(s), NEW k \in 0..Len(s),
           NEW a, NEW b, Cut(s, k, a, b)
    PROVE  /\ a \in Seq(Requests) /\ Rising(a) /\ Len(a) = k
           /\ b \in Seq(Requests) /\ Rising(b) /\ Len(b) = Len(s) - k
           /\ ToSet(s) = ToSet(a) \cup ToSet(b)
           /\ \A q \in ToSet(a) : \A r \in ToSet(b) : q < r
<1>1. /\ Len(s) \in Nat /\ DOMAIN s = 1..Len(s) /\ k \in Nat /\ k <= Len(s)
      /\ \A i \in 1..Len(s) : s[i] \in Requests
  BY LenProperties, ElementOfSeq
<1>0. a = SubSeq(s, 1, k) /\ b = SubSeq(s, k + 1, Len(s))
  BY DEF Cut
<1>2. a \in Seq(Requests) /\ Len(a) = k /\ \A i \in 1..k : a[i] = s[i]
  <2>1. \A i \in 1..k : s[i] \in Requests
    BY <1>1
  <2>2. /\ SubSeq(s, 1, k) \in Seq(Requests)
        /\ Len(SubSeq(s, 1, k)) = k
        /\ \A i \in 1..k : SubSeq(s, 1, k)[i] = s[i]
    BY <2>1, <1>1, SubSeqProperties, SMT
  <2> QED BY <2>2, <1>0, <1>1
<1>3. /\ b \in Seq(Requests) /\ Len(b) = Len(s) - k
      /\ \A i \in 1..(Len(s) - k) : b[i] = s[k + i]
  <2>1. \A i \in (k + 1)..Len(s) : s[i] \in Requests
    BY <1>1
  <2>2. /\ SubSeq(s, k + 1, Len(s)) \in Seq(Requests)
        /\ Len(SubSeq(s, k + 1, Len(s))) = Len(s) - k
        /\ \A i \in 1..(Len(s) - k) : SubSeq(s, k + 1, Len(s))[i] = s[k + i]
    <3>1. k + 1 \in Int /\ Len(s) \in Int
      BY <1>1
    <3>2. /\ SubSeq(s, k + 1, Len(s)) \in Seq(Requests)
          /\ Len(SubSeq(s, k + 1, Len(s)))
             = IF k + 1 <= Len(s) THEN Len(s) - (k + 1) + 1 ELSE 0
          /\ \A i \in 1..(Len(s) - (k + 1) + 1) :
                SubSeq(s, k + 1, Len(s))[i] = s[(k + 1) + i - 1]
      BY <2>1, <3>1, SubSeqProperties, SMT
    <3>3. Len(s) - (k + 1) + 1 = Len(s) - k
      BY <1>1
    <3>4. \A i \in 1..(Len(s) - k) : (k + 1) + i - 1 = k + i
      BY <1>1
    <3>5. Len(SubSeq(s, k + 1, Len(s))) = Len(s) - k
      BY <3>2, <3>3, <1>1
    <3> QED BY <3>2, <3>3, <3>4, <3>5
  <2> QED BY <2>2, <1>0, <1>1
<1>4. Rising(a)
  BY <1>1, <1>2 DEF Rising
<1>5. Rising(b)
  <2> SUFFICES ASSUME NEW i \in 1..Len(b), NEW j \in 1..Len(b), i < j
               PROVE  b[i] < b[j]
    BY DEF Rising
  <2>1. k + i \in 1..Len(s) /\ k + j \in 1..Len(s) /\ k + i < k + j
    <3>1. i \in 1..(Len(s) - k) /\ j \in 1..(Len(s) - k)
      BY <1>3
    <3> QED BY <3>1, <1>1
  <2>2. s[k + i] < s[k + j]
    BY <2>1 DEF Rising
  <2> QED BY <2>2, <1>3
<1>6. DOMAIN a = 1..k /\ DOMAIN b = 1..(Len(s) - k)
  BY <1>2, <1>3, LenProperties
<1>7. ASSUME NEW q \in ToSet(a) PROVE q \in ToSet(s) /\ \E i \in 1..k : q = s[i]
  <2>1. PICK i \in 1..k : a[i] = q
    BY <1>6 DEF ToSet
  <2> QED BY <2>1, <1>1, <1>2 DEF ToSet
<1>8. ASSUME NEW q \in ToSet(b)
      PROVE  q \in ToSet(s) /\ \E i \in (k + 1)..Len(s) : q = s[i]
  <2>1. PICK i \in 1..(Len(s) - k) : b[i] = q
    BY <1>6 DEF ToSet
  <2>2. k + i \in (k + 1)..Len(s) /\ k + i \in 1..Len(s)
    BY <1>1
  <2>3. q = s[k + i]
    BY <2>1, <1>3
  <2> QED BY <2>2, <2>3, <1>1 DEF ToSet
<1>9. ASSUME NEW q \in ToSet(s) PROVE q \in ToSet(a) \/ q \in ToSet(b)
  <2>1. PICK i \in 1..Len(s) : s[i] = q
    BY <1>1 DEF ToSet
  <2>2. CASE i <= k
    <3>1. i \in 1..k /\ a[i] = q
      BY <2>1, <2>2, <1>2
    <3> QED BY <3>1, <1>6 DEF ToSet
  <2>3. CASE i > k
    <3>1. i - k \in 1..(Len(s) - k) /\ k + (i - k) = i
      BY <2>3, <1>1
    <3>2. b[i - k] = q
      BY <3>1, <2>1, <1>3
    <3> QED BY <3>1, <3>2, <1>6 DEF ToSet
  <2> QED BY <2>2, <2>3, <1>1
<1>10. ASSUME NEW q \in ToSet(a), NEW r \in ToSet(b) PROVE q < r
  <2>1. PICK i \in 1..k : q = s[i]
    BY <1>7
  <2>2. PICK j \in (k + 1)..Len(s) : r = s[j]
    BY <1>8
  <2>3. i \in 1..Len(s) /\ j \in 1..Len(s) /\ i < j
    BY <1>1
  <2> QED BY <2>1, <2>2, <2>3 DEF Rising
<1> QED BY <1>2, <1>3, <1>4, <1>5, <1>7, <1>8, <1>9, <1>10

-----------------------------------------------------------------------------
(* The smallest of a set of numbers. *)
LEMMA LeastNumber ==
    ASSUME NEW S \in SUBSET Nat, S # {}
    PROVE  Min(S) \in S /\ \A r \in S : Min(S) <= r
<1> DEFINE Less == OpToRel(<, Nat)
<1>1. IsWellFoundedOn(Less, Nat)
  BY NatLessThanWellFounded
<1>2. \A m, n \in Nat : m < n => <<m, n>> \in Less
  BY DEF OpToRel
<1> HIDE DEF Less
<1>3. PICK n \in S : \A m \in S : ~ (<<m, n>> \in Less)
  BY <1>1, WFMin
<1>4. \A m \in S : m \in Nat /\ n \in Nat /\ ~ (m < n)
  BY <1>2, <1>3
<1>5. \A m \in S : n <= m
  BY <1>4
<1> QED BY <1>5 DEF Min

(* Who came next after r, if anybody did, began a batch. *)
LEMMA NextBegan ==
    ASSUME NEW S \in SUBSET Requests, NEW sid
    PROVE  (S # {} => sid[Min(S)] = 0) <=>
           \A q \in S : (\A p \in S : q <= p) => sid[q] = 0
<1>1. CASE S = {}
  BY <1>1
<1>2. CASE S # {}
  <2>1. PICK m : m = Min(S)
    OBVIOUS
  <2>2. m \in S /\ \A r \in S : m <= r
    <3>1. S \in SUBSET Nat
      BY StaticAssumption DEF Requests
    <3> QED BY <3>1, <1>2, <2>1, LeastNumber
  <2>3. \A q \in S : q \in Nat
    BY StaticAssumption DEF Requests
  <2>4. \A q \in S : (\A p \in S : q <= p) => q = m
    BY <2>2, <2>3
  <2> QED BY <2>1, <2>2, <2>4
<1> QED BY <1>1, <1>2

-----------------------------------------------------------------------------
(***************************************************************************)
(* What several actions leave alone.                                       *)
(***************************************************************************)
LEMMA ShapeFacts ==
    ASSUME Typed, NEW r \in Requests
    PROVE  shape[r].prompt \in Nat /\ shape[r].maxTokens \in Nat \ {0}
<1>1. shape[r] \in Shaped
  BY DEF Typed
<1>2. CASE shape[r] \in Shapes
  BY <1>2, StaticAssumption
<1>3. CASE shape[r] = [prompt |-> 0, maxTokens |-> 1]
  BY <1>3
<1> QED BY <1>1, <1>2, <1>3 DEF Shaped

LEMMA InBatch ==
    ASSUME Typed, BatchOK
    PROVE  \A r \in ToSet(batch) : r \in Requests /\ Scheduled(r) /\ seqId[r] \in SeqIds
<1>1. ToSet(batch) \subseteq Requests
  BY ListElements DEF Typed
<1>2. NoSeq \notin SeqIds
  BY StaticAssumption DEF NoSeq
<1> QED BY <1>1, <1>2 DEF BatchOK, Scheduled

(* Two requests of a batch have different sequences. *)
LEMMA OwnSequence ==
    ASSUME Typed, BatchOK, NEW q \in ToSet(batch), NEW r \in ToSet(batch), q # r
    PROVE  seqId[q] # seqId[r]
<1>1. q \in Nat /\ r \in Nat /\ seqId[q] \in Int /\ seqId[r] \in Int
  BY InBatch, StaticAssumption DEF Requests
<1>2. CASE q < r
  BY <1>1, <1>2 DEF BatchOK
<1>3. CASE r < q
  BY <1>1, <1>3 DEF BatchOK
<1> QED BY <1>1, <1>2, <1>3

(* Most steps of the thread do nothing to a request. *)
LEMMA RequestsKept ==
    ASSUME QueueInv, LastOK,
           UNCHANGED <<waiting, runningN, arrived, submitting, requestVars>>
    PROVE  /\ QueueInv' /\ LastOK'
           /\ BatchOK /\ batch' = batch => BatchOK'
<1> USE DEF requestVars
<1>1. QueueOK'
  BY DEF QueueInv, QueueOK, Scheduled
<1>2. WithinMax'
  BY DEF QueueInv, WithinMax, Pending
<1>3. FitsContext'
  BY DEF QueueInv, FitsContext, Fits
<1>4. StreamsOK'
  BY DEF QueueInv, StreamsOK, StreamOf, Open, Finished
<1>5. Unclosed' = Unclosed
  BY DEF Unclosed, Open, Scheduled
<1>6. Counted'
  BY <1>5 DEF QueueInv, Counted
<1>7. LastOK'
  BY DEF LastOK, PrefilledLast, ScheduledAfter, OutputExact
<1>8. BatchOK /\ batch' = batch => BatchOK'
  BY DEF BatchOK, Scheduled, Finished
<1> QED BY <1>1, <1>2, <1>3, <1>4, <1>6, <1>7, <1>8 DEF QueueInv

(* What a client does is nothing to the requests of the batch. *)
LEMMA BatchKept ==
    ASSUME IInv,
           UNCHANGED <<backendVars, seqId, nComputed, output, queue, threadVars>>,
           \A r \in Requests : Scheduled(r) =>
               stage'[r] = stage[r] /\ shape'[r] = shape[r]
    PROVE  BatchOK' /\ CacheOK' /\ PhaseOK' /\ LastOK'
<1> USE DEF backendVars, threadVars
<1>1. \A r \in ToSet(batch) : stage'[r] = stage[r] /\ shape'[r] = shape[r]
  BY InBatch DEF IInv
<1>2. BatchOK'
  <2>1. \A r \in Requests : Scheduled(r) => Finished(r)' = Finished(r)
    BY DEF Finished
  <2> QED BY <2>1 DEF IInv, BatchOK, Scheduled
<1>3. CacheOK'
  BY DEF IInv, CacheOK
<1>4. \A r \in ToSet(batch) :
         /\ stage'[r] = stage[r] /\ shape'[r] = shape[r]
         /\ (Finished(r))' = Finished(r) /\ (Open(r))' = Open(r)
         /\ (IsLast(r))' = IsLast(r) /\ (ReadsNext(r))' = ReadsNext(r)
         /\ (ReadsOwn(r))' = ReadsOwn(r)
         /\ (Prefilled(r))' = Prefilled(r) /\ (Prefilling(r))' = Prefilling(r)
         /\ (Continues(r))' = Continues(r) /\ (ToSample(r))' = ToSample(r)
         /\ \A n \in Int : (Caches(r, n))' = Caches(r, n)
  <2> SUFFICES ASSUME NEW r \in ToSet(batch)
               PROVE  /\ stage'[r] = stage[r] /\ shape'[r] = shape[r]
                      /\ (Finished(r))' = Finished(r) /\ (Open(r))' = Open(r)
                      /\ (IsLast(r))' = IsLast(r) /\ (ReadsNext(r))' = ReadsNext(r)
                      /\ (ReadsOwn(r))' = ReadsOwn(r)
                      /\ (Prefilled(r))' = Prefilled(r)
                      /\ (Prefilling(r))' = Prefilling(r)
                      /\ (Continues(r))' = Continues(r)
                      /\ (ToSample(r))' = ToSample(r)
                      /\ \A n \in Int : (Caches(r, n))' = Caches(r, n)
    OBVIOUS
  <2>1. stage'[r] = stage[r] /\ shape'[r] = shape[r]
    BY <1>1
  <2>2. (Finished(r))' = Finished(r) /\ (Open(r))' = Open(r) /\ (IsLast(r))' = IsLast(r)
    BY <2>1 DEF Finished, Open, IsLast
  <2>3. (HasLogits(r))' = HasLogits(r)
    BY DEF HasLogits
  <2>4. (ReadsNext(r))' = ReadsNext(r) /\ (ReadsOwn(r))' = ReadsOwn(r)
    BY <2>1, <2>3 DEF ReadsNext, ReadsOwn
  <2>5. \A n : (Caches(r, n))' = Caches(r, n)
    BY <2>1 DEF Caches, CellAt
  <2>6. (Caches(r, shape[r].prompt))' = Caches(r, shape[r].prompt)
    BY <2>1 DEF Caches, CellAt
  <2>7. /\ (Caches(r, start))' = Caches(r, start)
        /\ (Caches(r, nComputed[r] - 1))' = Caches(r, nComputed[r] - 1)
        /\ (Caches(r, nComputed[r]))' = Caches(r, nComputed[r])
    BY <2>1 DEF Caches, CellAt
  <2> QED BY <2>1, <2>2, <2>4, <2>5, <2>6, <2>7
          DEF Prefilled, Prefilling, Continues, ToSample
<1>5. PhaseOK'
  <2>1. ToSet(todo) \subseteq Requests /\ todo' = todo
    BY ListElements DEF IInv, Typed
  <2>2. IdleOK'
    BY DEF IInv, PhaseOK, IdleOK
  <2>3. PrefillOK'
    <3>1. \A r \in ToSet(batch) : (Caches(r, 0))' = Caches(r, 0)
      BY <1>4
    <3> QED BY <3>1, <1>4 DEF IInv, PhaseOK, PrefillOK, Visiting
  <2>4. DecodesNext => DecodesNext'
    <3> HAVE DecodesNext
    <3>1. \A r \in ToSet(still) : r \in ToSet(batch) /\ Continues(r)
      BY DEF DecodesNext, Continues
    <3>2. \A r \in ToSet(still) : (Continues(r))'
      BY <3>1, <1>4
    <3>3. \A r \in ToSet(batch) : r \notin ToSet(active) => (Finished(r))'
      BY <1>4 DEF DecodesNext
    <3>4. \A i \in 1..Len(still) :
            (slots[i] = TokenSlot(seqId[still[i]], output[still[i]][Len(output[still[i]])],
                                  nComputed[still[i]] - 1, TRUE))'
      BY DEF DecodesNext
    <3> QED BY <3>2, <3>3, <3>4 DEF DecodesNext
  <2>5. SampleOK'
    BY <1>4, <2>4 DEF IInv, PhaseOK, SampleOK, Visiting, DecodesNext
  <2>6. ReleaseOK'
    BY <1>4, <2>4 DEF IInv, PhaseOK, ReleaseOK, Visiting, DecodesNext
  <2>7. CleanOK'
    BY <1>4 DEF IInv, PhaseOK, CleanOK, Visiting
  <2> QED BY <2>2, <2>3, <2>5, <2>6, <2>7 DEF PhaseOK
<1>6. LastOK'
  <2> SUFFICES ASSUME NEW r \in Requests, PrefilledLast(r)'
               PROVE  OutputExact(r)'
    BY DEF LastOK
  <2>1. PrefilledLast(r) /\ Scheduled(r)
    BY DEF PrefilledLast, ScheduledAfter, Scheduled
  <2>2. OutputExact(r) /\ shape'[r] = shape[r]
    BY <2>1 DEF IInv, LastOK
  <2> QED BY <2>2 DEF OutputExact
<1> QED BY <1>2, <1>3, <1>5, <1>6
-----------------------------------------------------------------------------
(***************************************************************************)
(* The event loop, and the thread while it forms a batch.                  *)
(***************************************************************************)
LEMMA SubmitCheckStep ==
    ASSUME IInv, SubmitCheck
    PROVE  IInv'
<1>0. PICK n : n = arrived + 1
  OBVIOUS
<1>1. /\ submitting = 0 /\ n \in Requests /\ arrived \in Nat
      /\ arrived' = n /\ submitting' \in {0, n} /\ n \in 0..NumRequests
      /\ UNCHANGED <<backendVars, waiting, runningN, seqId, nComputed, output, queue,
                     threadVars>>
  BY <1>0, StaticAssumption DEF SubmitCheck, IInv, Typed, Requests
<1>2. PICK s \in Shapes :
        /\ shape' = [shape EXCEPT ![n] = s]
        /\ submitting' = IF ~ QueueFull /\ Fits(s) THEN n ELSE 0
        /\ stage' = [stage EXCEPT ![n] = IF ~ QueueFull /\ Fits(s) THEN "queued"
                                         ELSE "refused"]
  BY <1>0 DEF SubmitCheck
<1>3. /\ shape'[n] = s /\ stage'[n] \in {"queued", "refused"}
      /\ stage'[n] = "queued" <=> submitting' = n
      /\ submitting' = n => ~ QueueFull /\ Fits(s)
      /\ \A r \in Requests : r # n => shape'[r] = shape[r] /\ stage'[r] = stage[r]
      /\ shape' \in [Requests -> Shaped] /\ stage' \in [Requests -> Stages]
  <2>1. shape \in [Requests -> Shaped] /\ stage \in [Requests -> Stages]
    BY DEF IInv, Typed
  <2>2. s \in Shaped /\ {"queued", "refused"} \subseteq Stages
    BY DEF Shaped, Stages
  <2>3. n # 0
    BY <1>1 DEF Requests
  <2> QED BY <1>1, <1>2, <2>1, <2>2, <2>3
<1>4. /\ stage[n] = "new" /\ ~ Scheduled(n) /\ n \notin ToSet(waiting)
      /\ output[n] = << >> /\ Open(n)
  <2>1. stage[n] = "new"
    BY <1>0, <1>1 DEF IInv, QueueInv, QueueOK, Requests
  <2>2. n # submitting
    BY <1>1 DEF Requests
  <2> QED BY <1>1, <2>1 DEF IInv, QueueInv, QueueOK, StreamsOK, StreamOf, Finished
<1>5. Typed'
  BY <1>1, <1>3 DEF IInv, Typed, backendVars, threadVars
<1>6. QueueOK'
  <2>1. \A r \in Requests : r > n <=> r > arrived /\ r # n
    BY <1>0, <1>1 DEF Requests
  <2>2. \A r \in Requests : (Scheduled(r))' <=> Scheduled(r)
    BY <1>1 DEF Scheduled
  <2>3. \A r \in Requests : Scheduled(r) => r < n
    <3> SUFFICES ASSUME NEW r \in Requests, Scheduled(r) PROVE r < n
      OBVIOUS
    <3>1. stage[r] # "new"
      BY DEF IInv, QueueInv, QueueOK
    <3>2. ~ (r > arrived)
      BY <3>1 DEF IInv, QueueInv, QueueOK
    <3> QED BY <3>2, <1>0, <1>1 DEF Requests
  <2>4. \A r \in Requests : stage'[r] = "new" <=> r > arrived'
    BY <1>1, <1>3, <1>4, <2>1 DEF IInv, QueueInv, QueueOK
  <2>5. \A r \in Requests :
           stage'[r] = "queued" <=> r \in ToSet(waiting) \/ r = submitting'
    <3> SUFFICES ASSUME NEW r \in Requests
                 PROVE  stage'[r] = "queued" <=> r \in ToSet(waiting) \/ r = submitting'
      OBVIOUS
    <3>0. r # 0
      BY DEF Requests
    <3>1. CASE r = n
      BY <3>1, <1>3, <1>4
    <3>2. CASE r # n
      BY <3>0, <3>2, <1>1, <1>3 DEF IInv, QueueInv, QueueOK
    <3> QED BY <3>1, <3>2
  <2>6. submitting' # 0 => submitting' = arrived' /\ submitting' \notin ToSet(waiting)
    BY <1>1, <1>4
  <2>7. \A r \in Requests :
          Scheduled(r) <=> stage'[r] \in {"prefill", "decode", "done", "aborted"}
    BY <1>3, <1>4 DEF IInv, QueueInv, QueueOK
  <2>8. \A q, r \in Requests : Scheduled(q) /\ stage'[r] = "queued" => q < r
    BY <1>3, <2>3 DEF IInv, QueueInv, QueueOK
  <2>9. Rising(waiting) /\ waiting' = waiting
    BY <1>1 DEF IInv, QueueInv, QueueOK
  <2> QED BY <2>2, <2>4, <2>5, <2>6, <2>7, <2>8, <2>9 DEF QueueOK
<1>7. WithinMax'
  <2>1. Len(waiting) \in Nat /\ runningN \in Nat /\ MaxQueue \in Nat
    BY StaticAssumption, LenProperties DEF IInv, Typed
  <2>2. CASE submitting' = 0
    BY <2>1, <2>2, <1>1 DEF IInv, QueueInv, WithinMax, Pending
  <2>3. CASE submitting' = n
    <3>1. ~ (Len(waiting) + runningN >= MaxQueue)
      BY <2>3, <1>3 DEF QueueFull
    <3>2. Pending' \in {0, 1}
      BY DEF Pending
    <3> QED BY <3>1, <3>2, <2>1, <1>1 DEF WithinMax
  <2> QED BY <2>2, <2>3, <1>1
<1>8. FitsContext'
  <2>1. \A t : (Fits(t))' <=> Fits(t)
    BY DEF Fits
  <2> QED BY <1>3, <2>1 DEF IInv, QueueInv, FitsContext
<1>9. StreamsOK'
  <2>1. \A r \in Requests : r # n => (StreamOf(r) => (StreamOf(r))')
    BY <1>1, <1>3 DEF StreamOf, Open, Finished
  <2>2. (StreamOf(n))'
    BY <1>1, <1>3, <1>4 DEF StreamOf, Open, Finished
  <2> QED BY <2>1, <2>2 DEF IInv, QueueInv, StreamsOK
<1>10. Counted'
  <2>1. Unclosed' = Unclosed
    BY <1>1 DEF Unclosed, Scheduled, Open
  <2> QED BY <2>1, <1>1 DEF IInv, QueueInv, Counted
<1>11. BatchOK' /\ CacheOK' /\ PhaseOK' /\ LastOK'
  <2>1. \A r \in Requests : Scheduled(r) => stage'[r] = stage[r] /\ shape'[r] = shape[r]
    BY <1>3, <1>4
  <2> QED BY <2>1, <1>1, BatchKept
<1> QED BY <1>5, <1>6, <1>7, <1>8, <1>9, <1>10, <1>11 DEF IInv, QueueInv

LEMMA SubmitAppendStep ==
    ASSUME IInv, SubmitAppend
    PROVE  IInv'
<1>1. /\ submitting # 0 /\ submitting \in Requests /\ submitting = arrived
      /\ submitting \notin ToSet(waiting)
      /\ waiting' = Append(waiting, submitting) /\ submitting' = 0
      /\ UNCHANGED <<backendVars, runningN, arrived, requestVars, threadVars>>
  BY DEF SubmitAppend, IInv, Typed, QueueInv, QueueOK, Requests
<1>2. /\ waiting' \in Seq(Requests) /\ Rising(waiting')
      /\ Len(waiting) \in Nat /\ Len(waiting') = Len(waiting) + 1
      /\ ToSet(waiting') = ToSet(waiting) \cup {submitting}
  <2>1. \A q \in ToSet(waiting) : q < submitting
    <3> SUFFICES ASSUME NEW q \in ToSet(waiting) PROVE q < submitting
      OBVIOUS
    <3>1. q \in Requests
      BY ListElements DEF IInv, Typed
    <3>2. stage[q] # "new"
      BY <3>1 DEF IInv, QueueInv, QueueOK
    <3>3. ~ (q > arrived) /\ q # arrived
      BY <3>1, <3>2, <1>1 DEF IInv, QueueInv, QueueOK
    <3> QED BY <3>1, <3>3, <1>1 DEF Requests
  <2>2. waiting \in Seq(Requests) /\ Rising(waiting)
    BY DEF IInv, Typed, QueueInv, QueueOK
  <2> QED BY <1>1, <2>1, <2>2, RisingAppend
<1>3. Typed'
  <2>1. 0 \in 0..NumRequests
    BY StaticAssumption
  <2> QED BY <1>1, <1>2, <2>1 DEF IInv, Typed, backendVars, requestVars, threadVars
<1>4. QueueOK'
  <2>1. \A r \in Requests : r # 0
    BY DEF Requests
  <2>2. \A r \in Requests : (Scheduled(r))' <=> Scheduled(r)
    BY <1>1 DEF Scheduled, requestVars
  <2> QED BY <1>1, <1>2, <2>1, <2>2 DEF IInv, QueueInv, QueueOK, requestVars
<1>5. WithinMax'
  <2>1. runningN \in Nat /\ MaxQueue \in Nat
    BY StaticAssumption DEF IInv, Typed
  <2>2. Pending = 1 /\ Pending' = 0
    BY <1>1 DEF Pending
  <2> QED BY <1>1, <1>2, <2>1, <2>2 DEF IInv, QueueInv, WithinMax
<1>6. FitsContext' /\ StreamsOK'
  BY <1>1 DEF IInv, QueueInv, FitsContext, Fits, StreamsOK, StreamOf, Open, Finished,
              requestVars
<1>7. Counted'
  <2>1. Unclosed' = Unclosed
    BY <1>1 DEF Unclosed, Scheduled, Open, requestVars
  <2> QED BY <2>1, <1>1 DEF IInv, QueueInv, Counted
<1>8. BatchOK' /\ CacheOK' /\ PhaseOK' /\ LastOK'
  BY <1>1, BatchKept DEF requestVars
<1> QED BY <1>3, <1>4, <1>5, <1>6, <1>7, <1>8 DEF IInv, QueueInv

(* A stop, and a step that changes nothing. *)
LEMMA StopStep ==
    ASSUME IInv,
           UNCHANGED <<backendVars, waiting, runningN, arrived, submitting, requestVars,
                       threadVars>>
    PROVE  IInv'
<1>1. Typed'
  BY DEF IInv, Typed, backendVars, requestVars, threadVars
<1>2. QueueInv'
  BY RequestsKept DEF IInv
<1>3. BatchOK' /\ CacheOK' /\ PhaseOK' /\ LastOK'
  BY BatchKept DEF requestVars
<1> QED BY <1>1, <1>2, <1>3 DEF IInv

(* The thread ends, or has seen a request. *)
LEMMA WaitStep ==
    ASSUME IInv, Exit \/ FirstArrives
    PROVE  IInv'
<1>1. /\ pc = "loop" /\ pc' \in {"exited", "gather"}
      /\ UNCHANGED <<backendVars, waiting, runningN, arrived, submitting, requestVars,
                     batch, active, still, slots, logitsIdx, todo, start>>
  BY DEF Exit, FirstArrives, clientVars
<1>2. Typed'
  BY <1>1 DEF IInv, Typed, backendVars, requestVars
<1>3. QueueInv' /\ LastOK' /\ BatchOK'
  BY <1>1, RequestsKept DEF IInv
<1>4. CacheOK'
  BY <1>1 DEF IInv, CacheOK, backendVars, requestVars
<1>5. PhaseOK'
  BY <1>1 DEF IInv, PhaseOK, IdleOK, PrefillOK, SampleOK, ReleaseOK, CleanOK
<1> QED BY <1>2, <1>3, <1>4, <1>5 DEF IInv

(* The oldest requests become the batch, each with the sequence of its place. *)
LEMMA StartBatchStep ==
    ASSUME IInv, StartBatch
    PROVE  IInv'
<1>1. PICK k : k = BatchSize
  OBVIOUS
<1>2. /\ k \in 0..Len(waiting) /\ k \in 0..MaxSeqs /\ Len(waiting) \in Nat
      /\ MaxSeqs \in Nat /\ SeqIds = 0..(MaxSeqs - 1)
  <2>1. Len(waiting) \in Nat
    BY LenProperties DEF IInv, Typed
  <2> QED BY <1>1, <2>1, StaticAssumption DEF BatchSize
<1>3. PICK c : c = SubSeq(waiting, 1, k)
  OBVIOUS
<1>4. PICK d : d = SubSeq(waiting, k + 1, Len(waiting))
  OBVIOUS
<1>5. /\ waiting' = d /\ runningN' = runningN + k /\ batch' = c /\ todo' = c
      /\ pc = "gather" /\ pc' = "prefill" /\ kv' = Emptied(kv, 0..(k - 1))
      /\ UNCHANGED <<logits, arrived, submitting, shape, nComputed, output, queue,
                     active, still, slots, logitsIdx, start>>
  BY <1>1, <1>3, <1>4 DEF StartBatch, Chosen, clientVars
<1>6. /\ seqId' = [r \in Requests |-> IF r \in ToSet(c)
                                      THEN (CHOOSE i \in 1..k : c[i] = r) - 1
                                      ELSE seqId[r]]
      /\ stage' = [r \in Requests |-> IF r \in ToSet(c) THEN "prefill" ELSE stage[r]]
  BY <1>1, <1>3 DEF StartBatch, Chosen
<1>7. /\ batch = << >> /\ todo = << >> /\ still = << >> /\ slots = << >>
      /\ start = 0 /\ DOMAIN logitsIdx = {}
  BY <1>5 DEF IInv, PhaseOK, IdleOK
<1>8. /\ c \in Seq(Requests) /\ Rising(c) /\ Len(c) = k
      /\ d \in Seq(Requests) /\ Rising(d) /\ Len(d) = Len(waiting) - k
      /\ ToSet(waiting) = ToSet(c) \cup ToSet(d)
      /\ \A q \in ToSet(c) : \A r \in ToSet(d) : q < r
  <2>1. waiting \in Seq(Requests) /\ Rising(waiting)
    BY DEF IInv, Typed, QueueInv, QueueOK
  <2>2. k \in 0..Len(waiting)
    BY <1>2
  <2>3. Cut(waiting, k, c, d)
    BY <1>3, <1>4 DEF Cut
  <2> QED BY <2>1, <2>2, <2>3, RisingCut, Zenon
<1>9. /\ ToSet(c) \subseteq Requests /\ ToSet(d) \subseteq Requests
      /\ \A r \in ToSet(c) : r \notin ToSet(d)
  <2>1. ToSet(c) \subseteq Requests /\ ToSet(d) \subseteq Requests
    BY <1>8, ListElements
  <2> QED BY <2>1, <1>8 DEF Requests
<1>10. ASSUME NEW r \in ToSet(c)
       PROVE  /\ stage[r] = "queued" /\ ~ Scheduled(r) /\ output[r] = << >> /\ Open(r)
              /\ ~ Finished(r) /\ r # submitting
  <2>1. stage[r] = "queued" /\ r # submitting
    BY <1>8, <1>9 DEF IInv, QueueInv, QueueOK, Requests
  <2> QED BY <2>1, <1>9 DEF IInv, QueueInv, QueueOK, StreamsOK, StreamOf, Finished
<1>11. ASSUME NEW r \in ToSet(c)
       PROVE  \E i \in 1..k : r = c[i] /\ seqId'[r] = i - 1
  <2>1. PICK i : i = CHOOSE j \in 1..k : c[j] = r
    OBVIOUS
  <2>2. \E j \in 1..k : c[j] = r
    BY <1>8, RisingOnce
  <2>3. i \in 1..k /\ c[i] = r
    BY <2>1, <2>2
  <2>4. seqId'[r] = (CHOOSE j \in 1..k : c[j] = r) - 1
    BY <1>6, <1>9
  <2> QED BY <2>1, <2>3, <2>4
<1>12. ASSUME NEW r \in ToSet(c) PROVE seqId'[r] \in 0..(k - 1) /\ seqId'[r] \in SeqIds
  <2>1. PICK i \in 1..k : seqId'[r] = i - 1
    BY <1>11
  <2> QED BY <2>1, <1>2
<1>13. ASSUME NEW q \in ToSet(c), NEW r \in ToSet(c), q < r
       PROVE  seqId'[q] < seqId'[r]
  <2>1. PICK i \in 1..k : q = c[i] /\ seqId'[q] = i - 1
    BY <1>11
  <2>2. PICK j \in 1..k : r = c[j] /\ seqId'[r] = j - 1
    BY <1>11
  <2>3. q \in Nat /\ r \in Nat
    BY <1>9, StaticAssumption DEF Requests
  <2>4. ~ (j < i) /\ i # j
    BY <1>8, <1>13, <2>1, <2>2, <2>3 DEF Rising
  <2> QED BY <2>1, <2>2, <2>4, <1>2
<1>14. \A r \in Requests : r \notin ToSet(c) => seqId'[r] = seqId[r] /\ stage'[r] = stage[r]
  BY <1>6
<1>15. \A r \in ToSet(c) : stage'[r] = "prefill"
  BY <1>6, <1>9
<1>16. Typed'
  <2>1. seqId' \in [Requests -> SeqIds \cup {NoSeq}]
    <3>1. \A r \in Requests : seqId'[r] \in SeqIds \cup {NoSeq}
      BY <1>12, <1>14 DEF IInv, Typed
    <3> QED BY <3>1, <1>6
  <2>2. stage' \in [Requests -> Stages]
    <3>1. "prefill" \in Stages
      BY DEF Stages
    <3>2. \A r \in Requests : stage'[r] \in Stages
      BY <3>1, <1>14, <1>15 DEF IInv, Typed
    <3> QED BY <3>2, <1>6
  <2>3. runningN' \in Nat
    BY <1>2, <1>5 DEF IInv, Typed
  <2> QED BY <2>1, <2>2, <2>3, <1>5, <1>8 DEF IInv, Typed
<1>17. \A r \in Requests : (Scheduled(r))' <=> Scheduled(r) \/ r \in ToSet(c)
  <2>1. NoSeq \notin SeqIds
    BY StaticAssumption DEF NoSeq
  <2> QED BY <2>1, <1>12, <1>14 DEF Scheduled
<1>18. QueueOK'
  <2>1. \A r \in Requests : stage'[r] = "new" <=> r > arrived'
    BY <1>5, <1>10, <1>14, <1>15 DEF IInv, QueueInv, QueueOK
  <2>2. \A r \in Requests : stage'[r] = "queued" <=> r \in ToSet(d) \/ r = submitting'
    BY <1>5, <1>8, <1>9, <1>10, <1>14, <1>15 DEF IInv, QueueInv, QueueOK
  <2>3. submitting' # 0 => submitting' = arrived' /\ submitting' \notin ToSet(d)
    BY <1>5, <1>8 DEF IInv, QueueInv, QueueOK
  <2>4. \A r \in Requests :
           (Scheduled(r))' <=> stage'[r] \in {"prefill", "decode", "done", "aborted"}
    BY <1>14, <1>15, <1>17 DEF IInv, QueueInv, QueueOK
  <2>5. ASSUME NEW q \in Requests, NEW r \in Requests, (Scheduled(q))', stage'[r] = "queued"
        PROVE  q < r
    <3>1. r \notin ToSet(c) /\ stage[r] = "queued"
      BY <2>5, <1>14, <1>15
    <3>2. CASE Scheduled(q)
      BY <3>1, <3>2 DEF IInv, QueueInv, QueueOK
    <3>3. CASE q \in ToSet(c)
      <4>1. CASE r \in ToSet(d)
        BY <3>3, <4>1, <1>8
      <4>2. CASE r = submitting
        <5>1. r = arrived /\ q # r
          BY <4>2, <3>1, <3>3 DEF IInv, QueueInv, QueueOK, Requests
        <5>2. stage[q] # "new"
          BY <3>3, <1>10
        <5>3. ~ (q > arrived)
          BY <5>2 DEF IInv, QueueInv, QueueOK
        <5> QED BY <5>1, <5>3, StaticAssumption DEF Requests
      <4> QED BY <4>1, <4>2, <3>1, <1>8 DEF IInv, QueueInv, QueueOK
    <3> QED BY <3>2, <3>3, <2>5, <1>17
  <2> QED BY <2>1, <2>2, <2>3, <2>4, <2>5, <1>5, <1>8 DEF QueueOK
<1>19. WithinMax'
  <2>1. Pending' = Pending /\ Pending \in {0, 1}
    BY <1>5 DEF Pending
  <2>2. runningN \in Nat /\ MaxQueue \in Nat
    BY StaticAssumption DEF IInv, Typed
  <2>3. Len(waiting) + runningN + Pending <= MaxQueue
    BY DEF IInv, QueueInv, WithinMax
  <2>4. Len(waiting') + runningN' + Pending' <= MaxQueue
    <3>1. Len(waiting') = Len(waiting) - k /\ runningN' = runningN + k
      BY <1>5, <1>8
    <3> QED BY <3>1, <2>1, <2>2, <2>3, <1>2
  <2> QED BY <2>4 DEF WithinMax
<1>20. FitsContext'
  BY <1>5, <1>10, <1>14, <1>9 DEF IInv, QueueInv, FitsContext, Fits
<1>21. StreamsOK'
  <2> SUFFICES ASSUME NEW r \in Requests PROVE (StreamOf(r))'
    BY DEF StreamsOK
  <2>1. StreamOf(r)
    BY DEF IInv, QueueInv, StreamsOK
  <2>2. CASE r \in ToSet(c)
    BY <2>2, <1>5, <1>10, <1>15 DEF StreamOf, Open, Finished
  <2>3. CASE r \notin ToSet(c)
    BY <2>1, <2>3, <1>5, <1>14 DEF StreamOf, Open, Finished
  <2> QED BY <2>2, <2>3
<1>22. Counted'
  <2>1. IsFiniteSet(ToSet(c)) /\ Cardinality(ToSet(c)) = k
    <3>1. IsFiniteSet(1..k) /\ Cardinality(1..k) = k
      BY <1>2, FS_Interval
    <3>2. /\ c \in [1..k -> ToSet(c)]
          /\ \A i, j \in 1..k : c[i] = c[j] => i = j
          /\ \A r \in ToSet(c) : \E i \in 1..k : c[i] = r
      <4>1. c \in [1..Len(c) -> Requests]
        BY <1>8, LenProperties
      <4> QED BY <4>1, <1>8, RisingOnce DEF IsInjective
    <3> QED BY <3>1, <3>2, Renaming
  <2>2. Unclosed' = Unclosed \cup ToSet(c) /\ Unclosed \cap ToSet(c) = {}
    <3>1. \A r \in Requests : (Open(r))' <=> Open(r)
      BY <1>5 DEF Open
    <3> QED BY <3>1, <1>9, <1>10, <1>17 DEF Unclosed
  <2>3. IsFiniteSet(Unclosed) /\ runningN = Cardinality(Unclosed)
    BY DEF IInv, QueueInv, Counted
  <2>4. /\ IsFiniteSet(Unclosed \cup ToSet(c))
        /\ Cardinality(Unclosed \cup ToSet(c)) = runningN + k
    BY <2>1, <2>2, <2>3, DisjointUnion
  <2> QED BY <2>2, <2>4, <1>5 DEF Counted
<1>23. ASSUME NEW r \in Requests, Scheduled(r) PROVE Finished(r) /\ \A q \in ToSet(c) : r < q
  <2>1. r \notin ToSet(batch)
    BY <1>7, EmptyList
  <2> QED BY <2>1, <1>9, <1>10, <1>23 DEF IInv, BatchOK, QueueInv, QueueOK
<1>24. BatchOK'
  <2>1. \A r \in Requests : (Scheduled(r))' /\ r \notin ToSet(c) => (Finished(r))'
    BY <1>14, <1>17, <1>23 DEF Finished
  <2> QED BY <2>1, <1>5, <1>8, <1>12, <1>13, <1>17, <1>23 DEF BatchOK
<1>25. /\ DOMAIN kv' = SeqIds
       /\ \A s \in SeqIds : DOMAIN kv'[s] = {}
  <2>1. \A s \in SeqIds : DOMAIN kv[s] = {}
    BY <1>7, EmptyList DEF IInv, CacheOK
  <2>2. DOMAIN << >> = {}
    OBVIOUS
  <2> QED BY <2>1, <2>2, <1>5 DEF Emptied
<1>26. CacheOK'
  BY <1>25 DEF CacheOK
<1>27. PhaseOK'
  <2>1. PrefillOK'
    <3>1. Visiting(batch)'
      BY <1>5, <1>8 DEF Visiting
    <3>2. ASSUME NEW r \in ToSet(c) PROVE (Caches(r, 0))'
      <4>1. DOMAIN kv'[seqId'[r]] = {}
        BY <1>12, <1>25
      <4> QED BY <4>1 DEF Caches
    <3>3. ASSUME NEW r \in ToSet(c) PROVE (Prefilling(r))'
      <4>1. shape'[r].prompt \in Nat
        BY <1>16, <1>9, <1>5, ShapeFacts DEF IInv
      <4>2. (Caches(r, start))'
        BY <3>2, <1>5, <1>7 DEF Caches
      <4> QED BY <4>1, <4>2, <1>5, <1>7 DEF Prefilling
    <3>4. \A r \in ToSet(c) : output'[r] = << >> /\ stage'[r] = "prefill"
      BY <1>5, <1>10, <1>15
    <3> QED BY <3>1, <3>2, <3>3, <3>4, <1>5, <1>7 DEF PrefillOK, IsLast
  <2> QED BY <2>1, <1>5 DEF PhaseOK, IdleOK, SampleOK, ReleaseOK, CleanOK
<1>28. LastOK'
  <2> SUFFICES ASSUME NEW r \in Requests, (PrefilledLast(r))' PROVE (OutputExact(r))'
    BY DEF LastOK
  <2>1. (Scheduled(r))'
    BY DEF PrefilledLast, Scheduled
  <2>2. CASE r \in ToSet(c)
    <3>1. output'[r] = << >>
      BY <2>2, <1>5, <1>10
    <3> QED BY <3>1, EmptyList DEF OutputExact
  <2>3. CASE r \notin ToSet(c)
    <3>1. Scheduled(r)
      BY <2>1, <2>3, <1>17
    <3>2. PICK S : S = ScheduledAfter(r)
      OBVIOUS
    <3>3. PICK T : T = ScheduledAfter(r)'
      OBVIOUS
    <3>4. S \in SUBSET Requests /\ T \in SUBSET Requests
      BY <3>2, <3>3 DEF ScheduledAfter
    <3>5. /\ \A q \in S : q \in T /\ seqId'[q] = seqId[q]
          /\ \A q \in T : q \in S \/ q \in ToSet(c)
          /\ \A q \in S : \A p \in ToSet(c) : q < p
      BY <3>2, <3>3, <1>10, <1>14, <1>17, <1>23 DEF ScheduledAfter, Scheduled
    <3>6. \A q \in T : (\A p \in T : q <= p) => seqId'[q] = 0
      <4>1. T # {} => seqId'[Min(T)] = 0
        BY <3>3 DEF PrefilledLast
      <4> QED BY <4>1, <3>4, NextBegan
    <3>7. ASSUME NEW q \in S, \A p \in S : q <= p PROVE seqId[q] = 0
      <4>1. \A p \in T : q <= p
        <5>1. \A p \in ToSet(c) : q \in Nat /\ p \in Nat
          BY <3>4, <1>9, StaticAssumption DEF Requests
        <5> QED BY <5>1, <3>5, <3>7
      <4> QED BY <4>1, <3>5, <3>6
    <3>8. S # {} => seqId[Min(S)] = 0
      BY <3>4, <3>7, NextBegan
    <3>9. PrefilledLast(r)
      BY <3>1, <3>2, <3>8 DEF PrefilledLast, Scheduled
    <3>10. OutputExact(r)
      BY <3>9 DEF IInv, LastOK
    <3> QED BY <3>10, <1>5 DEF OutputExact
  <2> QED BY <2>2, <2>3
<1> QED BY <1>16, <1>18, <1>19, <1>20, <1>21, <1>22, <1>24, <1>26, <1>27, <1>28
        DEF IInv, QueueInv
-----------------------------------------------------------------------------
(***************************************************************************)
(* The thread prefills.                                                    *)
(***************************************************************************)
LEMMA PartBounds ==
    ASSUME Typed, NEW r \in Requests, start < shape[r].prompt
    PROVE  /\ PartEnd(r) \in Nat /\ start < PartEnd(r) /\ PartEnd(r) <= shape[r].prompt
<1>1. ChunkSize \in Nat \ {0}
  BY StaticAssumption DEF ChunkSize
<1>2. start \in Nat /\ shape[r].prompt \in Nat
  BY ShapeFacts DEF Typed
<1> QED BY <1>1, <1>2 DEF PartEnd

(* The slots of a chunk: the prompt tokens of r from start on, in order. *)
LEMMA PartSlots ==
    ASSUME Typed, NEW r \in Requests, start < shape[r].prompt, seqId[r] \in SeqIds
    PROVE  /\ Part(r) \in Seq([seq : SeqIds, tok : Tokens, pos : Nat, want : BOOLEAN])
           /\ DOMAIN Part(r) = 1..(PartEnd(r) - start)
           /\ \A i \in 1..(PartEnd(r) - start) :
                 /\ Part(r)[i].seq = seqId[r] /\ Part(r)[i].tok = <<r, start + i - 1>>
                 /\ Part(r)[i].pos = start + i - 1
                 /\ Part(r)[i].want = (start + i = shape[r].prompt)
<1>1. /\ start \in Nat /\ PartEnd(r) \in Nat /\ start < PartEnd(r)
      /\ PartEnd(r) <= shape[r].prompt /\ shape[r].prompt \in Nat
  BY PartBounds, ShapeFacts DEF Typed
<1>0. PICK list : list = Part(r)
  OBVIOUS
<1>2. PICK n : n = PartEnd(r) - start
  OBVIOUS
<1>3. n \in Nat /\ start + n = PartEnd(r)
  BY <1>1, <1>2
<1>4. list = [i \in 1..n |-> TokenSlot(seqId[r], PromptTokens(r)[start + i], start + i - 1,
                                       start + i = shape[r].prompt)]
  BY <1>0, <1>2 DEF Part
<1>5. ASSUME NEW i \in 1..n
      PROVE  /\ list[i].seq = seqId[r] /\ list[i].tok = <<r, start + i - 1>>
             /\ list[i].pos = start + i - 1 /\ start + i - 1 \in Nat
             /\ list[i].want = (start + i = shape[r].prompt)
             /\ list[i] \in [seq : SeqIds, tok : Tokens, pos : Nat, want : BOOLEAN]
  <2>1. start + i \in 1..shape[r].prompt /\ start + i - 1 \in Nat
    BY <1>1, <1>3
  <2>2. PromptTokens(r)[start + i] = <<r, start + i - 1>>
    <3>1. PICK p : p = start + i
      OBVIOUS
    <3>2. PromptTokens(r)[p] = <<r, p - 1>>
      BY <2>1, <3>1 DEF PromptTokens
    <3>3. p - 1 = start + i - 1
      BY <3>1, <1>1
    <3> QED BY <3>1, <3>2, <3>3
  <2>3. <<r, start + i - 1>> \in Tokens
    BY <2>1 DEF Tokens
  <2>4. list[i] = TokenSlot(seqId[r], <<r, start + i - 1>>, start + i - 1,
                            start + i = shape[r].prompt)
    BY <1>4, <2>2
  <2> QED BY <2>1, <2>3, <2>4 DEF TokenSlot
<1>6. /\ list \in Seq([seq : SeqIds, tok : Tokens, pos : Nat, want : BOOLEAN])
      /\ DOMAIN list = 1..n
  <2>1. list \in [1..n -> [seq : SeqIds, tok : Tokens, pos : Nat, want : BOOLEAN]]
    BY <1>4, <1>5
  <2> QED BY <2>1, <1>3, SeqOfFunction
<1> QED BY <1>0, <1>2, <1>5, <1>6

LEMMA PrefillChunkStep ==
    ASSUME IInv, PrefillChunk
    PROVE  IInv'
<1>1. PICK r : r = Head(todo)
  OBVIOUS
<1>2. PICK e : e = PartEnd(r)
  OBVIOUS
<1>3. PICK list : list = Part(r)
  OBVIOUS
<1>4. /\ pc = "prefill" /\ pc' = pc /\ todo # << >>
      /\ start < shape[r].prompt /\ Decode(list)
      /\ logitsIdx' = Put(logitsIdx, r, e - start) /\ start' = e
      /\ UNCHANGED <<waiting, runningN, arrived, submitting, requestVars, batch, active,
                     still, slots, todo>>
  BY <1>1, <1>2, <1>3 DEF PrefillChunk, clientVars
<1>5. /\ UNCHANGED <<waiting, runningN, arrived, submitting, batch, active, still, slots,
                     todo>>
      /\ UNCHANGED <<shape, stage, seqId, nComputed, output, queue>>
  BY <1>4 DEF requestVars
<1>6. /\ r \in ToSet(todo) /\ r \in ToSet(batch) /\ r \in Requests /\ seqId[r] \in SeqIds
      /\ stage[r] = "prefill" /\ output[r] = << >> /\ Prefilling(r)
  <2>1. Visiting(batch) /\ todo \in Seq(Requests)
    BY <1>4 DEF IInv, PhaseOK, PrefillOK, Typed
  <2>2. r \in ToSet(todo)
    BY <2>1, <1>1, <1>4, RisingTail DEF Visiting
  <2>3. r \in ToSet(batch)
    BY <2>1, <2>2 DEF Visiting
  <2>4. r \in Requests /\ seqId[r] \in SeqIds
    BY <2>3, InBatch DEF IInv
  <2> QED BY <2>2, <2>3, <2>4, <1>1, <1>4 DEF IInv, PhaseOK, PrefillOK
<1>7. /\ start \in Nat /\ e \in Nat /\ start < e /\ e <= shape[r].prompt
      /\ shape[r].prompt \in Nat
  BY <1>2, <1>4, <1>6, PartBounds, ShapeFacts DEF IInv, Typed
<1>8. /\ list \in Seq([seq : SeqIds, tok : Tokens, pos : Nat, want : BOOLEAN])
      /\ DOMAIN list = 1..(e - start)
      /\ \A i \in 1..(e - start) :
            /\ list[i].seq = seqId[r] /\ list[i].tok = <<r, start + i - 1>>
            /\ list[i].pos = start + i - 1
            /\ list[i].want = (start + i = shape[r].prompt)
  <2>1. Typed /\ r \in Requests /\ start < shape[r].prompt /\ seqId[r] \in SeqIds
    BY <1>4, <1>6 DEF IInv
  <2>2. /\ Part(r) \in Seq([seq : SeqIds, tok : Tokens, pos : Nat, want : BOOLEAN])
        /\ DOMAIN Part(r) = 1..(PartEnd(r) - start)
        /\ \A i \in 1..(PartEnd(r) - start) :
              /\ Part(r)[i].seq = seqId[r] /\ Part(r)[i].tok = <<r, start + i - 1>>
              /\ Part(r)[i].pos = start + i - 1
              /\ Part(r)[i].want = (start + i = shape[r].prompt)
    BY <2>1, PartSlots
  <2> QED BY <2>2, <1>2, <1>3
<1>9. kv' = Written(kv, list) /\ DOMAIN kv' = SeqIds
  BY <1>4, <1>6, WrittenCells DEF Decode
<1>10. ASSUME NEW s \in SeqIds, s # seqId[r]
       PROVE  DOMAIN kv'[s] = DOMAIN kv[s] /\ \A p \in DOMAIN kv[s] : kv'[s][p] = kv[s][p]
  <2>1. \A i \in DOMAIN list : list[i].seq # s
    BY <1>8, <1>10
  <2>2. /\ \A p : p \in DOMAIN kv'[s] <=>
              \/ p \in DOMAIN kv[s]
              \/ \E i \in DOMAIN list : list[i].seq = s /\ list[i].pos = p
        /\ \A p \in DOMAIN kv'[s] :
              (\A i \in DOMAIN list : list[i].seq = s => list[i].pos # p) =>
                 kv'[s][p] = kv[s][p]
    BY <1>9, WrittenCells
  <2> QED BY <2>1, <2>2
<1>11. /\ DOMAIN kv'[seqId[r]] = 0..(e - 1)
       /\ \A p \in 0..(e - 1) : kv'[seqId[r]][p] = <<r, p>>
  <2>1. PICK s \in SeqIds : s = seqId[r]
    BY <1>6
  <2>2. /\ \A p : p \in DOMAIN kv'[s] <=>
              \/ p \in DOMAIN kv[s]
              \/ \E i \in DOMAIN list : list[i].seq = s /\ list[i].pos = p
        /\ \A p \in DOMAIN kv'[s] :
              (\A i \in DOMAIN list : list[i].seq = s => list[i].pos # p) =>
                 kv'[s][p] = kv[s][p]
        /\ \A i \in DOMAIN list :
              /\ list[i].seq = s
              /\ \A j \in DOMAIN list :
                    list[j].seq = s /\ list[j].pos = list[i].pos => j = i
              => kv'[s][list[i].pos] = list[i].tok
    BY <1>9, WrittenCells
  <2>3. DOMAIN kv[s] = 0..(start - 1) /\ \A p \in 0..(start - 1) : kv[s][p] = <<r, p>>
    <3>1. \A p \in 0..(start - 1) : p < shape[r].prompt
      BY <1>7
    <3> QED BY <3>1, <2>1, <1>6 DEF Prefilling, Caches, CellAt
  <2>4. ASSUME NEW p \in start..(e - 1)
        PROVE  p \in DOMAIN kv'[s] /\ kv'[s][p] = <<r, p>>
    <3>1. PICK i \in 1..(e - start) : start + i - 1 = p
      <4>1. p - start + 1 \in 1..(e - start) /\ start + (p - start + 1) - 1 = p
        BY <1>7
      <4> QED BY <4>1
    <3>2. \A j \in 1..(e - start) : start + j - 1 = p => j = i
      BY <3>1, <1>7
    <3>3. i \in DOMAIN list /\ list[i].seq = s /\ list[i].pos = p /\ list[i].tok = <<r, p>>
      BY <3>1, <2>1, <1>8
    <3>4. \A j \in DOMAIN list : list[j].pos = list[i].pos => j = i
      BY <3>2, <3>3, <1>8
    <3> QED BY <3>3, <3>4, <2>2
  <2>5. ASSUME NEW p \in 0..(start - 1)
        PROVE  p \in DOMAIN kv'[s] /\ kv'[s][p] = <<r, p>>
    <3>1. \A i \in DOMAIN list : list[i].pos # p
      BY <1>7, <1>8
    <3> QED BY <3>1, <2>2, <2>3
  <2>6. ASSUME NEW p \in DOMAIN kv'[s] PROVE p \in 0..(e - 1)
    <3>1. CASE p \in DOMAIN kv[s]
      BY <3>1, <2>3, <1>7
    <3>2. CASE \E i \in DOMAIN list : list[i].pos = p
      <4>1. PICK i \in 1..(e - start) : start + i - 1 = p
        BY <3>2, <1>8
      <4> QED BY <4>1, <1>7
    <3> QED BY <3>1, <3>2, <2>2
  <2>7. \A p \in 0..(e - 1) : p \in 0..(start - 1) \/ p \in start..(e - 1)
    BY <1>7
  <2> QED BY <2>1, <2>4, <2>5, <2>6, <2>7
<1>12. /\ logits' \in Seq([seq : SeqIds, pos : Nat, tok : Tokens])
       /\ DOMAIN logits' = 1..(e - start)
       /\ \A i \in 1..(e - start) :
             start + i = shape[r].prompt =>
                logits'[i].tok = Predicted(kv'[seqId[r]], start + i - 1)
  <2>1. /\ logits' \in Seq([seq : SeqIds, pos : Nat, tok : Tokens])
        /\ DOMAIN logits' = DOMAIN list
        /\ \A i \in DOMAIN list :
              list[i].want => logits'[i].tok = Predicted(kv'[list[i].seq], list[i].pos)
    BY <1>4, <1>8, DecodeLogits
  <2>2. \A i \in 1..(e - start) :
           start + i = shape[r].prompt =>
              list[i].want /\ list[i].seq = seqId[r] /\ list[i].pos = start + i - 1
    BY <1>8
  <2>3. ASSUME NEW i \in 1..(e - start), start + i = shape[r].prompt
        PROVE  logits'[i].tok = Predicted(kv'[seqId[r]], start + i - 1)
    <3>1. i \in DOMAIN list
      BY <1>8
    <3>2. logits'[i].tok = Predicted(kv'[list[i].seq], list[i].pos)
      BY <3>1, <2>1, <2>2, <2>3
    <3>3. list[i].seq = seqId[r] /\ list[i].pos = start + i - 1
      BY <2>2, <2>3
    <3> QED BY <3>2, <3>3
  <2>4. DOMAIN logits' = 1..(e - start)
    BY <2>1, <1>8
  <2> QED BY <2>1, <2>3, <2>4
<1>13. /\ DOMAIN logitsIdx' = DOMAIN logitsIdx \cup {r} /\ logitsIdx'[r] = e - start
       /\ \A q \in DOMAIN logitsIdx : q # r => logitsIdx'[q] = logitsIdx[q]
  BY <1>4 DEF Put
<1>14. Typed'
  <2>1. DOMAIN logitsIdx' \subseteq Requests
    BY <1>6, <1>13 DEF IInv, Typed
  <2> QED BY <2>1, <1>4, <1>5, <1>7, <1>12 DEF IInv, Typed
<1>15. QueueInv' /\ LastOK' /\ BatchOK'
  BY <1>4, RequestsKept DEF IInv
<1>16. CacheOK'
  <2>1. e <= NCtx
    <3>1. shape[r] \in Shapes /\ Fits(shape[r])
      BY <1>6 DEF IInv, QueueInv, FitsContext
    <3>2. shape[r].maxTokens \in Nat
      BY <1>6, ShapeFacts DEF IInv
    <3> QED BY <3>1, <3>2, <1>7, StaticAssumption DEF Fits
  <2>2. \A p \in 0..(e - 1) : p \in 0..(NCtx - 1) /\ <<r, p>> \in Tokens
    BY <2>1, <1>6, <1>7, StaticAssumption DEF Tokens
  <2>3. ASSUME NEW s \in SeqIds, NEW p \in DOMAIN kv'[s]
        PROVE  p \in 0..(NCtx - 1) /\ kv'[s][p] \in Tokens
    <3>1. CASE s = seqId[r]
      BY <3>1, <2>2, <2>3, <1>11
    <3>2. CASE s # seqId[r]
      BY <3>2, <2>3, <1>10 DEF IInv, CacheOK
    <3> QED BY <3>1, <3>2
  <2>4. ASSUME NEW s \in SeqIds, \A q \in ToSet(batch) : seqId[q] # s
        PROVE  DOMAIN kv'[s] = {}
    BY <2>4, <1>6, <1>10 DEF IInv, CacheOK
  <2> QED BY <2>3, <2>4, <1>5, <1>9 DEF CacheOK
<1>17. ASSUME NEW q \in ToSet(batch), q # r, NEW n
       PROVE  Caches(q, n) => (Caches(q, n))'
  <2>1. seqId[q] \in SeqIds /\ seqId[q] # seqId[r]
    BY <1>6, <1>17, InBatch, OwnSequence DEF IInv
  <2>2. \A p : (CellAt(q, p))' = CellAt(q, p)
    BY <1>5 DEF CellAt
  <2> QED BY <2>1, <2>2, <1>5, <1>10 DEF Caches
<1>18. (Caches(r, start))'
  <2>1. \A p \in 0..(e - 1) : p < shape[r].prompt
    BY <1>7
  <2> QED BY <2>1, <1>4, <1>5, <1>11 DEF Caches, CellAt
<1>19. e = shape[r].prompt => (ReadsNext(r))'
  <2> HAVE e = shape[r].prompt
  <2>1. PICK m : m = e - start
    OBVIOUS
  <2>2. m \in 1..(e - start) /\ start + m = shape[r].prompt /\ start + m - 1 = e - 1
    BY <2>1, <1>7
  <2>3. logitsIdx'[r] = m /\ logits'[m].tok = Predicted(kv'[seqId[r]], e - 1)
    BY <2>1, <2>2, <1>12, <1>13
  <2>4. e - 1 \in Nat /\ (e - 1) + 1 = e
    BY <1>7
  <2>5. HoldsContext(kv'[seqId[r]], r, (e - 1) + 1)
    BY <2>4, <1>11 DEF HoldsContext
  <2>6. Predicted(kv'[seqId[r]], e - 1) = <<r, (e - 1) + 1>>
    BY <2>4, <2>5, <1>6, PredictedNext
  <2>7. shape[r].prompt + Len(output[r]) = e
    BY <1>6, <1>7, EmptyList
  <2> QED BY <2>3, <2>4, <2>6, <2>7, <1>5 DEF ReadsNext
<1>20. PhaseOK'
  <2>1. PrefillOK'
    <3>1. Visiting(batch)' /\ still' = << >> /\ slots' = << >>
      BY <1>4, <1>5 DEF IInv, PhaseOK, PrefillOK, Visiting
    <3>2. \A q \in ToSet(batch) : (IsLast(q))' = IsLast(q)
      BY <1>5 DEF IsLast
    <3>3. ASSUME NEW q \in ToSet(batch), q \notin ToSet(todo)
          PROVE  (Prefilled(q))'
      <4>1. q # r /\ Prefilled(q) /\ ~ IsLast(q)
        BY <3>3, <1>4, <1>6 DEF IInv, PhaseOK, PrefillOK
      <4>2. (Caches(q, shape[q].prompt))'
        BY <4>1, <1>5, <1>17 DEF Prefilled, Caches
      <4> QED BY <4>1, <4>2, <3>2, <1>5 DEF Prefilled
    <3>4. (Prefilling(r))'
      BY <1>4, <1>5, <1>7, <1>18, <1>19 DEF Prefilling
    <3>5. ASSUME NEW q \in ToSet(batch), q \in ToSet(todo), q # r
          PROVE  (Caches(q, 0))' /\ q \notin DOMAIN logitsIdx'
      BY <3>5, <1>1, <1>4, <1>13, <1>17 DEF IInv, PhaseOK, PrefillOK
    <3>6. \A q \in ToSet(batch) :
             /\ output'[q] = << >>
             /\ q \in ToSet(todo) => stage'[q] = "prefill"
             /\ IsLast(q) => q \in ToSet(todo)
      BY <1>4, <1>5 DEF IInv, PhaseOK, PrefillOK
    <3> QED BY <3>1, <3>2, <3>3, <3>4, <3>5, <3>6, <1>1, <1>4, <1>5 DEF PrefillOK
  <2> QED BY <2>1, <1>4 DEF PhaseOK, IdleOK, SampleOK, ReleaseOK, CleanOK
<1> QED BY <1>14, <1>15, <1>16, <1>20 DEF IInv

(* A request of the batch goes on, or ends. *)
LEMMA StageMoves ==
    ASSUME IInv, NEW r \in ToSet(batch),
           UNCHANGED <<waiting, arrived, submitting, shape, seqId, batch>>,
           stage'[r] \in {"decode", "done", "aborted"}, Finished(r) => stage'[r] # "decode",
           \A q \in Requests : q # r => stage'[q] = stage[q]
    PROVE  QueueOK' /\ FitsContext' /\ BatchOK'
<1>1. r \in Requests /\ Scheduled(r)
  BY InBatch DEF IInv
<1>2. stage[r] \in {"prefill", "decode", "done", "aborted"}
  BY <1>1 DEF IInv, QueueInv, QueueOK
<1>3. \A q \in Requests : (Scheduled(q))' <=> Scheduled(q)
  BY DEF Scheduled
<1>4. QueueOK'
  <2>1. \A q \in Requests :
          /\ stage'[q] = "new" <=> stage[q] = "new"
          /\ stage'[q] = "queued" <=> stage[q] = "queued"
          /\ stage'[q] \in {"prefill", "decode", "done", "aborted"} <=>
             stage[q] \in {"prefill", "decode", "done", "aborted"}
    BY <1>2
  <2> QED BY <2>1, <1>3 DEF IInv, QueueInv, QueueOK
<1>5. FitsContext'
  BY <1>1, <1>2 DEF IInv, QueueInv, FitsContext, Fits
<1>6. BatchOK'
  <2>1. \A q \in Requests : Finished(q) /\ q # r => (Finished(q))'
    BY DEF Finished
  <2> QED BY <2>1, <1>3 DEF IInv, BatchOK
<1> QED BY <1>4, <1>5, <1>6

LEMMA PrefillEndStep ==
    ASSUME IInv, PrefillEnd
    PROVE  IInv'
<1>1. PICK r : r = Head(todo)
  OBVIOUS
<1>2. PICK rest : rest = Tail(todo)
  OBVIOUS
<1>3. /\ pc = "prefill" /\ pc' = pc /\ todo # << >> /\ start >= shape[r].prompt
      /\ nComputed' = [nComputed EXCEPT ![r] = shape[r].prompt]
      /\ stage' = [stage EXCEPT ![r] = "decode"]
      /\ todo' = rest /\ start' = 0
      /\ UNCHANGED <<kv, logits, waiting, runningN, arrived, submitting, shape, seqId,
                     output, queue, batch, active, still, slots, logitsIdx>>
  BY <1>1, <1>2 DEF PrefillEnd, clientVars, backendVars
<1>4. todo \in Seq(Requests) /\ Visiting(batch)
  BY <1>3 DEF IInv, Typed, PhaseOK, PrefillOK
<1>5. /\ r \in ToSet(todo) /\ rest \in Seq(Requests) /\ Rising(rest)
      /\ ToSet(rest) = ToSet(todo) \ {r} /\ \A q \in ToSet(rest) : r < q
      /\ rest # << >> => Head(rest) \in ToSet(rest)
  <2>1. /\ r \in ToSet(todo) /\ rest \in Seq(Requests) /\ Rising(rest)
        /\ ToSet(rest) = ToSet(todo) \ {r} /\ \A q \in ToSet(rest) : r < q
        /\ ToSet(rest) # {} => Head(rest) \in ToSet(rest)
    BY <1>1, <1>2, <1>3, <1>4, RisingTail DEF Visiting
  <2> QED BY <2>1, ListElements
<1>6. /\ r \in ToSet(batch) /\ r \in Requests /\ output[r] = << >> /\ Prefilling(r)
      /\ stage[r] = "prefill"
  <2>1. r \in ToSet(batch)
    BY <1>4, <1>5 DEF Visiting
  <2>2. r \in Requests
    BY <2>1, InBatch DEF IInv
  <2> QED BY <2>1, <2>2, <1>1, <1>3, <1>5 DEF IInv, PhaseOK, PrefillOK
<1>7. /\ shape[r].prompt \in Nat /\ shape[r].maxTokens \in Nat \ {0}
      /\ start = shape[r].prompt
  <2>1. start \in Nat
    BY DEF IInv, Typed
  <2> QED BY <2>1, <1>3, <1>6, ShapeFacts DEF IInv, Prefilling
<1>8. /\ stage'[r] = "decode" /\ nComputed'[r] = shape[r].prompt
      /\ \A q \in Requests : q # r => stage'[q] = stage[q] /\ nComputed'[q] = nComputed[q]
      /\ stage' \in [Requests -> Stages] /\ nComputed' \in [Requests -> Nat]
  BY <1>3, <1>6, <1>7 DEF IInv, Typed, Stages
<1>9. Typed'
  BY <1>3, <1>5, <1>8 DEF IInv, Typed
<1>10. QueueOK' /\ FitsContext' /\ BatchOK'
  <2>1. ~ Finished(r)
    BY <1>6 DEF Finished
  <2> QED BY <2>1, <1>3, <1>6, <1>8, StageMoves
<1>11. WithinMax'
  BY <1>3 DEF IInv, QueueInv, WithinMax, Pending
<1>12. StreamsOK'
  <2>1. ASSUME NEW q \in Requests, q # r PROVE (StreamOf(q))'
    BY <2>1, <1>3, <1>8 DEF IInv, QueueInv, StreamsOK, StreamOf, Open, Finished
  <2>2. (StreamOf(r))'
    <3>1. Len(output[r]) = 0
      BY <1>6, EmptyList
    <3>2. Open(r)
      BY <1>6 DEF IInv, QueueInv, StreamsOK, StreamOf, Finished
    <3> QED BY <3>1, <3>2, <1>3, <1>7, <1>8 DEF StreamOf, Open
  <2> QED BY <2>1, <2>2 DEF StreamsOK
<1>13. Counted'
  <2>1. Unclosed' = Unclosed
    BY <1>3 DEF Unclosed, Open, Scheduled
  <2> QED BY <2>1, <1>3 DEF IInv, QueueInv, Counted
<1>14. CacheOK' /\ LastOK'
  BY <1>3 DEF IInv, CacheOK, LastOK, PrefilledLast, ScheduledAfter, OutputExact
<1>15. PhaseOK'
  <2>1. PrefillOK'
    <3>1. Visiting(batch)' /\ still' = << >> /\ slots' = << >>
      BY <1>3, <1>4, <1>5 DEF IInv, PhaseOK, PrefillOK, Visiting
    <3>2. \A q \in ToSet(batch) :
             /\ (IsLast(q))' = IsLast(q) /\ (ReadsNext(q))' = ReadsNext(q)
             /\ \A n : (Caches(q, n))' = Caches(q, n)
      BY <1>3 DEF IsLast, ReadsNext, HasLogits, Caches, CellAt
    <3>3. ASSUME NEW q \in ToSet(batch), q # r, q \notin ToSet(rest)
          PROVE  (Prefilled(q))'
      <4>1. Prefilled(q)
        BY <3>3, <1>3, <1>5 DEF IInv, PhaseOK, PrefillOK
      <4>2. (Caches(q, shape[q].prompt))'
        BY <4>1, <1>3 DEF Prefilled, Caches, CellAt
      <4>3. stage'[q] = stage[q]
        BY <3>3, <1>8, InBatch DEF IInv
      <4> QED BY <4>1, <4>2, <4>3, <3>2 DEF Prefilled
    <3>4. (Prefilled(r))'
      <4>1. (Caches(r, shape[r].prompt))'
        BY <1>3, <1>6, <1>7 DEF Prefilling, Caches, CellAt
      <4>2. IsLast(r) => ReadsNext(r)
        BY <1>6, <1>7 DEF Prefilling, ReadsNext, HasLogits
      <4> QED BY <4>1, <4>2, <3>2, <1>6, <1>8 DEF Prefilled
    <3>5. ASSUME NEW q \in ToSet(batch), q \in ToSet(rest)
          PROVE  /\ stage'[q] = "prefill" /\ (Caches(q, 0))' /\ (Prefilling(q))'
                 /\ q \notin DOMAIN logitsIdx'
      <4>1. q # r /\ q \in ToSet(todo) /\ q \in Requests
        BY <3>5, <1>5, InBatch DEF IInv
      <4>2. stage[q] = "prefill" /\ Caches(q, 0) /\ q \notin DOMAIN logitsIdx
        BY <4>1, <1>1, <1>3 DEF IInv, PhaseOK, PrefillOK
      <4>3. (Caches(q, 0))' /\ (Caches(q, start))'
        BY <4>2, <1>3 DEF Caches, CellAt
      <4>4. shape[q].prompt \in Nat
        BY <4>1, ShapeFacts DEF IInv
      <4> QED BY <4>1, <4>2, <4>3, <4>4, <1>3, <1>8 DEF Prefilling
    <3>6. ASSUME NEW q \in ToSet(batch), IsLast(q), rest # << >> PROVE q \in ToSet(rest)
      <4>1. q \in ToSet(todo)
        BY <3>6, <1>3 DEF IInv, PhaseOK, PrefillOK
      <4>2. PICK h : h \in ToSet(rest)
        BY <3>6, <1>5
      <4>3. h \in ToSet(batch) /\ r < h
        BY <4>2, <1>4, <1>5 DEF Visiting
      <4>4. h <= q /\ h \in Nat /\ q \in Nat /\ r \in Nat
        <5>1. h <= q
          BY <4>3, <3>6 DEF IsLast
        <5>2. h \in Requests /\ q \in Requests /\ r \in Requests
          BY <4>3, <3>6, <1>6, InBatch DEF IInv
        <5> QED BY <5>1, <5>2, StaticAssumption DEF Requests
      <4> QED BY <4>1, <4>3, <4>4, <1>5
    <3>7. \A q \in ToSet(batch) : output'[q] = << >>
      BY <1>3 DEF IInv, PhaseOK, PrefillOK
    <3> QED BY <3>1, <3>2, <3>3, <3>4, <3>5, <3>6, <3>7, <1>3, <1>5 DEF PrefillOK
  <2> QED BY <2>1, <1>3 DEF PhaseOK, IdleOK, SampleOK, ReleaseOK, CleanOK
<1> QED BY <1>9, <1>10, <1>11, <1>12, <1>13, <1>14, <1>15 DEF IInv, QueueInv

LEMMA PrefillDoneStep ==
    ASSUME IInv, PrefillDone
    PROVE  IInv'
<1>1. /\ pc = "prefill" /\ todo = << >> /\ active' = batch /\ todo' = batch
      /\ pc' = "sample"
      /\ UNCHANGED <<kv, logits, waiting, runningN, arrived, submitting, batch, still,
                     slots, logitsIdx, start>>
      /\ UNCHANGED <<shape, stage, seqId, nComputed, output, queue>>
  BY DEF PrefillDone, backendVars, clientVars, requestVars
<1>2. Typed'
  BY <1>1 DEF IInv, Typed
<1>3. QueueInv' /\ LastOK' /\ BatchOK'
  BY <1>1, RequestsKept DEF IInv, requestVars
<1>4. CacheOK'
  BY <1>1 DEF IInv, CacheOK
<1>5. ToSet(todo) = {} /\ still = << >> /\ slots = << >> /\ start = 0 /\ Rising(batch)
  BY <1>1, EmptyList DEF IInv, PhaseOK, PrefillOK, BatchOK
<1>6. ASSUME NEW r \in ToSet(batch)
      PROVE  (Open(r))' /\ (ToSample(r))'
  <2>1. r \in Requests
    BY InBatch DEF IInv
  <2>2. Prefilled(r) /\ output[r] = << >>
    BY <1>1, <1>5 DEF IInv, PhaseOK, PrefillOK
  <2>3. Open(r) /\ nComputed[r] = shape[r].prompt + Len(output[r])
    BY <2>1, <2>2 DEF Prefilled, IInv, QueueInv, StreamsOK, StreamOf, Finished
  <2>4. nComputed[r] = shape[r].prompt
    BY <2>1, <2>2, <2>3, ShapeFacts, EmptyList DEF IInv
  <2>5. (Caches(r, nComputed[r]))'
    BY <2>2, <2>4, <1>1 DEF Prefilled, Caches, CellAt
  <2>6. (IsLast(r) => ReadsNext(r))'
    BY <2>2, <1>1 DEF Prefilled, IsLast, ReadsNext, HasLogits
  <2> QED BY <2>2, <2>3, <2>5, <2>6, <1>1 DEF Open, ToSample, Prefilled
<1>7. PhaseOK'
  <2>1. DecodesNext'
    <3>1. ToSet(still) = {} /\ Rising(still) /\ Len(still) = 0
      BY <1>5, EmptyList
    <3> QED BY <3>1, <1>1, <1>5 DEF DecodesNext
  <2>2. SampleOK'
    <3>1. ToSet(still) = {}
      BY <1>5, EmptyList
    <3> QED BY <2>1, <3>1, <1>1, <1>5, <1>6 DEF SampleOK, Visiting
  <2> QED BY <2>2, <1>1 DEF PhaseOK, IdleOK, PrefillOK, ReleaseOK, CleanOK
<1> QED BY <1>2, <1>3, <1>4, <1>7 DEF IInv
-----------------------------------------------------------------------------
(***************************************************************************)
(* The thread samples.                                                     *)
(***************************************************************************)
(* The youngest request of the batch is the one that no other followed.    *)
LEMMA LastOfBatch ==
    ASSUME IInv, NEW r \in ToSet(batch)
    PROVE  PrefilledLast(r) <=> IsLast(r)
<1>1. \A q \in ToSet(batch) : q \in Requests /\ q \in Nat /\ seqId[q] \in Nat
  BY InBatch, StaticAssumption DEF IInv, Requests
<1>2. r \in Requests /\ Scheduled(r)
  BY InBatch DEF IInv
<1>3. \A q \in ScheduledAfter(r) : q \in ToSet(batch) /\ q > r
  <2> SUFFICES ASSUME NEW q \in ScheduledAfter(r) PROVE q \in ToSet(batch) /\ q > r
    OBVIOUS
  <2>1. q \in Requests /\ Scheduled(q) /\ q > r
    BY DEF ScheduledAfter, Scheduled
  <2>2. q \notin ToSet(batch) => q < r
    BY <2>1 DEF IInv, BatchOK
  <2> QED BY <2>1, <2>2, <1>1, StaticAssumption DEF Requests
<1>4. ASSUME IsLast(r) PROVE PrefilledLast(r)
  <2>1. \A q \in ScheduledAfter(r) : FALSE
    BY <1>1, <1>3, <1>4 DEF IsLast
  <2> QED BY <2>1, <1>2 DEF PrefilledLast, Scheduled
<1>5. ASSUME PrefilledLast(r), ~ IsLast(r) PROVE FALSE
  <2>1. PICK h \in ToSet(batch) : ~ (h <= r)
    BY <1>5 DEF IsLast
  <2>2. h > r /\ Scheduled(h) /\ h \in Requests
    BY <2>1, <1>1, InBatch DEF IInv
  <2>3. h \in ScheduledAfter(r)
    BY <2>2 DEF ScheduledAfter, Scheduled
  <2>4. PICK m : m = Min(ScheduledAfter(r))
    OBVIOUS
  <2>5. ScheduledAfter(r) \in SUBSET Nat
    BY <1>1, <1>3
  <2>6. m \in ScheduledAfter(r)
    BY <2>3, <2>4, <2>5, LeastNumber
  <2>7. seqId[m] = 0
    BY <2>3, <2>4, <1>5 DEF PrefilledLast
  <2>8. m \in ToSet(batch) /\ r < m
    BY <2>6, <1>1, <1>3
  <2>9. seqId[r] < seqId[m]
    BY <2>8 DEF IInv, BatchOK
  <2> QED BY <2>7, <2>9, <1>1
<1> QED BY <1>4, <1>5

(* The next request to be sampled. *)
LEMMA NextToSample ==
    ASSUME IInv, pc = "sample", todo # << >>,
           NEW r, r = Head(todo), NEW rest, rest = Tail(todo)
    PROVE  /\ r \in ToSet(todo) /\ r \in ToSet(active) /\ r \in ToSet(batch) /\ r \in Requests
           /\ r \notin ToSet(still) /\ \A q \in ToSet(still) : q < r
           /\ rest \in Seq(Requests) /\ Rising(rest) /\ ToSet(rest) = ToSet(todo) \ {r}
           /\ \A q \in ToSet(rest) : r < q
           /\ stage[r] = "decode" /\ ToSample(r) /\ Open(r)
           /\ nComputed[r] = shape[r].prompt + Len(output[r])
<1>1. todo \in Seq(Requests) /\ Visiting(active)
  BY DEF IInv, Typed, PhaseOK, SampleOK
<1>2. /\ r \in ToSet(todo) /\ rest \in Seq(Requests) /\ Rising(rest)
      /\ ToSet(rest) = ToSet(todo) \ {r} /\ \A q \in ToSet(rest) : r < q
  BY <1>1, RisingTail DEF Visiting
<1>3. r \in ToSet(active) /\ r \in ToSet(batch)
  BY <1>1, <1>2 DEF Visiting, IInv, PhaseOK, SampleOK, DecodesNext
<1>4. r \in Requests
  BY <1>3, InBatch DEF IInv
<1>5. ToSample(r) /\ Open(r) /\ \A q \in ToSet(still) : q < r
  BY <1>2, <1>3 DEF IInv, PhaseOK, SampleOK
<1>6. r \notin ToSet(still)
  BY <1>4, <1>5, StaticAssumption DEF Requests
<1>7. stage[r] = "decode"
  BY <1>5 DEF ToSample
<1>8. nComputed[r] = shape[r].prompt + Len(output[r])
  BY <1>4, <1>7 DEF IInv, QueueInv, StreamsOK, StreamOf
<1> QED BY <1>2, <1>3, <1>4, <1>5, <1>6, <1>7, <1>8

(* What happens to one request is nothing to another. *)
LEMMA OthersKept ==
    ASSUME NEW q,
           UNCHANGED <<kv, logits, logitsIdx, shape, seqId, batch, active>>,
           stage'[q] = stage[q], nComputed'[q] = nComputed[q],
           output'[q] = output[q], queue'[q] = queue[q]
    PROVE  /\ StreamOf(q) => (StreamOf(q))'
           /\ Open(q) => (Open(q))'
           /\ Finished(q) => (Finished(q))'
           /\ Continues(q) => (Continues(q))'
           /\ ToSample(q) => (ToSample(q))'
           /\ OutputExact(q) => (OutputExact(q))'
<1>1. /\ StreamOf(q) => (StreamOf(q))'
      /\ Open(q) => (Open(q))'
      /\ Finished(q) => (Finished(q))'
  BY DEF StreamOf, Open, Finished
<1>2. \A p : (CellAt(q, p))' = CellAt(q, p)
  BY DEF CellAt
<1>3. /\ Caches(q, nComputed[q]) => (Caches(q, nComputed[q]))'
      /\ Caches(q, nComputed[q] - 1) => (Caches(q, nComputed[q] - 1))'
  BY <1>2 DEF Caches
<1>4. (HasLogits(q))' = HasLogits(q) /\ (IsLast(q))' = IsLast(q)
  BY DEF HasLogits, IsLast
<1>5. (ReadsNext(q))' = ReadsNext(q) /\ (ReadsOwn(q))' = ReadsOwn(q)
  BY <1>4 DEF ReadsNext, ReadsOwn
<1>6. OutputExact(q) => (OutputExact(q))'
  BY DEF OutputExact
<1> QED BY <1>1, <1>3, <1>4, <1>5, <1>6 DEF Continues, ToSample

LEMMA SampleEosStep ==
    ASSUME IInv, NEW r \in Requests, SampleEos(r)
    PROVE  IInv'
<1>1. PICK rest : rest = Tail(todo)
  OBVIOUS
<1>2. /\ pc = "sample" /\ pc' = pc /\ todo # << >> /\ r = Head(todo)
      /\ todo' = rest /\ stage' = [stage EXCEPT ![r] = "done"]
      /\ UNCHANGED <<kv, logits, waiting, runningN, arrived, submitting, shape, seqId,
                     nComputed, output, queue, batch, active, still, slots, logitsIdx,
                     start>>
  BY <1>1 DEF SampleEos, Sampling, backendVars, clientVars
<1>3. /\ r \in ToSet(active) /\ r \in ToSet(batch)
      /\ r \notin ToSet(still) /\ \A q \in ToSet(still) : q < r
      /\ rest \in Seq(Requests) /\ Rising(rest) /\ ToSet(rest) = ToSet(todo) \ {r}
      /\ stage[r] = "decode" /\ Open(r)
  BY <1>1, <1>2, NextToSample
<1>4. /\ stage'[r] = "done" /\ stage' \in [Requests -> Stages]
      /\ \A q \in Requests : q # r => stage'[q] = stage[q]
  BY <1>2 DEF IInv, Typed, Stages
<1>5. Typed'
  BY <1>2, <1>3, <1>4 DEF IInv, Typed
<1>6. QueueOK' /\ FitsContext' /\ BatchOK'
  <2>1. ~ Finished(r)
    BY <1>3 DEF Finished
  <2> QED BY <2>1, <1>2, <1>3, <1>4, StageMoves
<1>7. WithinMax'
  BY <1>2 DEF IInv, QueueInv, WithinMax, Pending
<1>8. StreamsOK'
  <2>1. \A q \in Requests : q # r => (StreamOf(q))'
    BY <1>2, <1>4, OthersKept DEF IInv, QueueInv, StreamsOK
  <2>2. (StreamOf(r))'
    BY <1>2, <1>3, <1>4 DEF StreamOf, Open, Finished
  <2> QED BY <2>1, <2>2 DEF StreamsOK
<1>9. Counted'
  <2>1. Unclosed' = Unclosed
    BY <1>2 DEF Unclosed, Open, Scheduled
  <2> QED BY <2>1, <1>2 DEF IInv, QueueInv, Counted
<1>10. CacheOK' /\ LastOK'
  BY <1>2 DEF IInv, CacheOK, LastOK, PrefilledLast, ScheduledAfter, OutputExact
<1>11. PhaseOK'
  <2>1. ASSUME NEW q \in ToSet(batch), q # r
        PROVE  /\ Open(q) => (Open(q))'
               /\ Finished(q) => (Finished(q))'
               /\ Continues(q) => (Continues(q))'
               /\ ToSample(q) => (ToSample(q))'
               /\ stage'[q] = stage[q]
    <3>1. stage'[q] = stage[q]
      BY <2>1, <1>4, InBatch DEF IInv
    <3> QED BY <3>1, <1>2, OthersKept
  <2>2. SampleOK
    BY DEF IInv, PhaseOK
  <2>4. ToSet(active) \subseteq ToSet(batch)
    BY <1>2, <2>2 DEF SampleOK, DecodesNext
  <2>3. DecodesNext'
    <3>1. ASSUME NEW q \in ToSet(still) PROVE (Continues(q))'
      <4>1. Continues(q)
        BY <1>2, <2>2 DEF SampleOK, DecodesNext
      <4>2. q \in ToSet(batch) /\ q # r
        BY <4>1, <2>4, <1>3 DEF Continues
      <4> QED BY <4>1, <4>2, <2>1
    <3>2. ASSUME NEW q \in ToSet(batch), q \notin ToSet(active) PROVE (Finished(q))'
      <4>1. Finished(q) /\ q # r
        BY <3>2, <1>2, <1>3, <2>2 DEF SampleOK, DecodesNext
      <4> QED BY <4>1, <2>1
    <3> QED BY <3>1, <3>2, <1>2, <2>2 DEF SampleOK, DecodesNext
  <2>5. \A q \in ToSet(active) : (Open(q))'
    BY <1>2, <2>2 DEF SampleOK, Open
  <2>6. \A q \in ToSet(active) : q \notin ToSet(rest) => stage'[q] = "done" \/ q \in ToSet(still)
    BY <1>2, <1>3, <1>4, <2>1, <2>2, <2>4 DEF SampleOK
  <2>7. ASSUME NEW q \in ToSet(rest) PROVE q \in ToSet(active) /\ (ToSample(q))'
    <3>1. q \in ToSet(todo) /\ q # r
      BY <1>3
    <3>2. ToSample(q) /\ q \in ToSet(active)
      BY <3>1, <1>2, <2>2 DEF SampleOK, Visiting
    <3> QED BY <3>1, <3>2, <2>1, <2>4
  <2>8. \A p \in ToSet(still) : \A q \in ToSet(rest) : p < q
    BY <1>2, <1>3, <2>2 DEF SampleOK
  <2>9. SampleOK'
    BY <2>2, <2>3, <2>5, <2>6, <2>7, <2>8, <1>2, <1>3 DEF SampleOK, Visiting
  <2> QED BY <2>9, <1>2 DEF PhaseOK, IdleOK, PrefillOK, ReleaseOK, CleanOK
<1> QED BY <1>5, <1>6, <1>7, <1>8, <1>9, <1>10, <1>11 DEF IInv, QueueInv

LEMMA SampleTokenStep ==
    ASSUME IInv, NEW r \in Requests, SampleToken(r)
    PROVE  IInv'
<1>1. PICK rest : rest = Tail(todo)
  OBVIOUS
<1>2. PICK tok : tok = logits[logitsIdx[r]].tok
  OBVIOUS
<1>3. /\ pc = "sample" /\ pc' = pc /\ todo # << >> /\ r = Head(todo)
      /\ todo' = rest /\ HasLogits(r)
      /\ output' = [output EXCEPT ![r] = Append(@, tok)]
      /\ queue' = [queue EXCEPT ![r] = Append(@, tok)]
      /\ UNCHANGED <<kv, logits, waiting, runningN, arrived, submitting, shape, seqId,
                     batch, active, logitsIdx, start>>
  BY <1>1, <1>2 DEF SampleToken, Sampling, backendVars, clientVars
<1>4. \/ /\ stage' = [stage EXCEPT ![r] = "done"]
         /\ UNCHANGED <<slots, still, nComputed>>
      \/ /\ Len(output'[r]) < shape[r].maxTokens
         /\ slots' = Append(slots, TokenSlot(seqId[r], tok, nComputed[r], TRUE))
         /\ nComputed' = [nComputed EXCEPT ![r] = @ + 1]
         /\ still' = Append(still, r)
         /\ UNCHANGED stage
  BY <1>2 DEF SampleToken
<1>5. /\ r \in ToSet(todo) /\ r \in ToSet(active) /\ r \in ToSet(batch)
      /\ r \notin ToSet(still) /\ \A q \in ToSet(still) : q < r
      /\ rest \in Seq(Requests) /\ Rising(rest) /\ ToSet(rest) = ToSet(todo) \ {r}
      /\ \A q \in ToSet(rest) : r < q
      /\ stage[r] = "decode" /\ ToSample(r) /\ Open(r)
      /\ nComputed[r] = shape[r].prompt + Len(output[r])
  BY <1>1, <1>3, NextToSample
<1>6. tok \in Tokens
  <2>1. logits \in Seq([seq : SeqIds, pos : Nat, tok : Tokens])
    BY DEF IInv, Typed
  <2>2. logitsIdx[r] \in 1..Len(logits)
    BY <2>1, <1>3, LenProperties DEF HasLogits
  <2>3. logits[logitsIdx[r]] \in [seq : SeqIds, pos : Nat, tok : Tokens]
    BY <2>1, <2>2, ElementOfSeq
  <2> QED BY <2>3, <1>2
<1>7. /\ output \in [Requests -> Seq(Tokens)] /\ output[r] \in Seq(Tokens)
      /\ queue \in [Requests -> Seq(Tokens \cup {SENTINEL})] /\ queue[r] = output[r]
      /\ nComputed \in [Requests -> Nat] /\ nComputed[r] \in Nat
      /\ stage \in [Requests -> Stages]
  BY <1>5 DEF IInv, Typed, Open
<1>8. /\ output'[r] = Append(output[r], tok) /\ queue'[r] = output'[r]
      /\ \A q \in Requests : q # r => output'[q] = output[q] /\ queue'[q] = queue[q]
  BY <1>3, <1>7
<1>9. /\ Append(output[r], tok) \in Seq(Tokens) /\ Len(output[r]) \in Nat
      /\ Len(Append(output[r], tok)) = Len(output[r]) + 1
      /\ \A i \in 1..Len(output[r]) : Append(output[r], tok)[i] = output[r][i]
      /\ Append(output[r], tok)[Len(output[r]) + 1] = tok
  BY <1>6, <1>7, AppendProperties, LenProperties
<1>10. /\ output'[r] \in Seq(Tokens) /\ Len(output[r]) \in Nat
       /\ Len(output'[r]) = Len(output[r]) + 1 /\ output'[r] # << >>
       /\ \A i \in 1..Len(output[r]) : output'[r][i] = output[r][i]
       /\ output'[r][Len(output[r]) + 1] = tok /\ output'[r][Len(output'[r])] = tok
  <2>1. Len(output'[r]) # 0
    BY <1>8, <1>9
  <2> QED BY <2>1, <1>8, <1>9, EmptyList
<1>11. /\ output' \in [Requests -> Seq(Tokens)]
       /\ queue' \in [Requests -> Seq(Tokens \cup {SENTINEL})]
  <2>1. output'[r] \in Seq(Tokens \cup {SENTINEL})
    BY <1>10, SeqMonotonic
  <2>2. \A q \in Requests :
           output'[q] \in Seq(Tokens) /\ queue'[q] \in Seq(Tokens \cup {SENTINEL})
    BY <2>1, <1>7, <1>8, <1>10
  <2> QED BY <2>2, <1>3, <1>7
<1>12. /\ shape[r].prompt \in Nat /\ shape[r].maxTokens \in Nat
       /\ r \in Nat
  BY ShapeFacts, StaticAssumption DEF IInv, Requests
<1>13. ASSUME NEW q \in Requests
       PROVE  q # r => stage'[q] = stage[q] /\ nComputed'[q] = nComputed[q]
  BY <1>4, <1>7
<1>14. \/ stage'[r] = "done" /\ still' = still /\ slots' = slots
       \/ /\ stage'[r] = "decode" /\ Len(output'[r]) < shape[r].maxTokens
          /\ slots' = Append(slots, TokenSlot(seqId[r], tok, nComputed[r], TRUE))
          /\ still' = Append(still, r) /\ nComputed'[r] = nComputed[r] + 1
  BY <1>4, <1>5, <1>7
<1>15. stage' \in [Requests -> Stages] /\ nComputed' \in [Requests -> Nat]
  <2>1. "done" \in Stages /\ nComputed[r] + 1 \in Nat
    BY <1>7 DEF Stages
  <2>2. stage' \in [Requests -> Stages]
    BY <2>1, <1>4, <1>7
  <2>3. nComputed' \in [Requests -> Nat]
    BY <2>1, <1>4, <1>7
  <2> QED BY <2>2, <2>3
<1>16. SampleOK /\ pc = "sample" /\ Typed
  BY <1>3 DEF IInv, PhaseOK
<1>17. /\ still \in Seq(Requests) /\ Rising(still) /\ Len(still) \in Nat
       /\ Len(slots) = Len(still)
       /\ slots \in Seq([seq : SeqIds, tok : Tokens, pos : Nat, want : BOOLEAN])
       /\ \A i \in 1..Len(still) : still[i] \in ToSet(still)
  <2>1. /\ still \in Seq(Requests) /\ Rising(still)
        /\ Len(slots) = Len(still)
        /\ slots \in Seq([seq : SeqIds, tok : Tokens, pos : Nat, want : BOOLEAN])
    BY <1>16 DEF Typed, SampleOK, DecodesNext
  <2> QED BY <2>1, RisingOnce
<1>18. ASSUME still' = Append(still, r)
       PROVE  /\ still' \in Seq(Requests) /\ Rising(still')
              /\ Len(still') = Len(still) + 1
              /\ \A i \in 1..Len(still) : still'[i] = still[i]
              /\ still'[Len(still) + 1] = r
              /\ ToSet(still') = ToSet(still) \cup {r}
  BY <1>5, <1>17, <1>18, RisingAppend
<1>19. ASSUME slots' = Append(slots, TokenSlot(seqId[r], tok, nComputed[r], TRUE))
       PROVE  /\ slots' \in Seq([seq : SeqIds, tok : Tokens, pos : Nat, want : BOOLEAN])
              /\ Len(slots') = Len(still) + 1
              /\ \A i \in 1..Len(still) : slots'[i] = slots[i]
              /\ slots'[Len(still) + 1] = TokenSlot(seqId[r], tok, nComputed[r], TRUE)
  <2>1. seqId[r] \in SeqIds
    BY <1>5, InBatch DEF IInv
  <2>2. TokenSlot(seqId[r], tok, nComputed[r], TRUE)
            \in [seq : SeqIds, tok : Tokens, pos : Nat, want : BOOLEAN]
    BY <2>1, <1>6, <1>7 DEF TokenSlot
  <2>3. PICK e : e = TokenSlot(seqId[r], tok, nComputed[r], TRUE)
    OBVIOUS
  <2>4. PICK S : S = [seq : SeqIds, tok : Tokens, pos : Nat, want : BOOLEAN]
    OBVIOUS
  <2>5. slots' = Append(slots, e) /\ e \in S /\ slots \in Seq(S)
    BY <2>2, <2>3, <2>4, <1>17, <1>19
  <2>6. /\ slots' \in Seq(S) /\ Len(slots') = Len(slots) + 1
        /\ \A i \in 1..Len(slots) : slots'[i] = slots[i]
        /\ slots'[Len(slots) + 1] = e
    BY <2>5, AppendProperties
  <2> QED BY <2>3, <2>4, <2>6, <1>17
<1>20. Typed'
  <2>1. /\ still' \in Seq(Requests) /\ Len(slots') = Len(still')
        /\ slots' \in Seq([seq : SeqIds, tok : Tokens, pos : Nat, want : BOOLEAN])
    BY <1>14, <1>17, <1>18, <1>19
  <2> QED BY <2>1, <1>3, <1>5, <1>11, <1>15, <1>16 DEF Typed
<1>21. QueueOK' /\ FitsContext' /\ BatchOK'
  <2>1. ~ Finished(r) /\ stage'[r] \in {"decode", "done"}
    BY <1>5, <1>14 DEF Finished
  <2> QED BY <2>1, <1>3, <1>5, <1>13, StageMoves
<1>22. WithinMax'
  BY <1>3 DEF IInv, QueueInv, WithinMax, Pending
<1>23. StreamsOK'
  <2>1. \A q \in Requests : q # r => (StreamOf(q))'
    BY <1>3, <1>8, <1>13, OthersKept DEF IInv, QueueInv, StreamsOK
  <2>2. (StreamOf(r))'
    <3>1. CASE stage'[r] = "done"
      BY <3>1, <1>8 DEF StreamOf, Open, Finished
    <3>2. CASE /\ stage'[r] = "decode" /\ Len(output'[r]) < shape[r].maxTokens
               /\ nComputed'[r] = nComputed[r] + 1
      <4>1. nComputed'[r] = shape[r].prompt + Len(output'[r])
        BY <3>2, <1>5, <1>10, <1>12
      <4> QED BY <3>2, <4>1, <1>3, <1>8 DEF StreamOf, Open, Finished
    <3> QED BY <3>1, <3>2, <1>14
  <2> QED BY <2>1, <2>2 DEF StreamsOK
<1>24. Counted'
  <2>1. \A q \in Requests : (Open(q))' <=> Open(q)
    BY <1>5, <1>8 DEF Open
  <2>2. Unclosed' = Unclosed
    BY <2>1, <1>3 DEF Unclosed, Scheduled
  <2> QED BY <2>2, <1>3 DEF IInv, QueueInv, Counted
<1>25. CacheOK'
  BY <1>3 DEF IInv, CacheOK
<1>26. LastOK'
  <2> SUFFICES ASSUME NEW q \in Requests, (PrefilledLast(q))' PROVE (OutputExact(q))'
    BY DEF LastOK
  <2>1. PrefilledLast(q)
    BY <1>3 DEF PrefilledLast, ScheduledAfter
  <2>2. OutputExact(q)
    BY <2>1 DEF IInv, LastOK
  <2>3. CASE q # r
    BY <2>2, <2>3, <1>3, <1>8, <1>13, OthersKept
  <2>4. CASE q = r
    <3>1. IsLast(r)
      BY <2>1, <2>4, <1>5, LastOfBatch
    <3>2. tok = <<r, shape[r].prompt + Len(output[r])>>
      BY <3>1, <1>2, <1>3, <1>5 DEF ToSample, ReadsNext
    <3>3. ASSUME NEW i \in 1..Len(output'[r])
          PROVE  output'[r][i] = <<r, shape[r].prompt + i - 1>>
      <4>1. CASE i \in 1..Len(output[r])
        BY <4>1, <2>2, <2>4, <1>10 DEF OutputExact
      <4>2. CASE i = Len(output[r]) + 1
        <5>1. shape[r].prompt + i - 1 = shape[r].prompt + Len(output[r])
          BY <4>2, <1>10, <1>12
        <5> QED BY <5>1, <4>2, <3>2, <1>10
      <4> QED BY <4>1, <4>2, <1>10
    <3> QED BY <3>3, <2>4, <1>3 DEF OutputExact
  <2> QED BY <2>3, <2>4
<1>27. ASSUME NEW q \in ToSet(batch), q # r
       PROVE  /\ Open(q) => (Open(q))'
              /\ Finished(q) => (Finished(q))'
              /\ Continues(q) => (Continues(q))'
              /\ ToSample(q) => (ToSample(q))'
              /\ stage'[q] = stage[q] /\ output'[q] = output[q]
              /\ nComputed'[q] = nComputed[q]
  <2>1. q \in Requests
    BY InBatch DEF IInv
  <2> QED BY <2>1, <1>3, <1>8, <1>13, <1>27, OthersKept
<1>28. ASSUME stage'[r] = "decode", nComputed'[r] = nComputed[r] + 1
       PROVE  (Continues(r))'
  <2>1. Caches(r, nComputed[r])
    BY <1>5 DEF ToSample
  <2>2. nComputed'[r] - 1 = nComputed[r]
    BY <1>7, <1>28
  <2>3. \A p \in 0..(nComputed[r] - 1) : (CellAt(r, p))' = CellAt(r, p)
    <3> SUFFICES ASSUME NEW p \in 0..(nComputed[r] - 1)
                 PROVE  (CellAt(r, p))' = CellAt(r, p)
      OBVIOUS
    <3>1. CASE p < shape[r].prompt
      BY <3>1, <1>3 DEF CellAt
    <3>2. CASE ~ (p < shape[r].prompt)
      <4>1. PICK i : i = p - shape[r].prompt + 1
        OBVIOUS
      <4>2. i \in 1..Len(output[r])
        <5>1. PICK n : n = Len(output[r])
          OBVIOUS
        <5>2. PICK m : m = shape[r].prompt
          OBVIOUS
        <5>3. /\ n \in Nat /\ m \in Nat /\ p \in 0..(m + n - 1) /\ ~ (p < m)
              /\ i = p - m + 1
          <6>1. n \in Nat /\ m \in Nat /\ nComputed[r] = m + n
            BY <5>1, <5>2, <1>5, <1>10, <1>12
          <6>2. p \in 0..(nComputed[r] - 1) /\ ~ (p < m) /\ i = p - m + 1
            BY <5>2, <3>2, <4>1
          <6> QED BY <6>1, <6>2
        <5>4. i \in 1..n
          BY <5>3
        <5> QED BY <5>1, <5>4
      <4>3. output'[r][i] = output[r][i]
        BY <4>2, <1>10
      <4> QED BY <3>2, <4>1, <4>3, <1>3 DEF CellAt
    <3> QED BY <3>1, <3>2
  <2>4. (Caches(r, nComputed[r] - 1))'
    BY <2>1, <2>2, <2>3, <1>3 DEF Caches
  <2> QED BY <2>4, <1>3, <1>5, <1>10, <1>28 DEF Continues
<1>29. /\ ToSet(active) \subseteq ToSet(batch)
       /\ \A q \in ToSet(still) : q \in ToSet(batch) /\ q # r /\ Continues(q)
  <2>1. ToSet(active) \subseteq ToSet(batch) /\ \A q \in ToSet(still) : Continues(q)
    BY <1>16 DEF SampleOK, DecodesNext
  <2>2. \A q \in ToSet(still) : q \in ToSet(active)
    BY <2>1 DEF Continues
  <2> QED BY <2>1, <2>2, <1>5
<1>30. ASSUME NEW i \in 1..Len(still)
       PROVE  slots[i] = TokenSlot(seqId'[still[i]], output'[still[i]][Len(output'[still[i]])],
                                   nComputed'[still[i]] - 1, TRUE)
  <2>1. still[i] \in ToSet(batch) /\ still[i] # r
    BY <1>17, <1>29
  <2>2. output'[still[i]] = output[still[i]] /\ nComputed'[still[i]] = nComputed[still[i]]
    BY <2>1, <1>27
  <2>3. slots[i] = TokenSlot(seqId[still[i]], output[still[i]][Len(output[still[i]])],
                             nComputed[still[i]] - 1, TRUE)
    BY <1>16 DEF SampleOK, DecodesNext
  <2> QED BY <2>2, <2>3, <1>3
<1>31. DecodesNext'
  <2>1. ASSUME NEW q \in ToSet(batch), q \notin ToSet(active) PROVE (Finished(q))'
    <3>1. Finished(q) /\ q # r
      BY <2>1, <1>5, <1>16 DEF SampleOK, DecodesNext
    <3> QED BY <3>1, <1>27
  <2>2. \A q \in ToSet(still) : (Continues(q))'
    BY <1>27, <1>29
  <2>3. Rising(active) /\ active' = active /\ batch' = batch
    BY <1>3, <1>16 DEF SampleOK, DecodesNext
  <2>4. CASE still' = still /\ slots' = slots
    BY <2>1, <2>2, <2>3, <2>4, <1>17, <1>29, <1>30 DEF DecodesNext
  <2>5. CASE /\ stage'[r] = "decode" /\ nComputed'[r] = nComputed[r] + 1
             /\ still' = Append(still, r)
             /\ slots' = Append(slots, TokenSlot(seqId[r], tok, nComputed[r], TRUE))
    <3>1. \A q \in ToSet(still') : (Continues(q))'
      BY <2>2, <2>5, <1>18, <1>28
    <3>2. ASSUME NEW i \in 1..Len(still')
          PROVE  slots'[i] = TokenSlot(seqId'[still'[i]],
                                       output'[still'[i]][Len(output'[still'[i]])],
                                       nComputed'[still'[i]] - 1, TRUE)
      <4>1. CASE i \in 1..Len(still)
        <5>1. slots'[i] = slots[i] /\ still'[i] = still[i]
          BY <4>1, <2>5, <1>18, <1>19
        <5> QED BY <5>1, <4>1, <1>30
      <4>2. CASE i = Len(still) + 1
        <5>1. still'[i] = r /\ slots'[i] = TokenSlot(seqId[r], tok, nComputed[r], TRUE)
          BY <4>2, <2>5, <1>18, <1>19
        <5>2. nComputed'[r] - 1 = nComputed[r]
          BY <2>5, <1>7
        <5>3. output'[r][Len(output'[r])] = tok /\ seqId'[r] = seqId[r]
          BY <1>3, <1>10
        <5> QED BY <5>1, <5>2, <5>3
      <4>3. i \in 1..Len(still) \/ i = Len(still) + 1
        BY <2>5, <1>17, <1>18
      <4> QED BY <4>1, <4>2, <4>3
    <3>3. Rising(still')
      BY <2>5, <1>18
    <3> QED BY <2>1, <2>3, <3>1, <3>2, <3>3, <1>29 DEF DecodesNext
  <2> QED BY <2>4, <2>5, <1>14
<1>32. PhaseOK'
  <2>1. \A q \in ToSet(active) : (Open(q))'
    <3>1. (Open(r))'
      BY <1>8 DEF Open
    <3>2. \A q \in ToSet(active) : Open(q)
      BY <1>16 DEF SampleOK
    <3> QED BY <3>1, <3>2, <1>27, <1>29
  <2>2. ToSet(still') = ToSet(still) \/ ToSet(still') = ToSet(still) \cup {r}
    BY <1>14, <1>18
  <2>3. ASSUME NEW q \in ToSet(active), q \notin ToSet(rest)
        PROVE  stage'[q] = "done" \/ q \in ToSet(still')
    <3>1. CASE q = r
      BY <3>1, <1>14, <1>18
    <3>2. CASE q # r
      <4>1. stage[q] = "done" \/ q \in ToSet(still)
        BY <2>3, <3>2, <1>5, <1>16 DEF SampleOK
      <4>2. stage'[q] = stage[q]
        BY <3>2, <1>27, <1>29
      <4> QED BY <4>1, <4>2, <2>2
    <3> QED BY <3>1, <3>2
  <2>4. ASSUME NEW q \in ToSet(rest) PROVE q \in ToSet(active) /\ (ToSample(q))'
    <3>1. q \in ToSet(todo) /\ q # r
      BY <1>5
    <3>2. ToSample(q) /\ q \in ToSet(active)
      BY <3>1, <1>16 DEF SampleOK, Visiting
    <3> QED BY <3>1, <3>2, <1>27, <1>29
  <2>5. \A p \in ToSet(still') : \A q \in ToSet(rest) : p < q
    BY <2>2, <1>5, <1>16 DEF SampleOK
  <2>6. SampleOK'
    BY <2>1, <2>3, <2>4, <2>5, <1>3, <1>5, <1>16, <1>31 DEF SampleOK, Visiting
  <2> QED BY <2>6, <1>3 DEF PhaseOK, IdleOK, PrefillOK, ReleaseOK, CleanOK
<1> QED BY <1>20, <1>21, <1>22, <1>23, <1>24, <1>25, <1>26, <1>32 DEF IInv, QueueInv

LEMMA SampleDoneStep ==
    ASSUME IInv, SampleDone
    PROVE  IInv'
<1>1. /\ pc = "sample" /\ todo = << >> /\ pc' = "release" /\ todo' = active
      /\ UNCHANGED <<kv, logits, waiting, runningN, arrived, submitting, batch, active,
                     still, slots, logitsIdx, start>>
      /\ UNCHANGED <<shape, stage, seqId, nComputed, output, queue>>
  BY DEF SampleDone, backendVars, clientVars, requestVars
<1>2. Typed'
  BY <1>1 DEF IInv, Typed
<1>3. QueueInv' /\ LastOK' /\ BatchOK'
  BY <1>1, RequestsKept DEF IInv, requestVars
<1>4. CacheOK'
  BY <1>1 DEF IInv, CacheOK
<1>5. SampleOK /\ ToSet(todo) = {}
  BY <1>1, EmptyList DEF IInv, PhaseOK
<1>6. ReleaseOK'
  <2>1. DecodesNext'
    <3>1. DecodesNext
      BY <1>1, <1>5 DEF SampleOK
    <3>2. \A q \in ToSet(still) : Continues(q) => (Continues(q))'
      BY <1>1 DEF Continues, Caches, CellAt
    <3> QED BY <3>1, <3>2, <1>1 DEF DecodesNext, Finished
  <2>2. \A r \in ToSet(active) : (Open(r))' /\ (stage'[r] = "done" \/ r \in ToSet(still))
    BY <1>1, <1>5 DEF SampleOK, Open
  <2> QED BY <2>1, <2>2, <1>1, <1>5 DEF ReleaseOK, Visiting, SampleOK, DecodesNext
<1>7. PhaseOK'
  BY <1>1, <1>6 DEF PhaseOK, IdleOK, PrefillOK, SampleOK, CleanOK
<1> QED BY <1>2, <1>3, <1>4, <1>7 DEF IInv
-----------------------------------------------------------------------------
(***************************************************************************)
(* The thread releases what has ended, and leaves the batch.               *)
(***************************************************************************)
(* A release closes one stream and is counted once. *)
LEMMA ReleaseCounts ==
    ASSUME Typed, Counted, NEW r \in Requests, Scheduled(r), Open(r), Released(r),
           UNCHANGED <<seqId, output>>
    PROVE  /\ Counted' /\ runningN' \in Nat /\ runningN' <= runningN
           /\ queue' \in [Requests -> Seq(Tokens \cup {SENTINEL})]
           /\ queue'[r] = Append(output[r], SENTINEL) /\ ~ (Open(r))'
           /\ \A q \in Requests : q # r => queue'[q] = queue[q]
<1>1. /\ queue \in [Requests -> Seq(Tokens \cup {SENTINEL})] /\ queue[r] = output[r]
      /\ output[r] \in Seq(Tokens) /\ runningN \in Nat
  BY DEF Typed, Open
<1>2. /\ queue' = [queue EXCEPT ![r] = Append(queue[r], SENTINEL)]
      /\ runningN' = runningN - 1
  BY DEF Released
<1>3. /\ Append(queue[r], SENTINEL) \in Seq(Tokens \cup {SENTINEL})
      /\ Len(Append(queue[r], SENTINEL)) = Len(queue[r]) + 1 /\ Len(queue[r]) \in Nat
  <2>1. queue[r] \in Seq(Tokens \cup {SENTINEL})
    BY <1>1
  <2> QED BY <2>1, AppendProperties, LenProperties
<1>4. /\ queue' \in [Requests -> Seq(Tokens \cup {SENTINEL})]
      /\ queue'[r] = Append(output[r], SENTINEL)
      /\ \A q \in Requests : q # r => queue'[q] = queue[q]
  <2>1. Append(queue[r], SENTINEL) \in Seq(Tokens \cup {SENTINEL})
    BY <1>3
  <2> QED BY <2>1, <1>1, <1>2
<1>5. ~ (Open(r))'
  <2>1. queue'[r] # output[r]
    BY <1>1, <1>3, <1>4
  <2> QED BY <2>1 DEF Open
<1>6. Unclosed' = Unclosed \ {r} /\ r \in Unclosed
  <2>1. \A q \in Requests : q # r => ((Open(q))' <=> Open(q))
    BY <1>4 DEF Open
  <2> QED BY <2>1, <1>5 DEF Unclosed, Scheduled
<1>7. /\ IsFiniteSet(Unclosed) /\ runningN = Cardinality(Unclosed)
      /\ IsFiniteSet(Unclosed \ {r})
      /\ Cardinality(Unclosed \ {r}) = Cardinality(Unclosed) - 1
  BY <1>6, FS_RemoveElement DEF Counted
<1>8. runningN' \in Nat /\ runningN' <= runningN
  <2>1. Cardinality(Unclosed \ {r}) \in Nat
    BY <1>7, FS_CardinalityType
  <2> QED BY <2>1, <1>1, <1>2, <1>7
<1>9. Counted'
  BY <1>2, <1>6, <1>7 DEF Counted
<1> QED BY <1>4, <1>5, <1>8, <1>9

(* Capacity that is given back stays within the bound. *)
LEMMA StaysWithinMax ==
    ASSUME Typed, WithinMax, UNCHANGED <<waiting, submitting>>,
           runningN' \in Nat, runningN' <= runningN
    PROVE  WithinMax'
<1>1. Len(waiting) \in Nat /\ MaxQueue \in Nat /\ runningN \in Nat
  BY LenProperties, StaticAssumption DEF Typed
<1>2. Pending' = Pending /\ Pending \in {0, 1}
  BY DEF Pending
<1> QED BY <1>1, <1>2 DEF WithinMax

LEMMA ReleaseNextStep ==
    ASSUME IInv, ReleaseNext
    PROVE  IInv'
<1>1. PICK r : r = Head(todo)
  OBVIOUS
<1>2. PICK rest : rest = Tail(todo)
  OBVIOUS
<1>3. /\ pc = "release" /\ pc' = pc /\ todo # << >> /\ todo' = rest
      /\ IF Finished(r) THEN Released(r) ELSE UNCHANGED <<runningN, queue>>
      /\ UNCHANGED <<kv, logits, waiting, arrived, submitting, shape, stage, seqId,
                     nComputed, output, batch, active, still, slots, logitsIdx, start>>
  BY <1>1, <1>2 DEF ReleaseNext, backendVars, clientVars
<1>4. ReleaseOK /\ todo \in Seq(Requests) /\ Visiting(active)
  BY <1>3 DEF IInv, PhaseOK, Typed, ReleaseOK
<1>5. /\ r \in ToSet(todo) /\ rest \in Seq(Requests) /\ Rising(rest)
      /\ ToSet(rest) = ToSet(todo) \ {r}
  BY <1>1, <1>2, <1>3, <1>4, RisingTail DEF Visiting
<1>6. /\ r \in ToSet(batch) /\ r \in Requests /\ Scheduled(r) /\ Open(r)
  <2>1. r \in ToSet(batch)
    BY <1>3, <1>4, <1>5 DEF ReleaseOK, Visiting, DecodesNext
  <2> QED BY <2>1, <1>3, <1>4, <1>5, InBatch DEF IInv, ReleaseOK
<1>7. /\ Counted' /\ runningN' \in Nat /\ runningN' <= runningN
      /\ queue' \in [Requests -> Seq(Tokens \cup {SENTINEL})]
      /\ \A q \in Requests : q # r => queue'[q] = queue[q]
      /\ (queue'[r] = Append(output[r], SENTINEL) /\ Finished(r)) \/ queue'[r] = queue[r]
  <2>1. CASE Finished(r)
    BY <2>1, <1>3, <1>6, ReleaseCounts DEF IInv, QueueInv
  <2>2. CASE ~ Finished(r)
    <3>1. UNCHANGED <<runningN, queue, seqId, output>>
      BY <2>2, <1>3
    <3>2. Unclosed' = Unclosed
      BY <3>1 DEF Unclosed, Open, Scheduled
    <3> QED BY <3>1, <3>2 DEF IInv, Typed, QueueInv, Counted
  <2> QED BY <2>1, <2>2
<1>8. Typed'
  BY <1>3, <1>5, <1>7 DEF IInv, Typed
<1>9. QueueOK' /\ FitsContext' /\ BatchOK'
  BY <1>3 DEF IInv, QueueInv, QueueOK, FitsContext, Fits, BatchOK, Scheduled, Finished
<1>10. WithinMax'
  BY <1>3, <1>7, StaysWithinMax DEF IInv, QueueInv
<1>11. StreamsOK'
  <2> SUFFICES ASSUME NEW q \in Requests PROVE (StreamOf(q))'
    BY DEF StreamsOK
  <2>1. StreamOf(q)
    BY DEF IInv, QueueInv, StreamsOK
  <2>2. CASE queue'[q] = queue[q]
    BY <2>1, <2>2, <1>3 DEF StreamOf, Open, Finished
  <2>3. CASE q = r /\ queue'[r] = Append(output[r], SENTINEL) /\ Finished(r)
    BY <2>1, <2>3, <1>3 DEF StreamOf, Open, Finished
  <2> QED BY <2>2, <2>3, <1>7
<1>12. CacheOK' /\ LastOK'
  BY <1>3 DEF IInv, CacheOK, LastOK, PrefilledLast, ScheduledAfter, OutputExact
<1>13. PhaseOK'
  <2>1. DecodesNext'
    <3>1. DecodesNext
      BY <1>3, <1>4 DEF ReleaseOK
    <3>2. \A q \in ToSet(still) : Continues(q) => (Continues(q))'
      BY <1>3 DEF Continues, Caches, CellAt
    <3> QED BY <3>1, <3>2, <1>3 DEF DecodesNext, Finished
  <2>2. \A q \in ToSet(active) : stage'[q] = "done" \/ q \in ToSet(still)
    BY <1>3, <1>4 DEF ReleaseOK
  <2>3. ASSUME NEW q \in ToSet(rest) PROVE (Open(q))'
    <3>1. q \in ToSet(todo) /\ q # r /\ q \in Requests
      BY <2>3, <1>5, ListElements
    <3>2. Open(q)
      BY <3>1, <1>3, <1>4 DEF ReleaseOK
    <3> QED BY <3>1, <3>2, <1>3, <1>7 DEF Open
  <2>4. ToSet(rest) \subseteq ToSet(active)
    BY <1>4, <1>5 DEF Visiting
  <2>5. ReleaseOK'
    BY <2>1, <2>2, <2>3, <2>4, <1>3, <1>4, <1>5 DEF ReleaseOK, Visiting
  <2> QED BY <2>5, <1>3 DEF PhaseOK, IdleOK, PrefillOK, SampleOK, CleanOK
<1> QED BY <1>7, <1>8, <1>9, <1>10, <1>11, <1>12, <1>13 DEF IInv, QueueInv

(* The batch is left, at its end or because something failed. *)
LEMMA LeaveStep ==
    ASSUME IInv, BatchEnds \/ DecodeFails \/ SampleFails
    PROVE  IInv'
<1>1. /\ pc' = "cleanup" /\ todo' = batch
      /\ UNCHANGED <<kv, logits, waiting, runningN, arrived, submitting, batch, active,
                     still, slots, logitsIdx, start>>
      /\ UNCHANGED <<shape, stage, seqId, nComputed, output, queue>>
  BY DEF BatchEnds, DecodeFails, SampleFails, LeaveBatch, backendVars, clientVars,
         requestVars
<1>2. Typed'
  BY <1>1 DEF IInv, Typed
<1>3. QueueInv' /\ LastOK' /\ BatchOK'
  BY <1>1, RequestsKept DEF IInv, requestVars
<1>4. CacheOK'
  BY <1>1 DEF IInv, CacheOK
<1>5. CleanOK'
  <2>1. Rising(batch)
    BY DEF IInv, BatchOK
  <2> QED BY <2>1, <1>1 DEF CleanOK, Visiting
<1>6. PhaseOK'
  BY <1>1, <1>5 DEF PhaseOK, IdleOK, PrefillOK, SampleOK, ReleaseOK
<1> QED BY <1>2, <1>3, <1>4, <1>6 DEF IInv

LEMMA CleanUpStep ==
    ASSUME IInv, CleanUp
    PROVE  IInv'
<1>1. PICK r : r = Head(todo)
  OBVIOUS
<1>2. PICK rest : rest = Tail(todo)
  OBVIOUS
<1>3. /\ pc = "cleanup" /\ pc' = pc /\ todo # << >> /\ todo' = rest
      /\ kv' = Emptied(kv, {seqId[r]})
      /\ IF ~ Finished(r) THEN stage' = [stage EXCEPT ![r] = "aborted"] /\ Released(r)
         ELSE UNCHANGED <<stage, runningN, queue>>
      /\ UNCHANGED <<logits, waiting, arrived, submitting, shape, seqId, nComputed, output,
                     batch, active, still, slots, logitsIdx, start>>
  BY <1>1, <1>2 DEF CleanUp, Unreleased, clientVars
<1>4. CleanOK /\ todo \in Seq(Requests) /\ Visiting(batch)
  BY <1>3 DEF IInv, PhaseOK, Typed, CleanOK
<1>5. /\ r \in ToSet(todo) /\ rest \in Seq(Requests) /\ Rising(rest)
      /\ ToSet(rest) = ToSet(todo) \ {r}
  BY <1>1, <1>2, <1>3, <1>4, RisingTail DEF Visiting
<1>6. /\ r \in ToSet(batch) /\ r \in Requests /\ Scheduled(r) /\ seqId[r] \in SeqIds
      /\ ~ Finished(r) => Open(r)
  <2>1. r \in ToSet(batch)
    BY <1>4, <1>5 DEF Visiting
  <2>2. r \in Requests /\ Scheduled(r) /\ seqId[r] \in SeqIds
    BY <2>1, InBatch DEF IInv
  <2> QED BY <2>1, <2>2 DEF IInv, QueueInv, StreamsOK, StreamOf
<1>7. /\ Counted' /\ runningN' \in Nat /\ runningN' <= runningN
      /\ queue' \in [Requests -> Seq(Tokens \cup {SENTINEL})]
      /\ \A q \in Requests : q # r => queue'[q] = queue[q]
      /\ \/ queue'[r] = Append(output[r], SENTINEL) /\ ~ (Open(r))'
         \/ queue'[r] = queue[r] /\ Finished(r)
  <2>1. CASE ~ Finished(r)
    BY <2>1, <1>3, <1>6, ReleaseCounts DEF IInv, QueueInv
  <2>2. CASE Finished(r)
    <3>1. UNCHANGED <<runningN, queue, seqId, output>>
      BY <2>2, <1>3
    <3>2. Unclosed' = Unclosed
      BY <3>1 DEF Unclosed, Open, Scheduled
    <3> QED BY <2>2, <3>1, <3>2 DEF IInv, Typed, QueueInv, Counted
  <2> QED BY <2>1, <2>2
<1>8. /\ stage' \in [Requests -> Stages] /\ stage'[r] \in {"done", "aborted"}
      /\ \A q \in Requests : q # r => stage'[q] = stage[q]
  <2>1. stage \in [Requests -> Stages] /\ "aborted" \in Stages
    BY DEF IInv, Typed, Stages
  <2>2. CASE ~ Finished(r)
    BY <2>1, <2>2, <1>3, <1>6
  <2>3. CASE Finished(r)
    BY <2>1, <2>3, <1>3 DEF Finished
  <2> QED BY <2>2, <2>3
<1>9. Typed'
  BY <1>3, <1>5, <1>7, <1>8 DEF IInv, Typed
<1>10. QueueOK' /\ FitsContext' /\ BatchOK'
  BY <1>3, <1>6, <1>8, StageMoves
<1>11. WithinMax'
  BY <1>3, <1>7, StaysWithinMax DEF IInv, QueueInv
<1>12. StreamsOK'
  <2> SUFFICES ASSUME NEW q \in Requests PROVE (StreamOf(q))'
    BY DEF StreamsOK
  <2>1. StreamOf(q)
    BY DEF IInv, QueueInv, StreamsOK
  <2>2. CASE q # r
    BY <2>1, <2>2, <1>3, <1>7, <1>8 DEF StreamOf, Open, Finished
  <2>3. CASE q = r
    <3>1. (Finished(r))'
      BY <1>8 DEF Finished
    <3>2. (Open(r))' \/ queue'[r] = Append(output[r], SENTINEL)
      BY <2>1, <2>3, <1>3, <1>7 DEF StreamOf, Open
    <3>3. stage'[r] \in {"decode", "done", "aborted"} /\ stage'[r] # "decode"
      BY <1>8
    <3> QED BY <2>3, <3>1, <3>2, <3>3, <1>3 DEF StreamOf
  <2> QED BY <2>2, <2>3
<1>13. LastOK'
  BY <1>3 DEF IInv, LastOK, PrefilledLast, ScheduledAfter, OutputExact
<1>14. /\ DOMAIN kv' = SeqIds /\ DOMAIN kv'[seqId[r]] = {}
       /\ \A s \in SeqIds : s # seqId[r] => kv'[s] = kv[s]
  <2>1. DOMAIN << >> = {}
    OBVIOUS
  <2> QED BY <2>1, <1>3, <1>6 DEF Emptied
<1>15. CacheOK'
  <2>1. ASSUME NEW s \in SeqIds
        PROVE  /\ \A p \in DOMAIN kv'[s] : p \in 0..(NCtx - 1) /\ kv'[s][p] \in Tokens
               /\ (\A q \in ToSet(batch) : seqId[q] # s) => DOMAIN kv'[s] = {}
    <3>1. CASE s = seqId[r]
      BY <3>1, <1>14
    <3>2. CASE s # seqId[r]
      BY <3>2, <1>14 DEF IInv, CacheOK
    <3> QED BY <3>1, <3>2
  <2> QED BY <2>1, <1>3, <1>14 DEF CacheOK
<1>16. PhaseOK'
  <2>1. ASSUME NEW q \in ToSet(batch), q \notin ToSet(rest)
        PROVE  (Finished(q))' /\ DOMAIN kv'[seqId[q]] = {}
    <3>1. CASE q = r
      BY <3>1, <1>8, <1>14 DEF Finished
    <3>2. CASE q # r
      <4>1. q \in Requests /\ seqId[q] \in SeqIds /\ seqId[q] # seqId[r]
        BY <3>2, <1>6, InBatch, OwnSequence DEF IInv
      <4>2. Finished(q) /\ DOMAIN kv[seqId[q]] = {}
        BY <2>1, <3>2, <1>3, <1>4, <1>5 DEF CleanOK
      <4> QED BY <3>2, <4>1, <4>2, <1>8, <1>14 DEF Finished
    <3> QED BY <3>1, <3>2
  <2>2. ToSet(rest) \subseteq ToSet(batch)
    BY <1>4, <1>5 DEF Visiting
  <2>3. CleanOK'
    BY <2>1, <2>2, <1>3, <1>5 DEF CleanOK, Visiting
  <2> QED BY <2>3, <1>3 DEF PhaseOK, IdleOK, PrefillOK, SampleOK, ReleaseOK
<1> QED BY <1>7, <1>9, <1>10, <1>11, <1>12, <1>13, <1>15, <1>16 DEF IInv, QueueInv

LEMMA BatchDoneStep ==
    ASSUME IInv, BatchDone
    PROVE  IInv'
<1>1. /\ pc = "cleanup" /\ todo = << >> /\ pc' = "loop"
      /\ batch' = << >> /\ active' = << >> /\ still' = << >> /\ slots' = << >>
      /\ logitsIdx' = << >> /\ start' = 0 /\ todo' = todo
      /\ UNCHANGED <<kv, logits, waiting, runningN, arrived, submitting>>
      /\ UNCHANGED <<shape, stage, seqId, nComputed, output, queue>>
  BY DEF BatchDone, backendVars, clientVars, requestVars
<1>2. DOMAIN << >> = {} /\ Len(<< >>) = 0
  BY EmptyList
<1>3. Typed'
  BY <1>1, <1>2, EmptyList DEF IInv, Typed
<1>4. QueueInv' /\ LastOK'
  BY <1>1, RequestsKept DEF IInv, requestVars
<1>5. \A r \in ToSet(batch) : Finished(r) /\ DOMAIN kv[seqId[r]] = {}
  BY <1>1, EmptyList DEF IInv, PhaseOK, CleanOK
<1>6. BatchOK'
  <2>1. \A r \in Requests : Scheduled(r) => Finished(r)
    BY <1>5 DEF IInv, BatchOK
  <2> QED BY <2>1, <1>1, EmptyList DEF BatchOK, Scheduled, Finished
<1>7. CacheOK'
  <2>1. \A s \in SeqIds : DOMAIN kv[s] = {}
    BY <1>5 DEF IInv, CacheOK
  <2> QED BY <2>1, <1>1 DEF IInv, CacheOK
<1>8. PhaseOK'
  BY <1>1, <1>2 DEF PhaseOK, IdleOK, PrefillOK, SampleOK, ReleaseOK, CleanOK
<1> QED BY <1>3, <1>4, <1>6, <1>7, <1>8 DEF IInv
-----------------------------------------------------------------------------
(***************************************************************************)
(* The thread decodes one token of each request that goes on.              *)
(***************************************************************************)
LEMMA JointDecodeStep ==
    ASSUME IInv, JointDecode
    PROVE  IInv'
<1>1. /\ pc = "release" /\ todo = << >> /\ pc' = "sample" /\ Decode(slots)
      /\ logitsIdx' = NextIdx /\ active' = still /\ todo' = still
      /\ still' = << >> /\ slots' = << >>
      /\ UNCHANGED <<waiting, runningN, arrived, submitting, batch, start>>
      /\ UNCHANGED <<shape, stage, seqId, nComputed, output, queue>>
  BY DEF JointDecode, clientVars, requestVars
<1>2. ReleaseOK /\ DecodesNext /\ Typed /\ ToSet(todo) = {} /\ start = 0
  BY <1>1, EmptyList DEF IInv, PhaseOK, ReleaseOK
<1>3. /\ still \in Seq(Requests) /\ Rising(still) /\ Len(slots) = Len(still)
      /\ slots \in Seq([seq : SeqIds, tok : Tokens, pos : Nat, want : BOOLEAN])
  BY <1>2 DEF Typed, DecodesNext
<1>4. PICK n : n = Len(still)
  OBVIOUS
<1>5. /\ n \in Nat /\ DOMAIN still = 1..n /\ DOMAIN slots = 1..n
      /\ \A i, j \in 1..n : still[i] = still[j] => i = j
      /\ \A i \in 1..n : still[i] \in Requests /\ still[i] \in ToSet(still)
      /\ \A r \in ToSet(still) : \E i \in 1..n : still[i] = r
  <2>1. DOMAIN slots = 1..n
    BY <1>3, <1>4, LenProperties
  <2> QED BY <2>1, <1>3, <1>4, RisingOnce DEF IsInjective
<1>6. ASSUME NEW r \in ToSet(still)
      PROVE  /\ r \in ToSet(active) /\ r \in ToSet(batch) /\ r \in Requests
             /\ seqId[r] \in SeqIds /\ stage[r] = "decode" /\ Open(r)
             /\ Caches(r, nComputed[r] - 1)
             /\ nComputed[r] = shape[r].prompt + Len(output[r])
             /\ Len(output[r]) \in Nat \ {0} /\ nComputed[r] \in Nat \ {0}
             /\ shape[r].prompt \in Nat /\ nComputed[r] < NCtx
             /\ output[r][Len(output[r])] \in Tokens
  <2>1. Continues(r)
    BY <1>2 DEF DecodesNext
  <2>2. r \in ToSet(active) /\ r \in ToSet(batch)
    BY <2>1, <1>2 DEF Continues, DecodesNext
  <2>3. r \in Requests /\ seqId[r] \in SeqIds
    BY <2>2, InBatch DEF IInv
  <2>4. stage[r] = "decode" /\ output[r] # << >> /\ Caches(r, nComputed[r] - 1)
    BY <2>1 DEF Continues
  <2>5. /\ Open(r) /\ nComputed[r] = shape[r].prompt + Len(output[r])
        /\ Len(output[r]) < shape[r].maxTokens
    BY <2>3, <2>4 DEF IInv, QueueInv, StreamsOK, StreamOf, Finished
  <2>6. output[r] \in Seq(Tokens) /\ nComputed[r] \in Nat
    BY <2>3, <1>2 DEF Typed
  <2>7. Len(output[r]) \in Nat \ {0} /\ output[r][Len(output[r])] \in Tokens
    <3>1. Len(output[r]) \in Nat \ {0}
      BY <2>4, <2>6, EmptySeq
    <3>2. Len(output[r]) \in 1..Len(output[r])
      BY <3>1
    <3> QED BY <3>1, <3>2, <2>6, ElementOfSeq
  <2>8. shape[r].prompt \in Nat /\ shape[r].maxTokens \in Nat
    BY <2>3, <1>2, ShapeFacts
  <2>9. shape[r].prompt + shape[r].maxTokens <= NCtx
    BY <2>3, <2>4 DEF IInv, QueueInv, FitsContext, Fits
  <2>10. nComputed[r] < NCtx /\ nComputed[r] \in Nat \ {0}
    BY <2>5, <2>6, <2>7, <2>8, <2>9, StaticAssumption
  <2> QED BY <2>2, <2>3, <2>4, <2>5, <2>7, <2>8, <2>10
<1>7. ASSUME NEW i \in 1..n
      PROVE  /\ slots[i].seq = seqId[still[i]] /\ slots[i].want = TRUE
             /\ slots[i].pos = nComputed[still[i]] - 1
             /\ slots[i].tok = output[still[i]][Len(output[still[i]])]
  <2>1. slots[i] = TokenSlot(seqId[still[i]], output[still[i]][Len(output[still[i]])],
                             nComputed[still[i]] - 1, TRUE)
    BY <1>2, <1>4 DEF DecodesNext
  <2> QED BY <2>1 DEF TokenSlot
<1>8. ASSUME NEW i \in 1..n, NEW j \in 1..n, slots[i].seq = slots[j].seq
      PROVE  i = j
  <2>1. still[i] \in ToSet(batch) /\ still[j] \in ToSet(batch)
    BY <1>5, <1>6
  <2>2. seqId[still[i]] = seqId[still[j]]
    BY <1>7, <1>8
  <2>3. still[i] = still[j]
    BY <2>1, <2>2, OwnSequence DEF IInv
  <2> QED BY <2>3, <1>5
<1>9. kv' = Written(kv, slots)
  BY <1>1 DEF Decode
<1>10. DOMAIN kv' = SeqIds
  BY <1>9 DEF Written
<1>11. ASSUME NEW s \in SeqIds
       PROVE  /\ \A p : p \in DOMAIN kv'[s] <=>
                    \/ p \in DOMAIN kv[s]
                    \/ \E i \in 1..n : slots[i].seq = s /\ slots[i].pos = p
              /\ \A p \in DOMAIN kv'[s] :
                    (\A i \in 1..n : slots[i].seq = s => slots[i].pos # p) =>
                       kv'[s][p] = kv[s][p]
              /\ \A i \in 1..n :
                    /\ slots[i].seq = s
                    /\ \A j \in 1..n : slots[j].seq = s /\ slots[j].pos = slots[i].pos => j = i
                    => kv'[s][slots[i].pos] = slots[i].tok
  BY <1>5, <1>9, WrittenCells
<1>12. ASSUME NEW s \in SeqIds, \A r \in ToSet(still) : seqId[r] # s
       PROVE  /\ DOMAIN kv'[s] = DOMAIN kv[s]
              /\ \A p \in DOMAIN kv[s] : kv'[s][p] = kv[s][p]
  <2>1. ASSUME NEW i \in 1..n PROVE slots[i].seq # s
    <3>1. still[i] \in ToSet(still)
      BY <1>5
    <3>2. seqId[still[i]] # s
      BY <3>1, <1>12
    <3> QED BY <3>2, <1>7
  <2>2. \A p : p \in DOMAIN kv'[s] <=> p \in DOMAIN kv[s]
    BY <2>1, <1>11
  <2>3. ASSUME NEW p \in DOMAIN kv[s] PROVE kv'[s][p] = kv[s][p]
    BY <2>1, <2>2, <1>11
  <2> QED BY <2>2, <2>3
<1>13. ASSUME NEW r \in ToSet(still)
       PROVE  /\ DOMAIN kv'[seqId[r]] = 0..(nComputed[r] - 1)
              /\ \A p \in 0..(nComputed[r] - 1) : kv'[seqId[r]][p] = CellAt(r, p)
  <2>1. PICK k \in 1..n : still[k] = r
    BY <1>5
  <2>2. PICK s \in SeqIds : s = seqId[r]
    BY <1>6
  <2>3. PICK c \in Nat \ {0} : c = nComputed[r]
    BY <1>6
  <2>4. /\ slots[k].seq = s /\ slots[k].pos = c - 1
        /\ slots[k].tok = output[r][Len(output[r])]
    BY <2>1, <2>2, <2>3, <1>7
  <2>5. \A i \in 1..n : slots[i].seq = s => i = k
    BY <2>1, <2>4, <1>8
  <2>6. DOMAIN kv[s] = 0..(c - 1 - 1) /\ \A p \in 0..(c - 1 - 1) : kv[s][p] = CellAt(r, p)
    BY <2>2, <2>3, <1>6 DEF Caches
  <2>7. DOMAIN kv'[s] = 0..(c - 1)
    <3>1. \A p : p \in DOMAIN kv'[s] <=> p \in DOMAIN kv[s] \/ p = c - 1
      BY <2>1, <2>4, <2>5, <1>11
    <3>2. \A p : p \in 0..(c - 1) <=> p \in 0..(c - 1 - 1) \/ p = c - 1
      OBVIOUS
    <3> QED BY <3>1, <3>2, <2>6
  <2>8. output[r][Len(output[r])] = CellAt(r, c - 1)
    <3>1. PICK m : m = Len(output[r])
      OBVIOUS
    <3>2. PICK l : l = shape[r].prompt
      OBVIOUS
    <3>3. m \in Nat \ {0} /\ l \in Nat /\ c = l + m
      BY <3>1, <3>2, <2>3, <1>6
    <3>4. ~ (c - 1 < l) /\ (c - 1) - l + 1 = m
      BY <3>3
    <3> QED BY <3>1, <3>2, <3>4 DEF CellAt
  <2>9. kv'[s][c - 1] = CellAt(r, c - 1)
    BY <2>4, <2>5, <2>8, <1>11
  <2>10. ASSUME NEW p \in 0..(c - 1 - 1) PROVE kv'[s][p] = CellAt(r, p)
    <3>1. p # c - 1 /\ p \in DOMAIN kv'[s]
      BY <2>7
    <3> QED BY <3>1, <2>4, <2>5, <2>6, <1>11
  <2>11. \A p \in 0..(c - 1) : p \in 0..(c - 1 - 1) \/ p = c - 1
    OBVIOUS
  <2> QED BY <2>2, <2>3, <2>7, <2>9, <2>10, <2>11
<1>14. ASSUME NEW r \in ToSet(still), NEW p \in 0..(nComputed[r] - 1)
       PROVE  CellAt(r, p) \in Tokens /\ p \in 0..(NCtx - 1)
  <2>1. p \in 0..(NCtx - 1)
    BY <1>6, StaticAssumption
  <2>2. CASE p < shape[r].prompt
    <3>1. p \in Nat /\ <<r, p>> \in Tokens
      BY <1>6 DEF Tokens
    <3> QED BY <2>1, <2>2, <3>1 DEF CellAt
  <2>3. CASE ~ (p < shape[r].prompt)
    <3>1. PICK i : i = p - shape[r].prompt + 1
      OBVIOUS
    <3>2. PICK m : m = Len(output[r])
      OBVIOUS
    <3>3. PICK l : l = shape[r].prompt
      OBVIOUS
    <3>4. /\ m \in Nat /\ l \in Nat /\ p \in 0..(l + m - 1) /\ ~ (p < l)
          /\ i = p - l + 1
      BY <3>1, <3>2, <3>3, <2>3, <1>6
    <3>5. i \in 1..m
      BY <3>4
    <3>6. output[r] \in Seq(Tokens)
      BY <1>2, <1>6 DEF Typed
    <3>7. output[r][i] \in Tokens
      BY <3>2, <3>5, <3>6, ElementOfSeq
    <3> QED BY <3>1, <3>7, <2>1, <2>3 DEF CellAt
  <2> QED BY <2>2, <2>3
<1>15. CacheOK'
  <2>1. ASSUME NEW s \in SeqIds, NEW p \in DOMAIN kv'[s]
        PROVE  p \in 0..(NCtx - 1) /\ kv'[s][p] \in Tokens
    <3>1. CASE \E r \in ToSet(still) : seqId[r] = s
      <4>1. PICK r \in ToSet(still) : seqId[r] = s
        BY <3>1
      <4>2. p \in 0..(nComputed[r] - 1) /\ kv'[s][p] = CellAt(r, p)
        BY <4>1, <2>1, <1>13
      <4> QED BY <4>2, <1>14
    <3>2. CASE \A r \in ToSet(still) : seqId[r] # s
      BY <3>2, <2>1, <1>12 DEF IInv, CacheOK
    <3> QED BY <3>1, <3>2
  <2>2. ASSUME NEW s \in SeqIds, \A q \in ToSet(batch) : seqId[q] # s
        PROVE  DOMAIN kv'[s] = {}
    <3>1. \A r \in ToSet(still) : seqId[r] # s
      BY <2>2, <1>6
    <3> QED BY <3>1, <2>2, <1>12 DEF IInv, CacheOK
  <2> QED BY <2>1, <2>2, <1>1, <1>10 DEF CacheOK
<1>16. /\ logits' \in Seq([seq : SeqIds, pos : Nat, tok : Tokens])
       /\ DOMAIN logits' = 1..n
       /\ \A i \in 1..n :
             /\ logits'[i].seq = slots[i].seq /\ logits'[i].pos = slots[i].pos
             /\ slots[i].want => logits'[i].tok = Predicted(kv'[slots[i].seq], slots[i].pos)
  BY <1>1, <1>3, <1>5, DecodeLogits
<1>17. /\ DOMAIN logitsIdx' = DOMAIN logitsIdx \cup ToSet(still)
       /\ \A i \in 1..n : logitsIdx'[still[i]] = i
  <2>1. ASSUME NEW i \in 1..n PROVE logitsIdx'[still[i]] = i
    <3>1. PICK k : k = CHOOSE j \in DOMAIN still : still[j] = still[i]
      OBVIOUS
    <3>2. k \in 1..n /\ still[k] = still[i]
      BY <3>1, <1>5
    <3>3. k = i
      BY <3>2, <1>5
    <3>4. logitsIdx'[still[i]] = CHOOSE j \in DOMAIN still : still[j] = still[i]
      BY <1>1, <1>5 DEF NextIdx
    <3> QED BY <3>1, <3>3, <3>4
  <2> QED BY <2>1, <1>1 DEF NextIdx
<1>18. Typed'
  <2>1. DOMAIN logitsIdx' \subseteq Requests
    BY <1>2, <1>6, <1>17 DEF Typed
  <2> QED BY <2>1, <1>1, <1>2, <1>16, EmptyList DEF Typed
<1>19. QueueInv' /\ LastOK' /\ BatchOK'
  BY <1>1, RequestsKept DEF IInv, requestVars
<1>20. ASSUME NEW r \in ToSet(still) PROVE (ToSample(r))'
  <2>1. PICK i \in 1..n : still[i] = r
    BY <1>5
  <2>2. /\ logitsIdx'[r] = i /\ r \in DOMAIN logitsIdx' /\ i \in DOMAIN logits'
        /\ logits'[i].seq = seqId[r] /\ logits'[i].pos = nComputed[r] - 1
        /\ logits'[i].tok = Predicted(kv'[seqId[r]], nComputed[r] - 1)
    BY <2>1, <1>7, <1>16, <1>17
  <2>3. (ReadsOwn(r))'
    BY <2>2, <1>1 DEF ReadsOwn, HasLogits
  <2>4. (Caches(r, nComputed[r]))'
    BY <1>1, <1>13 DEF Caches, CellAt
  <2>5. ASSUME IsLast(r) PROVE (ReadsNext(r))'
    <3>1. OutputExact(r)
      BY <2>5, <1>6, LastOfBatch DEF IInv, LastOK
    <3>2. PICK c \in Nat : c = nComputed[r] - 1 /\ nComputed[r] = c + 1
      BY <1>6
    <3>3. ASSUME NEW p \in 0..(c + 1 - 1) PROVE CellAt(r, p) = <<r, p>>
      <4>1. CASE p < shape[r].prompt
        BY <4>1 DEF CellAt
      <4>2. CASE ~ (p < shape[r].prompt)
        <5>1. PICK j : j = p - shape[r].prompt + 1
          OBVIOUS
        <5>2. PICK m : m = Len(output[r])
          OBVIOUS
        <5>3. PICK l : l = shape[r].prompt
          OBVIOUS
        <5>4. /\ m \in Nat /\ l \in Nat /\ p \in 0..(l + m - 1) /\ ~ (p < l)
              /\ j = p - l + 1
          <6>1. m \in Nat /\ l \in Nat /\ nComputed[r] = l + m
            BY <5>2, <5>3, <1>6
          <6>2. c + 1 = l + m /\ ~ (p < l) /\ j = p - l + 1
            BY <6>1, <5>1, <5>3, <4>2, <3>2
          <6> QED BY <6>1, <6>2
        <5>5. j \in 1..m /\ l + j - 1 = p
          BY <5>4
        <5>6. output[r][j] = <<r, shape[r].prompt + j - 1>>
          BY <5>2, <5>5, <3>1 DEF OutputExact
        <5> QED BY <5>1, <5>3, <5>5, <5>6, <4>2 DEF CellAt
      <4> QED BY <4>1, <4>2
    <3>4. HoldsContext(kv'[seqId[r]], r, c + 1)
      <4>1. DOMAIN kv'[seqId[r]] = 0..(nComputed[r] - 1)
        BY <1>13
      <4>2. 0..(nComputed[r] - 1) = 0..(c + 1 - 1)
        BY <3>2
      <4>3. ASSUME NEW p \in 0..(c + 1 - 1)
            PROVE  p \in DOMAIN kv'[seqId[r]] /\ kv'[seqId[r]][p] = <<r, p>>
        <5>1. kv'[seqId[r]][p] = CellAt(r, p) /\ p \in DOMAIN kv'[seqId[r]]
          BY <4>1, <4>2, <1>13
        <5> QED BY <5>1, <3>3
      <4> QED BY <4>3 DEF HoldsContext
    <3>5. Predicted(kv'[seqId[r]], c) = <<r, c + 1>>
      BY <3>4, <1>6, PredictedNext
    <3>6. logits'[logitsIdx'[r]].tok = <<r, shape[r].prompt + Len(output[r])>>
      BY <2>2, <3>2, <3>5, <1>6
    <3> QED BY <3>6, <1>1 DEF ReadsNext
  <2> QED BY <2>3, <2>4, <2>5, <1>1, <1>6 DEF ToSample, IsLast
<1>21. DecodesNext'
  <2>1. ASSUME NEW q \in ToSet(batch), q \notin ToSet(still) PROVE Finished(q)
    <3>1. CASE q \in ToSet(active)
      <4>1. stage[q] = "done"
        BY <3>1, <2>1, <1>1, <1>2 DEF ReleaseOK
      <4> QED BY <4>1 DEF Finished
    <3>2. CASE q \notin ToSet(active)
      BY <3>2, <1>2 DEF DecodesNext
    <3> QED BY <3>1, <3>2
  <2>2. ToSet(still) \subseteq ToSet(batch)
    BY <1>6
  <2>3. \A i \in 1..Len(<< >>) : FALSE
    BY EmptyList
  <2> QED BY <2>1, <2>2, <2>3, <1>1, <1>3, EmptyList DEF DecodesNext, Finished
<1>22. SampleOK'
  <2>1. \A r \in ToSet(still) : (Open(r))'
    BY <1>1, <1>6 DEF Open
  <2> QED BY <2>1, <1>1, <1>2, <1>3, <1>20, <1>21, EmptyList DEF SampleOK, Visiting
<1>23. PhaseOK'
  BY <1>1, <1>22 DEF PhaseOK, IdleOK, PrefillOK, ReleaseOK, CleanOK
<1> QED BY <1>15, <1>18, <1>19, <1>23 DEF IInv
-----------------------------------------------------------------------------
(***************************************************************************)
(* The invariant of the engine.                                            *)
(***************************************************************************)
LEMMA InitHolds == Init => IInv
<1> SUFFICES ASSUME Init PROVE IInv
  OBVIOUS
<1>1. /\ kv = [s \in SeqIds |-> << >>] /\ logits = << >>
      /\ waiting = << >> /\ runningN = 0
      /\ arrived = 0 /\ submitting = 0
      /\ shape = [r \in Requests |-> [prompt |-> 0, maxTokens |-> 1]]
      /\ stage = [r \in Requests |-> "new"]
      /\ seqId = [r \in Requests |-> NoSeq]
      /\ nComputed = [r \in Requests |-> 0]
      /\ output = [r \in Requests |-> << >>]
      /\ queue = [r \in Requests |-> << >>]
      /\ pc = "loop" /\ batch = << >> /\ active = << >> /\ still = << >>
      /\ slots = << >> /\ logitsIdx = << >> /\ todo = << >> /\ start = 0
  BY DEF Init
<1>2. DOMAIN << >> = {} /\ Len(<< >>) = 0
  BY EmptyList
<1>3. NumRequests \in Nat /\ MaxQueue \in Nat
  BY StaticAssumption
<1>4. Typed
  BY <1>1, <1>2, <1>3, EmptyList DEF Typed, Shaped, Stages
<1>5. \A r \in Requests : ~ Scheduled(r) /\ Open(r) /\ ~ PrefilledLast(r)
  BY <1>1 DEF Scheduled, Open, PrefilledLast
<1>6. QueueOK
  <2>1. \A r \in Requests : r > 0 /\ r # 0
    BY <1>3 DEF Requests
  <2> QED BY <1>1, <1>5, <2>1, EmptyList DEF QueueOK
<1>7. WithinMax /\ FitsContext
  BY <1>1, <1>2, <1>3 DEF WithinMax, Pending, FitsContext
<1>8. StreamsOK
  BY <1>1, <1>5 DEF StreamsOK, StreamOf
<1>9. Counted
  <2>1. Unclosed = {}
    BY <1>5 DEF Unclosed
  <2> QED BY <2>1, <1>1, FS_EmptySet DEF Counted
<1>10. BatchOK
  BY <1>1, <1>5, EmptyList DEF BatchOK
<1>11. CacheOK
  BY <1>1, <1>2 DEF CacheOK
<1>12. PhaseOK /\ LastOK
  BY <1>1, <1>2, <1>5 DEF PhaseOK, IdleOK, PrefillOK, SampleOK, ReleaseOK, CleanOK, LastOK
<1> QED BY <1>4, <1>6, <1>7, <1>8, <1>9, <1>10, <1>11, <1>12 DEF IInv, QueueInv

LEMMA NextKeeps == IInv /\ [Next]_vars => IInv'
<1> SUFFICES ASSUME IInv, [Next]_vars PROVE IInv'
  OBVIOUS
<1>1. CASE SubmitCheck
  BY <1>1, SubmitCheckStep
<1>2. CASE SubmitAppend
  BY <1>2, SubmitAppendStep
<1>3. CASE Stop
  BY <1>3, StopStep DEF Stop
<1>4. CASE Exit \/ FirstArrives
  BY <1>4, WaitStep
<1>5. CASE StartBatch
  BY <1>5, StartBatchStep
<1>6. CASE PrefillChunk
  BY <1>6, PrefillChunkStep
<1>7. CASE PrefillEnd
  BY <1>7, PrefillEndStep
<1>8. CASE PrefillDone
  BY <1>8, PrefillDoneStep
<1>9. CASE SampleDone
  BY <1>9, SampleDoneStep
<1>10. CASE ReleaseNext
  BY <1>10, ReleaseNextStep
<1>11. CASE BatchEnds \/ DecodeFails \/ SampleFails
  BY <1>11, LeaveStep
<1>12. CASE JointDecode
  BY <1>12, JointDecodeStep
<1>13. CASE CleanUp
  BY <1>13, CleanUpStep
<1>14. CASE BatchDone
  BY <1>14, BatchDoneStep
<1>15. ASSUME NEW r \in Requests, SampleEos(r) PROVE IInv'
  BY <1>15, SampleEosStep
<1>16. ASSUME NEW r \in Requests, SampleToken(r) PROVE IInv'
  BY <1>16, SampleTokenStep
<1>17. CASE UNCHANGED vars
  BY <1>17, StopStep DEF vars, clientVars
<1> QED BY <1>1, <1>2, <1>3, <1>4, <1>5, <1>6, <1>7, <1>8, <1>9, <1>10, <1>11, <1>12,
           <1>13, <1>14, <1>15, <1>16, <1>17 DEF Next, Environment, Thread

LEMMA InvariantHolds == Spec => []IInv
<1> QED BY InitHolds, NextKeeps, PTL DEF Spec

-----------------------------------------------------------------------------
(***************************************************************************)
(* What follows from it.                                                   *)
(***************************************************************************)
(* No position beyond the context is cached, the batch decodes one slot    *)
(* for each request still in it, and the queue and the running batch       *)
(* together hold max_queue requests at most, although submit checks that   *)
(* in one critical section (line 71) and appends in another.               *)
THEOREM StaticTypes == Spec => []TypeOK
<1>1. ASSUME IInv PROVE TypeOK
  <2>1. runningN \in 0..NumRequests
    <3>1. Unclosed \subseteq 1..NumRequests
      BY DEF Unclosed, Requests
    <3>2. IsFiniteSet(1..NumRequests) /\ Cardinality(1..NumRequests) = NumRequests
      BY FS_Interval, StaticAssumption
    <3>3. Cardinality(Unclosed) <= NumRequests
      BY <3>1, <3>2, FS_Subset
    <3> QED BY <1>1, <3>3, StaticAssumption DEF IInv, Typed, QueueInv, Counted
  <2>2. Len(waiting) + runningN + (IF submitting = 0 THEN 0 ELSE 1) <= MaxQueue
    BY <1>1 DEF IInv, QueueInv, WithinMax, Pending
  <2>3. \A q \in {batch, active, still, todo} : q \in Seq(Requests)
    BY <1>1 DEF IInv, Typed
  <2>4. \A s \in SeqIds : \A p \in DOMAIN kv[s] : p \in 0..(NCtx - 1) /\ kv[s][p] \in Tokens
    BY <1>1 DEF IInv, CacheOK
  <2> QED BY <1>1, <2>1, <2>2, <2>3, <2>4 DEF IInv, Typed, TypeOK
<1> QED BY <1>1, InvariantHolds, PTL

(* After the first decode of a batch every request is sampled from the     *)
(* logits of its own sequence at its own last position, however many       *)
(* others have ended and shifted the slots (_run_batch, lines 197-206).    *)
THEOREM SamplesOwn == Spec => []SamplesOwnSequence
<1>1. ASSUME IInv PROVE SamplesOwnSequence
  BY <1>1 DEF IInv, PhaseOK, SampleOK, ToSample, ReadsOwn, SamplesOwnSequence
<1> QED BY <1>1, InvariantHolds, PTL

(* Whichever way a batch ended, nothing of it is left in the cache when    *)
(* the next one is formed (the `finally' block of _run_batch).             *)
THEOREM CachesAreEmptied == Spec => []CachesEmptied
<1>1. ASSUME IInv PROVE CachesEmptied
  <2>1. pc \in {"loop", "gather"} => ToSet(batch) = {}
    BY <1>1, EmptyList DEF IInv, PhaseOK, IdleOK
  <2> QED BY <1>1, <2>1 DEF IInv, CacheOK, CachesEmptied
<1> QED BY <1>1, InvariantHolds, PTL

(* The end of the stream is in the queue of a request exactly once it was  *)
(* released.                                                               *)
LEMMA StreamEnds ==
    ASSUME IInv, NEW r \in Requests
    PROVE  /\ queue[r] = output[r] \o (IF Closed(r) THEN <<SENTINEL>> ELSE << >>)
           /\ Closed(r) <=> ~ Open(r)
<1>1. output[r] \in Seq(Tokens) /\ SENTINEL \notin Tokens
  BY SentinelIsNoToken DEF IInv, Typed
<1>2. /\ Len(output[r]) \in Nat /\ DOMAIN output[r] = 1..Len(output[r])
      /\ \A i \in 1..Len(output[r]) : output[r][i] \in Tokens
  BY <1>1, LenProperties, ElementOfSeq
<1>3. CASE Open(r)
  <2>1. ~ Closed(r)
    BY <1>1, <1>2, <1>3 DEF Closed, Open, ToSet
  <2>2. output[r] \o << >> = output[r]
    BY <1>1, ConcatEmptySeq
  <2> QED BY <1>3, <2>1, <2>2 DEF Open
<1>4. CASE queue[r] = Append(output[r], SENTINEL)
  <2>1. output[r] \in Seq(Tokens \cup {SENTINEL})
    BY <1>1
  <2>2. SENTINEL \in ToSet(Append(output[r], SENTINEL))
    BY <2>1, AppendElements
  <2>3. Append(output[r], SENTINEL) = output[r] \o <<SENTINEL>>
    BY <2>1, AppendIsConcat
  <2>4. ~ Open(r)
    <3>1. Len(Append(output[r], SENTINEL)) = Len(output[r]) + 1
      BY <2>1, AppendProperties
    <3> QED BY <3>1, <1>2, <1>4 DEF Open
  <2> QED BY <1>4, <2>2, <2>3, <2>4 DEF Closed
<1> QED BY <1>3, <1>4 DEF IInv, QueueInv, StreamsOK, StreamOf

(* The request that is prefilled last in its batch is streamed exactly the *)
(* tokens of its own generation, and the end once after them, whatever its *)
(* companions do meanwhile and however the batch ends (_run_batch).        *)
THEOREM LastIsExact == Spec => []LastExact
<1>1. ASSUME IInv PROVE LastExact
  <2> SUFFICES ASSUME NEW r \in Requests, PrefilledLast(r) PROVE Exact(r)
    BY DEF LastExact
  <2>1. \A i \in 1..Len(output[r]) : output[r][i] = <<r, shape[r].prompt + i - 1>>
    BY <1>1 DEF IInv, LastOK, OutputExact
  <2>2. DOMAIN output[r] = 1..Len(output[r])
    BY <1>1, LenProperties DEF IInv, Typed
  <2> QED BY <1>1, <2>1, <2>2, StreamEnds DEF Exact
<1> QED BY <1>1, InvariantHolds, PTL
-----------------------------------------------------------------------------
(***************************************************************************)
(* When no request is forgotten: batches of two at most, prompts that are  *)
(* not empty, and no exception but that of a decode.                       *)
(***************************************************************************)
Tame == ~ SamplingFails /\ MaxSeqs <= 2 /\ \A s \in Shapes : s.prompt > 0

(* The request at the head of a prefill has logits once it has begun. *)
LastHasLogits ==
    /\ pc = "prefill" => \A r \in ToSet(batch) :
          /\ IsLast(r)
          /\ r \notin ToSet(todo) \/ (r = Head(todo) /\ start > 0)
          => HasLogits(r)
    /\ pc = "sample" => \A r \in ToSet(todo) :
          IsLast(r) /\ output[r] = << >> => HasLogits(r)

VisitedFirst ==
    pc = "sample" =>
        \A q \in ToSet(active) : \A r \in ToSet(todo) : q \notin ToSet(todo) => q < r

(* Who has ended is released, or is about to be. *)
EndedReleased ==
    /\ \A r \in Requests : Scheduled(r) /\ r \notin ToSet(batch) => ~ Open(r)
    /\ pc \in {"sample", "release"} =>
          \A r \in ToSet(batch) : r \notin ToSet(active) => ~ Open(r)
    /\ pc = "release" => \A r \in ToSet(active) :
          r \notin ToSet(todo) /\ stage[r] = "done" => ~ Open(r)
    /\ pc = "cleanup" => \A r \in ToSet(batch) : Finished(r) => ~ Open(r)

NoneForgotten == LastHasLogits /\ VisitedFirst /\ EndedReleased

LEMMA ForgottenIdle ==
    ASSUME IInv, NoneForgotten,
           UNCHANGED <<logits, threadVars, seqId, output, queue>>,
           \A r \in Requests : Scheduled(r) => stage'[r] = stage[r]
    PROVE  NoneForgotten'
<1>1. UNCHANGED <<logits, pc, batch, active, still, slots, logitsIdx, todo, start,
                  seqId, output, queue>>
  BY DEF threadVars
<1>2. \A r : /\ (IsLast(r))' <=> IsLast(r)
             /\ (HasLogits(r))' <=> HasLogits(r)
             /\ (Open(r))' <=> Open(r)
             /\ (Scheduled(r))' <=> Scheduled(r)
  BY <1>1 DEF IsLast, HasLogits, Open, Scheduled
<1>3. LastHasLogits' /\ VisitedFirst'
  BY <1>1, <1>2 DEF NoneForgotten, LastHasLogits, VisitedFirst
<1>4. \A r \in ToSet(batch) : stage'[r] = stage[r]
  BY InBatch DEF IInv
<1>5. pc = "release" => \A r \in ToSet(active) : stage'[r] = stage[r]
  BY <1>4 DEF IInv, PhaseOK, ReleaseOK, DecodesNext
<1>6. EndedReleased'
  BY <1>1, <1>2, <1>4, <1>5 DEF NoneForgotten, EndedReleased, Finished
<1> QED BY <1>3, <1>6 DEF NoneForgotten

LEMMA ForgottenSubmit ==
    ASSUME IInv, NoneForgotten, SubmitCheck
    PROVE  NoneForgotten'
<1>1. /\ arrived < NumRequests /\ arrived \in 0..NumRequests
      /\ UNCHANGED <<logits, threadVars, seqId, output, queue>>
  BY DEF SubmitCheck, backendVars, IInv, Typed
<1>2. PICK n : n = arrived + 1
  OBVIOUS
<1>3. n \in Requests /\ n > arrived
  BY <1>1, <1>2, StaticAssumption DEF Requests
<1>4. ~ Scheduled(n)
  BY <1>3 DEF IInv, QueueInv, QueueOK
<1>5. \E x : stage' = [stage EXCEPT ![n] = x]
  BY <1>2 DEF SubmitCheck
<1>6. \A r \in Requests : r # n => stage'[r] = stage[r]
  BY <1>5 DEF IInv, Typed
<1> QED BY <1>1, <1>4, <1>6, ForgottenIdle

LEMMA ForgottenStart ==
    ASSUME IInv, NoneForgotten, StartBatch
    PROVE  NoneForgotten'
<1>1. PICK c : c = Chosen
  OBVIOUS
<1>2. /\ pc = "gather" /\ pc' = "prefill" /\ batch' = c /\ todo' = c
      /\ \A r \in Requests : r \notin ToSet(c) => seqId'[r] = seqId[r]
      /\ UNCHANGED <<output, queue, start>>
  BY <1>1 DEF StartBatch
<1>3. start = 0 /\ ToSet(batch) = {}
  BY <1>2, EmptyList DEF IInv, PhaseOK, IdleOK
<1>4. LastHasLogits' /\ VisitedFirst'
  BY <1>2, <1>3 DEF LastHasLogits, VisitedFirst, IsLast
<1>5. \A r \in Requests : Scheduled(r) => ~ Open(r)
  BY <1>3 DEF NoneForgotten, EndedReleased
<1>6. EndedReleased'
  BY <1>2, <1>5 DEF EndedReleased, Scheduled, Open
<1> QED BY <1>4, <1>6 DEF NoneForgotten

LEMMA ForgottenPrefill ==
    ASSUME Tame, IInv, NoneForgotten, PrefillChunk \/ PrefillEnd \/ PrefillDone
    PROVE  NoneForgotten'
<1>1. /\ pc = "prefill" /\ UNCHANGED <<batch, seqId, output, queue>>
  BY DEF PrefillChunk, PrefillEnd, PrefillDone, requestVars
<1>2. \A r : (IsLast(r))' <=> IsLast(r)
  BY <1>1 DEF IsLast
<1>3. \A r \in Requests : Scheduled(r) /\ r \notin ToSet(batch) => ~ Open(r)
  BY DEF NoneForgotten, EndedReleased
<1>4. \A r \in Requests : (Scheduled(r) /\ r \notin ToSet(batch) => ~ Open(r))'
  BY <1>1, <1>3 DEF Scheduled, Open
<1>5. PICK r : r = Head(todo)
  OBVIOUS
<1>6. ASSUME PrefillChunk PROVE NoneForgotten'
  <2>1. PICK e : e = PartEnd(r)
    OBVIOUS
  <2>2. PICK list : list = Part(r)
    OBVIOUS
  <2>3. /\ todo # << >> /\ start < shape[r].prompt /\ Decode(list)
        /\ logitsIdx' = Put(logitsIdx, r, e - start)
        /\ UNCHANGED <<pc, todo>>
    BY <1>5, <1>6, <2>1, <2>2 DEF PrefillChunk
  <2>4. todo \in Seq(Requests) /\ Visiting(batch)
    BY <1>1 DEF IInv, Typed, PhaseOK, PrefillOK
  <2>5. r \in Requests /\ r \in ToSet(batch) /\ seqId[r] \in SeqIds
    BY <1>5, <2>3, <2>4, RisingTail, InBatch DEF Visiting, IInv
  <2>6. start \in Nat /\ e \in Nat /\ start < e
    BY <2>1, <2>3, <2>5, PartBounds DEF IInv, Typed
  <2>7. /\ list \in Seq([seq : SeqIds, tok : Tokens, pos : Nat, want : BOOLEAN])
        /\ DOMAIN list = 1..(e - start)
    BY <2>1, <2>2, <2>3, <2>5, PartSlots DEF IInv
  <2>8. DOMAIN logits' = 1..(e - start)
    BY <2>3, <2>7, DecodeLogits
  <2>9. r \in DOMAIN logitsIdx' /\ logitsIdx'[r] = e - start
    BY <2>3 DEF Put
  <2>10. (HasLogits(r))'
    BY <2>6, <2>8, <2>9 DEF HasLogits
  <2>11. \A q \in ToSet(batch) : IsLast(q) => q \in ToSet(todo)
    BY <1>1, <2>3 DEF IInv, PhaseOK, PrefillOK
  <2>12. LastHasLogits'
    BY <1>1, <1>2, <1>5, <2>3, <2>10, <2>11 DEF LastHasLogits
  <2> QED BY <1>1, <1>4, <2>3, <2>12 DEF NoneForgotten, VisitedFirst, EndedReleased
<1>7. ASSUME PrefillEnd PROVE NoneForgotten'
  <2>1. PICK rest : rest = Tail(todo)
    OBVIOUS
  <2>2. /\ todo # << >> /\ start >= shape[r].prompt
        /\ todo' = rest /\ start' = 0 /\ UNCHANGED <<pc, logits, logitsIdx>>
    BY <1>5, <1>7, <2>1 DEF PrefillEnd, backendVars
  <2>3. todo \in Seq(Requests) /\ Visiting(batch)
    BY <1>1 DEF IInv, Typed, PhaseOK, PrefillOK
  <2>4. r \in ToSet(todo) /\ ToSet(rest) = ToSet(todo) \ {r}
    BY <1>5, <2>1, <2>2, <2>3, RisingTail DEF Visiting
  <2>5. r \in Requests /\ r \in ToSet(batch) /\ stage[r] = "prefill"
    BY <1>1, <2>3, <2>4, InBatch DEF Visiting, IInv, PhaseOK, PrefillOK
  <2>6. shape[r] \in Shapes
    BY <2>5 DEF IInv, QueueInv, FitsContext
  <2>7. start > 0
    <3>1. PICK l : l = shape[r].prompt
      OBVIOUS
    <3>2. l > 0 /\ l \in Nat
      BY <2>6, <3>1, StaticAssumption DEF Tame
    <3>3. start \in Nat /\ start >= l
      BY <2>2, <3>1 DEF IInv, Typed
    <3> QED BY <3>2, <3>3
  <2>8. \A q \in ToSet(batch) : IsLast(q) /\ q \notin ToSet(rest) => HasLogits(q)
    BY <1>1, <1>5, <2>4, <2>7 DEF NoneForgotten, LastHasLogits
  <2>9. \A q : (HasLogits(q))' <=> HasLogits(q)
    BY <2>2 DEF HasLogits
  <2>10. LastHasLogits'
    BY <1>1, <1>2, <2>2, <2>8, <2>9 DEF LastHasLogits
  <2> QED BY <1>1, <1>4, <2>2, <2>10 DEF NoneForgotten, VisitedFirst, EndedReleased
<1>8. ASSUME PrefillDone PROVE NoneForgotten'
  <2>1. /\ todo = << >> /\ pc' = "sample" /\ active' = batch /\ todo' = batch
        /\ UNCHANGED <<logits, logitsIdx>>
    BY <1>8 DEF PrefillDone, backendVars
  <2>2. \A q \in ToSet(batch) : IsLast(q) => HasLogits(q)
    BY <1>1, <2>1, EmptyList DEF NoneForgotten, LastHasLogits
  <2>3. \A q : (HasLogits(q))' <=> HasLogits(q)
    BY <2>1 DEF HasLogits
  <2>4. LastHasLogits' /\ VisitedFirst'
    BY <1>2, <2>1, <2>2, <2>3 DEF LastHasLogits, VisitedFirst
  <2> QED BY <1>1, <1>4, <2>1, <2>4 DEF NoneForgotten, EndedReleased
<1> QED BY <1>6, <1>7, <1>8

LEMMA ForgottenSample ==
    ASSUME IInv, NoneForgotten, NEW r \in Requests, SampleEos(r) \/ SampleToken(r)
    PROVE  NoneForgotten'
<1>1. PICK rest : rest = Tail(todo)
  OBVIOUS
<1>2. /\ pc = "sample" /\ pc' = pc /\ todo # << >> /\ r = Head(todo) /\ todo' = rest
      /\ UNCHANGED <<logits, seqId, batch, active, logitsIdx>>
  BY <1>1 DEF SampleEos, SampleToken, Sampling, backendVars
<1>3. \A q \in Requests : q # r => output'[q] = output[q] /\ queue'[q] = queue[q]
  BY DEF SampleEos, SampleToken, IInv, Typed
<1>4. /\ r \in ToSet(active) /\ r \in ToSet(batch) /\ rest \in Seq(Requests)
      /\ ToSet(rest) = ToSet(todo) \ {r} /\ \A q \in ToSet(rest) : r < q
  BY <1>1, <1>2, NextToSample
<1>5. \A q : /\ (IsLast(q))' <=> IsLast(q)
             /\ (HasLogits(q))' <=> HasLogits(q)
             /\ (Scheduled(q))' <=> Scheduled(q)
  BY <1>2 DEF IsLast, HasLogits, Scheduled
<1>6. \A q \in Requests : q # r => ((Open(q))' <=> Open(q))
  BY <1>3 DEF Open
<1>7. LastHasLogits'
  <2>1. \A q \in ToSet(rest) : q \in ToSet(todo) /\ output'[q] = output[q]
    BY <1>3, <1>4, ListElements
  <2> QED BY <1>2, <1>5, <2>1 DEF NoneForgotten, LastHasLogits
<1>8. VisitedFirst'
  BY <1>2, <1>4 DEF NoneForgotten, VisitedFirst
<1>9. EndedReleased'
  <2>1. \A q \in ToSet(batch) : q \in Requests
    BY InBatch DEF IInv
  <2> QED BY <1>2, <1>4, <1>5, <1>6, <2>1 DEF NoneForgotten, EndedReleased
<1> QED BY <1>7, <1>8, <1>9 DEF NoneForgotten

LEMMA ForgottenRelease ==
    ASSUME IInv, NoneForgotten, ReleaseNext
    PROVE  NoneForgotten'
<1>1. PICK r : r = Head(todo)
  OBVIOUS
<1>2. PICK rest : rest = Tail(todo)
  OBVIOUS
<1>3. /\ pc = "release" /\ pc' = pc /\ todo # << >> /\ todo' = rest
      /\ Finished(r) => Released(r)
      /\ ~ Finished(r) => queue' = queue
      /\ UNCHANGED <<stage, seqId, output, batch, active>>
  BY <1>1, <1>2 DEF ReleaseNext
<1>4. todo \in Seq(Requests) /\ Visiting(active) /\ ToSet(active) \subseteq ToSet(batch)
  BY <1>3 DEF IInv, Typed, PhaseOK, ReleaseOK, DecodesNext
<1>5. r \in ToSet(todo) /\ ToSet(rest) = ToSet(todo) \ {r}
  BY <1>1, <1>2, <1>3, <1>4, RisingTail DEF Visiting
<1>6. r \in ToSet(batch) /\ r \in Requests /\ Scheduled(r) /\ Open(r)
  BY <1>3, <1>4, <1>5, InBatch DEF Visiting, IInv, PhaseOK, ReleaseOK
<1>7. ASSUME Finished(r)
      PROVE  ~ (Open(r))' /\ \A q \in Requests : q # r => queue'[q] = queue[q]
  BY <1>3, <1>6, <1>7, ReleaseCounts DEF IInv, QueueInv
<1>8. \A q \in Requests : q # r => ((Open(q))' <=> Open(q))
  BY <1>3, <1>7 DEF Open
<1>9. \A q \in Requests : ~ Open(q) => ~ (Open(q))'
  BY <1>6, <1>8
<1>10. \A q \in ToSet(batch) : q \in Requests
  BY InBatch DEF IInv
<1>11. EndedReleased'
  <2>1. \A q \in Requests : (Scheduled(q))' <=> Scheduled(q)
    BY <1>3 DEF Scheduled
  <2>2. \A q \in Requests : Scheduled(q) /\ q \notin ToSet(batch) => ~ (Open(q))'
    BY <1>9 DEF NoneForgotten, EndedReleased
  <2>3. \A q \in ToSet(batch) : q \notin ToSet(active) => ~ (Open(q))'
    BY <1>3, <1>9, <1>10 DEF NoneForgotten, EndedReleased
  <2>4. ASSUME NEW q \in ToSet(active), q \notin ToSet(rest), stage[q] = "done"
        PROVE  ~ (Open(q))'
    <3>1. CASE q = r
      BY <3>1, <1>7, <2>4 DEF Finished
    <3>2. CASE q # r
      <4>1. ~ Open(q)
        BY <3>2, <2>4, <1>3, <1>5 DEF NoneForgotten, EndedReleased
      <4> QED BY <4>1, <1>4, <1>9, <1>10
    <3> QED BY <3>1, <3>2
  <2> QED BY <1>3, <2>1, <2>2, <2>3, <2>4 DEF EndedReleased
<1> QED BY <1>3, <1>11 DEF NoneForgotten, LastHasLogits, VisitedFirst

(* The thread leaves the batch, at its end or after an exception. *)
LEMMA ForgottenLeave ==
    ASSUME Tame, IInv, NoneForgotten, BatchEnds \/ DecodeFails \/ SampleFails
    PROVE  NoneForgotten'
<1>1. /\ pc' = "cleanup" /\ UNCHANGED <<batch, stage, seqId, output, queue>>
  BY DEF BatchEnds, DecodeFails, SampleFails, LeaveBatch, requestVars
<1>2. \A q \in ToSet(batch) : q \in Requests /\ q \in Nat /\ seqId[q] \in SeqIds
  BY InBatch, StaticAssumption DEF IInv, Requests
<1>3. ASSUME NEW q \in ToSet(batch), Finished(q) PROVE ~ Open(q)
  <2>1. CASE pc = "prefill"
    <3>1. stage[q] \in {"prefill", "decode"}
      BY <2>1 DEF IInv, PhaseOK, PrefillOK, Prefilled
    <3> QED BY <3>1, <1>3 DEF Finished
  <2>2. CASE pc = "release"
    <3>1. todo = << >>
      BY <2>2 DEF BatchEnds, DecodeFails, SampleFails
    <3>2. CASE q \notin ToSet(active)
      BY <2>2, <3>2 DEF NoneForgotten, EndedReleased
    <3>3. CASE q \in ToSet(active)
      <4>1. stage[q] = "done"
        <5>1. stage[q] = "done" \/ stage[q] = "decode"
          BY <2>2, <3>3 DEF IInv, PhaseOK, ReleaseOK, DecodesNext, Continues
        <5> QED BY <5>1, <1>3 DEF Finished
      <4> QED BY <2>2, <3>1, <3>3, <4>1, EmptyList DEF NoneForgotten, EndedReleased
    <3> QED BY <3>2, <3>3
  <2>3. CASE pc = "sample" /\ q \notin ToSet(active)
    BY <2>3 DEF NoneForgotten, EndedReleased
  <2>4. CASE pc = "sample" /\ q \in ToSet(active)
    <3>1. PICK r : r = Head(todo)
      OBVIOUS
    <3>2. todo # << >> /\ ~ HasLogits(r)
      BY <2>4, <3>1 DEF BatchEnds, DecodeFails, SampleFails, Tame
    <3>3. /\ r \in ToSet(todo) /\ r \in ToSet(batch) /\ ToSample(r)
      BY <2>4, <3>1, <3>2, NextToSample
    <3>4. output[r] = << >>
      BY <3>2, <3>3 DEF ToSample, ReadsOwn
    <3>5. ~ IsLast(r)
      BY <2>4, <3>2, <3>3, <3>4 DEF NoneForgotten, LastHasLogits
    <3>6. PICK p \in ToSet(batch) : r < p
      BY <1>2, <3>3, <3>5 DEF IsLast
    <3>7. q \notin ToSet(todo)
      BY <1>3, <2>4 DEF IInv, PhaseOK, SampleOK, ToSample, Finished
    <3>8. q < r
      BY <2>4, <3>3, <3>7 DEF NoneForgotten, VisitedFirst
    <3>9. seqId[q] < seqId[r] /\ seqId[r] < seqId[p]
      BY <3>3, <3>6, <3>8 DEF IInv, BatchOK
    <3>10. /\ seqId[q] \in 0..(MaxSeqs - 1) /\ seqId[r] \in 0..(MaxSeqs - 1)
           /\ seqId[p] \in 0..(MaxSeqs - 1) /\ MaxSeqs \in Nat /\ MaxSeqs <= 2
      BY <1>2, <3>3, StaticAssumption DEF Tame
    <3>11. FALSE
      BY <3>9, <3>10
    <3> QED BY <3>11
  <2> QED BY <2>1, <2>2, <2>3, <2>4 DEF BatchEnds, DecodeFails, SampleFails
<1>4. \A q : /\ (Open(q))' <=> Open(q)
             /\ (Finished(q))' <=> Finished(q)
             /\ (Scheduled(q))' <=> Scheduled(q)
  BY <1>1 DEF Open, Finished, Scheduled
<1>5. EndedReleased'
  BY <1>1, <1>3, <1>4 DEF NoneForgotten, EndedReleased
<1> QED BY <1>1, <1>5 DEF NoneForgotten, LastHasLogits, VisitedFirst

LEMMA ForgottenDecode ==
    ASSUME IInv, NoneForgotten, JointDecode
    PROVE  NoneForgotten'
<1>1. /\ pc = "release" /\ todo = << >> /\ pc' = "sample"
      /\ active' = still /\ todo' = still
      /\ UNCHANGED <<batch, stage, seqId, output, queue>>
  BY DEF JointDecode, requestVars
<1>2. \A r \in ToSet(still) : output[r] # << >>
  BY <1>1 DEF IInv, PhaseOK, ReleaseOK, DecodesNext, Continues
<1>3. LastHasLogits' /\ VisitedFirst'
  BY <1>1, <1>2 DEF LastHasLogits, VisitedFirst
<1>4. ASSUME NEW r \in ToSet(batch), r \notin ToSet(still) PROVE ~ Open(r)
  <2>1. CASE r \notin ToSet(active)
    BY <1>1, <2>1 DEF NoneForgotten, EndedReleased
  <2>2. CASE r \in ToSet(active)
    <3>1. stage[r] = "done"
      BY <1>1, <1>4, <2>2 DEF IInv, PhaseOK, ReleaseOK
    <3> QED BY <1>1, <2>2, <3>1, EmptyList DEF NoneForgotten, EndedReleased
  <2> QED BY <2>1, <2>2
<1>5. EndedReleased'
  <2>1. \A q : /\ (Open(q))' <=> Open(q)
               /\ (Scheduled(q))' <=> Scheduled(q)
    BY <1>1 DEF Open, Scheduled
  <2> QED BY <1>1, <1>4, <2>1 DEF NoneForgotten, EndedReleased
<1> QED BY <1>3, <1>5 DEF NoneForgotten

LEMMA ForgottenCleanUp ==
    ASSUME IInv, NoneForgotten, CleanUp
    PROVE  NoneForgotten'
<1>1. PICK r : r = Head(todo)
  OBVIOUS
<1>2. /\ pc = "cleanup" /\ pc' = pc /\ todo # << >>
      /\ ~ Finished(r) => stage' = [stage EXCEPT ![r] = "aborted"] /\ Released(r)
      /\ Finished(r) => stage' = stage /\ queue' = queue
      /\ UNCHANGED <<seqId, output, batch>>
  BY <1>1 DEF CleanUp, Unreleased
<1>3. r \in ToSet(batch) /\ r \in Requests /\ Scheduled(r)
  <2>1. todo \in Seq(Requests) /\ Visiting(batch)
    BY <1>2 DEF IInv, Typed, PhaseOK, CleanOK
  <2> QED BY <1>1, <1>2, <2>1, RisingTail, InBatch DEF Visiting, IInv
<1>4. ASSUME ~ Finished(r)
      PROVE  /\ ~ (Open(r))'
             /\ \A q \in Requests : q # r => queue'[q] = queue[q] /\ stage'[q] = stage[q]
  <2>1. Open(r)
    BY <1>3, <1>4 DEF IInv, QueueInv, StreamsOK, StreamOf
  <2>2. ~ (Open(r))' /\ \A q \in Requests : q # r => queue'[q] = queue[q]
    BY <1>2, <1>3, <1>4, <2>1, ReleaseCounts DEF IInv, QueueInv
  <2>3. \A q \in Requests : q # r => stage'[q] = stage[q]
    BY <1>2, <1>4 DEF IInv, Typed
  <2> QED BY <2>2, <2>3
<1>5. \A q \in Requests : q # r =>
         ((Open(q))' <=> Open(q)) /\ ((Finished(q))' <=> Finished(q))
  BY <1>2, <1>4 DEF Open, Finished
<1>6. Finished(r) => ((Open(r))' <=> Open(r))
  BY <1>2 DEF Open
<1>7. \A q \in ToSet(batch) : q \in Requests
  BY InBatch DEF IInv
<1>8. \A q \in ToSet(batch) : (Finished(q))' => ~ (Open(q))'
  BY <1>2, <1>4, <1>5, <1>6, <1>7 DEF NoneForgotten, EndedReleased
<1>9. \A q \in Requests : (Scheduled(q) /\ q \notin ToSet(batch) => ~ Open(q))'
  BY <1>2, <1>3, <1>5 DEF NoneForgotten, EndedReleased, Scheduled
<1> QED BY <1>2, <1>8, <1>9
        DEF NoneForgotten, LastHasLogits, VisitedFirst, EndedReleased

LEMMA ForgottenDone ==
    ASSUME IInv, NoneForgotten, BatchDone
    PROVE  NoneForgotten'
<1>1. /\ pc = "cleanup" /\ todo = << >> /\ pc' = "loop"
      /\ UNCHANGED <<seqId, output, queue>>
  BY DEF BatchDone, requestVars
<1>2. \A r \in ToSet(batch) : ~ Open(r)
  BY <1>1, EmptyList DEF IInv, PhaseOK, CleanOK, NoneForgotten, EndedReleased
<1>3. \A r \in Requests : Scheduled(r) => ~ Open(r)
  BY <1>2 DEF NoneForgotten, EndedReleased
<1> QED BY <1>1, <1>3
        DEF NoneForgotten, LastHasLogits, VisitedFirst, EndedReleased, Scheduled, Open

LEMMA ForgottenKeeps == Tame /\ IInv /\ NoneForgotten /\ [Next]_vars => NoneForgotten'
<1> SUFFICES ASSUME Tame, IInv, NoneForgotten, [Next]_vars PROVE NoneForgotten'
  OBVIOUS
<1>1. CASE SubmitCheck
  BY <1>1, ForgottenSubmit
<1>2. CASE SubmitAppend \/ Stop \/ UNCHANGED vars
  <2>1. UNCHANGED <<logits, threadVars, seqId, output, queue, stage>>
    BY <1>2 DEF SubmitAppend, Stop, vars, backendVars, requestVars
  <2> QED BY <2>1, ForgottenIdle
<1>3. CASE Exit \/ FirstArrives
  <2>1. /\ pc' \in {"exited", "gather"} /\ UNCHANGED <<batch, seqId, output, queue>>
    BY <1>3 DEF Exit, FirstArrives, requestVars
  <2> QED BY <2>1 DEF NoneForgotten, LastHasLogits, VisitedFirst, EndedReleased,
                      Scheduled, Open
<1>4. CASE StartBatch
  BY <1>4, ForgottenStart
<1>5. CASE PrefillChunk \/ PrefillEnd \/ PrefillDone
  BY <1>5, ForgottenPrefill
<1>6. CASE SampleDone
  <2>1. /\ pc = "sample" /\ pc' = "release" /\ todo' = active
        /\ UNCHANGED <<batch, active, stage, seqId, output, queue>>
    BY <1>6 DEF SampleDone, requestVars
  <2> QED BY <2>1 DEF NoneForgotten, LastHasLogits, VisitedFirst, EndedReleased,
                      Scheduled, Open
<1>7. CASE ReleaseNext
  BY <1>7, ForgottenRelease
<1>8. CASE BatchEnds \/ DecodeFails \/ SampleFails
  BY <1>8, ForgottenLeave
<1>9. CASE JointDecode
  BY <1>9, ForgottenDecode
<1>10. CASE CleanUp
  BY <1>10, ForgottenCleanUp
<1>11. CASE BatchDone
  BY <1>11, ForgottenDone
<1>12. ASSUME NEW r \in Requests, SampleEos(r) \/ SampleToken(r) PROVE NoneForgotten'
  BY <1>12, ForgottenSample
<1> QED BY <1>1, <1>2, <1>3, <1>4, <1>5, <1>6, <1>7, <1>8, <1>9, <1>10, <1>11, <1>12
        DEF Next, Environment, Thread

(* When batches have two requests at most, no prompt is empty and nothing  *)
(* but a decode raises, _running_n counts exactly the requests of the      *)
(* batch that are not released, however the batch ends: none is held back  *)
(* from the capacity that submit checks (line 71).  With more sequences a  *)
(* request that has ended may be forgotten by the `finally' block.         *)
THEOREM RunningIsCounted ==
    ASSUME Tame
    PROVE  Spec => []RunningCounted
<1>1. Init => NoneForgotten
  <2> SUFFICES ASSUME Init PROVE NoneForgotten
    OBVIOUS
  <2>1. pc = "loop" /\ \A r \in Requests : ~ Scheduled(r)
    BY DEF Init, Scheduled
  <2> QED BY <2>1 DEF NoneForgotten, LastHasLogits, VisitedFirst, EndedReleased
<1>2. IInv /\ NoneForgotten /\ [Next]_vars => NoneForgotten'
  BY ForgottenKeeps
<1>3. IInv /\ NoneForgotten => RunningCounted
  <2> SUFFICES ASSUME IInv, NoneForgotten PROVE RunningCounted
    OBVIOUS
  <2>1. \A r \in ToSet(batch) : r \in Requests /\ Scheduled(r)
    BY InBatch DEF IInv
  <2>2. \A r \in Requests : Closed(r) <=> ~ Open(r)
    BY StreamEnds
  <2>3. Unclosed = {r \in ToSet(batch) : ~ Closed(r)}
    BY <2>1, <2>2 DEF Unclosed, NoneForgotten, EndedReleased
  <2> QED BY <2>3 DEF IInv, QueueInv, Counted, RunningCounted
<1> QED BY <1>1, <1>2, <1>3, InvariantHolds, PTL DEF Spec
=============================================================================
