-------------------------- MODULE BlockManagerProofs --------------------------
(***************************************************************************)
(* Proofs about the prefix cache: for every number of slots and donors,    *)
(* every pool, block size, set of prompts and hash.                        *)
(***************************************************************************)
EXTENDS BlockManagerProperties, SequenceLemmas

-----------------------------------------------------------------------------
(* The inductive invariant of TypeOK and DonorsConserved. *)

IsRequest(r) ==
    /\ r \in [toks : Seq(Words), prompt : Nat, computed : Nat, cached : Nat]
    /\ Len(r.toks) <= MaxTokens
    /\ r.prompt \in 1..Len(r.toks) /\ r.cached <= r.prompt
    /\ r.computed < Len(r.toks)

LanesOK ==
    /\ lane = [s \in Lanes |-> lane[s]]
    /\ \A s \in Lanes : lane[s] # Vacant => IsRequest(lane[s])

PausedOK == \A r \in paused : IsRequest(r) /\ r.computed = 0

CellType == [pos : 0..(MaxTokens - 1), tok : Words,
             seqs : (SUBSET (Lanes \cup Donors)) \ {{}}]

CellsOK == kv \subseteq CellType

EntriesOK ==
    /\ DOMAIN entries \subseteq Donors
    /\ \A d \in DOMAIN entries :
          entries[d] \in Seq(Words) /\ Len(entries[d]) \in 1..MaxTokens

(* What a call of the pool is for, when the manager makes it. *)
CallFor(donor, toks) ==
    /\ call.op \in {"share", "fill"}
    /\ call = Pool!CallOf(call.op, donor, donor, toks, Len(toks), call.limit)
    /\ donor \notin DOMAIN tables

Publishing ==
    /\ job \in [at : {"publish"}, seq : Lanes, toks : Seq(Words), limit : Nat]
    /\ job.limit <= Blockwise(job.toks)
    /\ call = Pool!NoCall

Sharing ==
    /\ job \in [at : {"share"}, seq : Lanes, toks : Seq(Words), donor : Donors]
    /\ call = Pool!NoCall \/ CallFor(job.donor, job.toks)

JobOK ==
    /\ \/ job = NoJob /\ call = Pool!NoCall
       \/ Publishing
       \/ Sharing
    /\ job # NoJob => /\ lane[job.seq] = Vacant
                      /\ Len(job.toks) <= MaxTokens
                      /\ Len(job.toks) % BlockSize = 0

DonorsOK ==
    /\ recency \in Seq(Donors) /\ freeDonors \in Seq(Donors)
    /\ IsInjective(freeDonors) /\ IsInjective(recency)
    /\ ToSet(recency) = DOMAIN entries
    /\ Donors = ToSet(freeDonors) \cup DOMAIN entries \cup InJob
    /\ DOMAIN entries \cap (ToSet(freeDonors) \cup InJob) = {}
    /\ ToSet(freeDonors) \cap InJob = {}
    /\ DOMAIN tables \ InJob = DOMAIN entries

(* The cells of s in k are one for each of the first n positions, and their
   tokens are those of toks as far as it goes. *)
Context(k, s, n) ==
    /\ \A c \in k : s \in c.seqs => c.pos \in 0..(n - 1)
    /\ \A p \in 0..(n - 1) : \E c \in k : s \in c.seqs /\ c.pos = p
    /\ \A b, c \in k : s \in b.seqs /\ s \in c.seqs /\ b.pos = c.pos => b = c

Follows(k, s, toks) ==
    \A c \in k : s \in c.seqs /\ c.pos < Len(toks) => c.tok = toks[c.pos + 1]

(* What a step does to the cells of s leaves the other sequences alone. *)
KeepsOthers(k, l, s) ==
    /\ \A x : \A n \in Nat : x # s /\ Context(k, x, n) => Context(l, x, n)
    /\ \A x, toks : x # s /\ Follows(k, x, toks) => Follows(l, x, toks)

LanesExact ==
    \A s \in Lanes : lane[s] # Vacant =>
        Context(kv, s, lane[s].computed) /\ Follows(kv, s, lane[s].toks)

EntriesExact ==
    \A d \in DOMAIN entries :
        Context(kv, d, Len(entries[d])) /\ Follows(kv, d, entries[d])

JobExact ==
    job # NoJob =>
        /\ \E n \in 0..MaxTokens : Context(kv, job.seq, n)
        /\ Follows(kv, job.seq, job.toks)

NothingPinned == \A d \in Donors \ DOMAIN entries : Context(kv, d, 0)

IInv == /\ LanesOK /\ PausedOK /\ CellsOK /\ EntriesOK /\ JobOK /\ DonorsOK
        /\ NothingPinned

CInv == LanesExact /\ EntriesExact /\ JobExact
-----------------------------------------------------------------------------
(* Blocks of tokens. *)

LEMMA Blocking ==
    ASSUME NEW n \in Nat
    PROVE  /\ Pool!WholeBlocks(n) \in Nat
           /\ Pool!WholeBlocks(n) * BlockSize \in Nat
           /\ Pool!WholeBlocks(n) * BlockSize <= n
  BY ManagerAssumption DEF Pool!WholeBlocks

LEMMA WholeNumber ==
    ASSUME NEW w \in Nat
    PROVE  /\ w * BlockSize \in Nat
           /\ (w * BlockSize) % BlockSize = 0
           /\ Pool!WholeBlocks(w * BlockSize) = w
  BY ManagerAssumption DEF Pool!WholeBlocks

LEMMA BlocksMonotone ==
    ASSUME NEW v \in Nat, NEW w \in Nat, v <= w
    PROVE  v * BlockSize <= w * BlockSize
<1>1. PICK x \in Nat : w = v + x
  <2>1. w - v \in Nat /\ w = v + (w - v)
    OBVIOUS
  <2> QED BY <2>1
<1>2. w * BlockSize = v * BlockSize + x * BlockSize /\ x * BlockSize \in Nat
  BY <1>1, ManagerAssumption
<1>3. v * BlockSize \in Nat
  BY ManagerAssumption
<1> QED BY <1>2, <1>3

(* The first n tokens of a sequence. *)
LEMMA FirstTokens ==
    ASSUME NEW toks \in Seq(Words), NEW n \in 0..Len(toks)
    PROVE  /\ SubSeq(toks, 1, n) \in Seq(Words)
           /\ Len(SubSeq(toks, 1, n)) = n
           /\ \A i \in 1..n : SubSeq(toks, 1, n)[i] = toks[i]
<1>1. Len(toks) \in Nat /\ \A i \in 1..Len(toks) : toks[i] \in Words
  BY LenProperties, ElementOfSeq
<1>2. \A i \in 1..n : toks[i] \in Words
  BY <1>1
<1>3. 1 \in Int /\ n \in Nat
  BY <1>1
<1>4. /\ SubSeq(toks, 1, n) \in Seq(Words)
      /\ Len(SubSeq(toks, 1, n)) = IF 1 <= n THEN n - 1 + 1 ELSE 0
      /\ \A i \in 1..(n - 1 + 1) : SubSeq(toks, 1, n)[i] = toks[1 + i - 1]
  BY <1>2, <1>3, SubSeqProperties
<1> QED BY <1>3, <1>4

(* What is left when the last, incomplete block is cut off. *)
LEMMA Aligned ==
    ASSUME NEW toks \in Seq(Words), NEW t, t = Pool!UpToBlock(toks, Blockwise(toks))
    PROVE  /\ t \in Seq(Words)
           /\ Len(t) <= Len(toks)
           /\ Len(t) % BlockSize = 0
           /\ Blockwise(toks) \in Nat /\ Blockwise(t) = Blockwise(toks)
           /\ \A i \in 1..Len(t) : t[i] = toks[i]
<1>1. Len(toks) \in Nat
  BY LenProperties
<1>2. PICK w : w = Blockwise(toks)
  OBVIOUS
<1>3. w \in Nat /\ w * BlockSize \in Nat /\ w * BlockSize <= Len(toks)
  BY <1>1, <1>2, Blocking DEF Blockwise
<1>4. t = SubSeq(toks, 1, w * BlockSize)
  BY <1>2 DEF Pool!UpToBlock
<1>5. w * BlockSize \in 0..Len(toks)
  BY <1>1, <1>3
<1>6. /\ t \in Seq(Words) /\ Len(t) = w * BlockSize
      /\ \A i \in 1..(w * BlockSize) : t[i] = toks[i]
  BY <1>4, <1>5, FirstTokens
<1>7. Len(t) % BlockSize = 0 /\ Blockwise(t) = w
  BY <1>3, <1>6, WholeNumber DEF Blockwise
<1> QED BY <1>2, <1>3, <1>6, <1>7

(* The hashes of two sequences agree for no more blocks than either has. *)
LEMMA HashesMatch ==
    ASSUME NEW toks \in Seq(Words), NEW d, entries[d] \in Seq(Words)
    PROVE  /\ MatchLen(d, toks) \in Nat
           /\ MatchLen(d, toks) <= Blockwise(entries[d])
           /\ MatchLen(d, toks) <= Blockwise(toks)
<1> DEFINE H(t) == {Pool!Key(Pool!UpToBlock(t, i)) : i \in 1..Blockwise(t)}
           S == H(entries[d]) \cup H(toks)
<1>1. ASSUME NEW t \in Seq(Words), H(t) \subseteq S
      PROVE  Hashes(t) \in Seq(S) /\ Len(Hashes(t)) = Blockwise(t)
  <2>1. Blockwise(t) \in Nat
    BY LenProperties, Blocking DEF Blockwise
  <2>2. \A i \in 1..Blockwise(t) : Pool!Key(Pool!UpToBlock(t, i)) \in S
    BY <1>1
  <2>3. Hashes(t) \in [1..Blockwise(t) -> S]
    BY <2>2 DEF Hashes
  <2>4. PICK h, w : h = Hashes(t) /\ w = Blockwise(t)
    OBVIOUS
  <2> HIDE DEF S, H
  <2>5. w \in Nat /\ h \in [1..w -> S]
    BY <2>1, <2>3, <2>4
  <2>6. h \in Seq(S) /\ DOMAIN h = 1..w
    BY <2>5, SeqDef
  <2>7. DOMAIN h = 1..Len(h) /\ Len(h) \in Nat
    BY <2>6, LenProperties
  <2> QED BY <2>4, <2>5, <2>6, <2>7
<1>2. H(entries[d]) \subseteq S /\ H(toks) \subseteq S
  OBVIOUS
<1> HIDE DEF S, H
<1>3. /\ Hashes(entries[d]) \in Seq(S) /\ Len(Hashes(entries[d])) = Blockwise(entries[d])
      /\ Hashes(toks) \in Seq(S) /\ Len(Hashes(toks)) = Blockwise(toks)
  BY <1>1, <1>2
<1> QED BY <1>3, CommonPrefixLength DEF MatchLen

(* What a request reuses are its own tokens, and not all of them. *)
LEMMA ReusedTokens ==
    ASSUME EntriesOK, NEW toks \in Seq(Words), NEW d \in LongestMatch(toks)
    PROVE  /\ d \in DOMAIN entries
           /\ Reusable(d, toks) \in Nat
           /\ Reusable(d, toks) < Len(toks)
           /\ Reusable(d, toks) <= Len(entries[d])
           /\ \A i \in 1..Reusable(d, toks) : entries[d][i] = toks[i]
<1>1. PICK m : m = MatchLen(d, toks)
  OBVIOUS
<1>2. d \in DOMAIN entries /\ m > 0 /\ SameTokens(d, toks, m)
  BY <1>1 DEF LongestMatch, Matching
<1>3. entries[d] \in Seq(Words)
  BY <1>2 DEF EntriesOK
<1>4. m \in Nat /\ m <= Blockwise(entries[d]) /\ m <= Blockwise(toks)
  BY <1>1, <1>3, HashesMatch
<1>5. ASSUME NEW t \in Seq(Words), m <= Blockwise(t)
      PROVE  m * BlockSize \in 0..Len(t)
  <2>1. /\ Len(t) \in Nat /\ Blockwise(t) \in Nat
        /\ Blockwise(t) * BlockSize \in Nat /\ Blockwise(t) * BlockSize <= Len(t)
    BY LenProperties, Blocking DEF Blockwise
  <2>2. m * BlockSize <= Blockwise(t) * BlockSize
    BY <1>4, <1>5, <2>1, BlocksMonotone
  <2>3. m * BlockSize \in Nat
    BY <1>4, WholeNumber
  <2> QED BY <2>1, <2>2, <2>3
<1>6. PICK n : n = m * BlockSize
  OBVIOUS
<1>7. n \in 0..Len(entries[d]) /\ n \in 0..Len(toks)
  BY <1>3, <1>4, <1>5, <1>6
<1>8. SubSeq(entries[d], 1, n) = SubSeq(toks, 1, n)
  BY <1>2, <1>6 DEF SameTokens, Pool!UpToBlock
<1>9. \A i \in 1..n : entries[d][i] = toks[i]
  <2>1. \A i \in 1..n : SubSeq(entries[d], 1, n)[i] = entries[d][i]
    BY <1>3, <1>7, FirstTokens
  <2>2. \A i \in 1..n : SubSeq(toks, 1, n)[i] = toks[i]
    BY <1>7, FirstTokens
  <2> QED BY <1>8, <2>1, <2>2
<1>10. Len(entries[d]) \in Nat /\ Len(toks) \in Nat /\ n \in Nat
  BY <1>3, <1>7, LenProperties
<1>11. PICK k : k = (m - 1) * BlockSize
  OBVIOUS
<1>12. k \in Nat /\ k < n
  <2>1. m - 1 \in Nat
    BY <1>2, <1>4
  <2>2. k \in Nat
    BY <1>11, <2>1, WholeNumber
  <2>3. n = k + BlockSize
    BY <1>4, <1>6, <1>11, ManagerAssumption
  <2> QED BY <2>2, <2>3, ManagerAssumption
<1>13. Reusable(d, toks) = IF n >= Len(toks) THEN k ELSE n
  BY <1>1, <1>6, <1>11 DEF Reusable
<1>14. CASE n >= Len(toks)
  <2>1. Reusable(d, toks) = k
    BY <1>13, <1>14
  <2> QED BY <1>2, <1>7, <1>9, <1>10, <1>12, <2>1
<1>15. CASE ~ (n >= Len(toks))
  <2>1. Reusable(d, toks) = n
    BY <1>13, <1>15
  <2> QED BY <1>2, <1>7, <1>9, <1>10, <1>15, <2>1
<1> QED BY <1>14, <1>15
-----------------------------------------------------------------------------
(***************************************************************************)
(* The operations of the backend, by what they do to the cells of one      *)
(* sequence: f maps the cells before to those after.                       *)
(***************************************************************************)
LEMMA Relabelled ==
    ASSUME NEW k, NEW l, NEW f, NEW s, NEW t, NEW n \in Nat, NEW m \in 0..n,
           \A c \in k : c.pos \in Nat /\ f[c].pos = c.pos /\ f[c].tok = c.tok,
           \A e \in l : t \in e.seqs => \E c \in k : e = f[c],
           \A c \in k : t \in f[c].seqs => s \in c.seqs /\ f[c] \in l,
           \A c \in k : s \in c.seqs /\ c.pos < n => (t \in f[c].seqs <=> c.pos < m),
           Context(k, s, n)
    PROVE  Context(l, t, m)
<1>1. /\ \A c \in k : s \in c.seqs => c.pos \in 0..(n - 1)
      /\ \A p \in 0..(n - 1) : \E c \in k : s \in c.seqs /\ c.pos = p
      /\ \A b, c \in k : s \in b.seqs /\ s \in c.seqs /\ b.pos = c.pos => b = c
  BY DEF Context
<1>2. ASSUME NEW e \in l, t \in e.seqs
      PROVE  \E c \in k : e = f[c] /\ s \in c.seqs /\ e.pos = c.pos
  BY <1>2
<1>3. \A e \in l : t \in e.seqs => e.pos \in 0..(m - 1)
  <2> SUFFICES ASSUME NEW e \in l, t \in e.seqs PROVE e.pos \in 0..(m - 1)
    OBVIOUS
  <2>1. PICK c \in k : e = f[c] /\ s \in c.seqs /\ e.pos = c.pos
    BY <1>2
  <2>2. c.pos \in Nat /\ c.pos < n
    BY <1>1, <2>1
  <2>3. c.pos < m
    BY <2>1, <2>2
  <2> QED BY <2>1, <2>2, <2>3
<1>4. \A p \in 0..(m - 1) : \E e \in l : t \in e.seqs /\ e.pos = p
  <2> TAKE p \in 0..(m - 1)
  <2>1. p \in 0..(n - 1) /\ p < m /\ p < n
    OBVIOUS
  <2>2. PICK c \in k : s \in c.seqs /\ c.pos = p
    BY <1>1, <2>1
  <2>3. t \in f[c].seqs
    BY <2>1, <2>2
  <2>4. f[c] \in l /\ f[c].pos = p
    BY <2>2, <2>3
  <2> QED BY <2>3, <2>4
<1>5. \A b, c \in l : t \in b.seqs /\ t \in c.seqs /\ b.pos = c.pos => b = c
  <2> SUFFICES ASSUME NEW b \in l, NEW c \in l, t \in b.seqs, t \in c.seqs, b.pos = c.pos
               PROVE  b = c
    OBVIOUS
  <2>1. PICK x \in k : b = f[x] /\ s \in x.seqs /\ b.pos = x.pos
    BY <1>2
  <2>2. PICK y \in k : c = f[y] /\ s \in y.seqs /\ c.pos = y.pos
    BY <1>2
  <2>3. x = y
    BY <1>1, <2>1, <2>2
  <2> QED BY <2>1, <2>2, <2>3
<1> QED BY <1>3, <1>4, <1>5 DEF Context

LEMMA Copies ==
    ASSUME NEW k, NEW l, NEW f, NEW s, NEW t, NEW toks,
           \A c \in k : f[c].pos = c.pos /\ f[c].tok = c.tok,
           \A e \in l : t \in e.seqs => \E c \in k : e = f[c],
           \A c \in k : t \in f[c].seqs => s \in c.seqs,
           Follows(k, s, toks)
    PROVE  Follows(l, t, toks)
<1> SUFFICES ASSUME NEW e \in l, t \in e.seqs, e.pos < Len(toks)
             PROVE  e.tok = toks[e.pos + 1]
  BY DEF Follows
<1>1. PICK c \in k : e = f[c]
  OBVIOUS
<1>2. s \in c.seqs /\ e.pos = c.pos /\ e.tok = c.tok
  BY <1>1
<1> QED BY <1>2 DEF Follows

(* llama_memory_seq_rm *)
LEMMA RemovedCells ==
    ASSUME NEW k, k \subseteq CellType, NEW s, NEW from \in Nat
    PROVE  /\ Removed(k, s, from) \subseteq CellType
           /\ \A x : \A n \in Nat : x # s /\ Context(k, x, n)
                  => Context(Removed(k, s, from), x, n)
           /\ \A x, toks : Follows(k, x, toks) => Follows(Removed(k, s, from), x, toks)
           /\ \A n \in Nat : from <= n /\ Context(k, s, n)
                  => Context(Removed(k, s, from), s, from)
<1> DEFINE f == [c \in k |-> IF c.pos >= from THEN [c EXCEPT !.seqs = @ \ {s}] ELSE c]
           l == Removed(k, s, from)
<1>1. ASSUME NEW c \in k
      PROVE  /\ c.pos \in Nat /\ c.pos \in 0..(MaxTokens - 1) /\ c.tok \in Words
             /\ f[c].pos = c.pos /\ f[c].tok = c.tok
             /\ \A y : y # s => (y \in f[c].seqs <=> y \in c.seqs)
             /\ \A y : y \in f[c].seqs => y \in c.seqs
             /\ s \in f[c].seqs <=> (s \in c.seqs /\ c.pos < from)
             /\ c.seqs # {} /\ f[c].seqs \subseteq Lanes \cup Donors
             /\ f[c] = [pos |-> c.pos, tok |-> c.tok, seqs |-> f[c].seqs]
  <2>1. c \in CellType
    OBVIOUS
  <2>2. c = [pos |-> c.pos, tok |-> c.tok, seqs |-> c.seqs]
    BY <2>1 DEF CellType
  <2>3. c.pos \in Nat
    BY <2>1, ManagerAssumption DEF CellType
  <2>4. CASE c.pos >= from
    <3>1. f[c] = [pos |-> c.pos, tok |-> c.tok, seqs |-> c.seqs \ {s}]
      BY <2>2, <2>4
    <3>2. ~ (c.pos < from)
      BY <2>3, <2>4
    <3>3. f[c].pos = c.pos /\ f[c].tok = c.tok /\ f[c].seqs = c.seqs \ {s}
      BY <3>1
    <3>4. c.tok \in Words /\ c.seqs # {} /\ c.seqs \subseteq Lanes \cup Donors
          /\ c.pos \in 0..(MaxTokens - 1)
      BY <2>1 DEF CellType
    <3> HIDE DEF f
    <3>5. f[c] = [pos |-> c.pos, tok |-> c.tok, seqs |-> f[c].seqs]
      BY <3>1, <3>3
    <3> QED BY <2>3, <3>2, <3>3, <3>4, <3>5
  <2>5. CASE ~ (c.pos >= from)
    <3>1. f[c] = c /\ c.pos < from
      BY <2>3, <2>5
    <3> QED BY <2>1, <2>2, <2>3, <3>1 DEF CellType
  <2> QED BY <2>4, <2>5
<1>2. l = {e \in {f[c] : c \in k} : e.seqs # {}}
  BY DEF Removed
<1> HIDE DEF f, l
<1>3. \A e \in l : e.seqs # {} /\ \E c \in k : e = f[c]
  BY <1>2
<1>4. \A c \in k : f[c].seqs # {} => f[c] \in l
  BY <1>2
<1>5. l \subseteq CellType
  <2> SUFFICES ASSUME NEW e \in l PROVE e \in CellType
    OBVIOUS
  <2>1. PICK c \in k : e = f[c] /\ e.seqs # {}
    BY <1>3
  <2>2. /\ e = [pos |-> c.pos, tok |-> c.tok, seqs |-> e.seqs]
        /\ c.pos \in 0..(MaxTokens - 1) /\ c.tok \in Words
        /\ e.seqs \subseteq Lanes \cup Donors
    BY <1>1, <2>1
  <2> QED BY <2>1, <2>2 DEF CellType
<1>6. \A c \in k : c.pos \in Nat
  BY <1>1
<1>7. ASSUME NEW x, NEW n \in Nat, x # s, Context(k, x, n) PROVE Context(l, x, n)
  <2>1. \A c \in k : x \in f[c].seqs <=> x \in c.seqs
    BY <1>1, <1>7
  <2>2. \A c \in k : c.pos \in Nat /\ f[c].pos = c.pos /\ f[c].tok = c.tok
    BY <1>1
  <2>3. \A e \in l : x \in e.seqs => \E c \in k : e = f[c]
    BY <1>3
  <2>4. \A c \in k : x \in f[c].seqs => x \in c.seqs /\ f[c] \in l
    BY <2>1, <1>4
  <2>5. \A c \in k : x \in c.seqs /\ c.pos < n => (x \in f[c].seqs <=> c.pos < n)
    BY <2>1
  <2>6. n \in 0..n
    OBVIOUS
  <2> QED BY <1>7, <2>2, <2>3, <2>4, <2>5, <2>6, Relabelled
<1>8. ASSUME NEW x, NEW toks, Follows(k, x, toks) PROVE Follows(l, x, toks)
  <2>1. \A c \in k : x \in f[c].seqs => x \in c.seqs
    BY <1>1
  <2>2. \A c \in k : f[c].pos = c.pos /\ f[c].tok = c.tok
    BY <1>1
  <2>3. \A e \in l : x \in e.seqs => \E c \in k : e = f[c]
    BY <1>3
  <2> QED BY <1>8, <2>1, <2>2, <2>3, Copies
<1>9. ASSUME NEW n \in Nat, from <= n, Context(k, s, n) PROVE Context(l, s, from)
  <2>2. \A c \in k : c.pos \in Nat /\ f[c].pos = c.pos /\ f[c].tok = c.tok
    BY <1>1
  <2>3. \A e \in l : s \in e.seqs => \E c \in k : e = f[c]
    BY <1>3
  <2>4. \A c \in k : s \in f[c].seqs => s \in c.seqs /\ f[c] \in l
    BY <1>1, <1>4
  <2>5. \A c \in k : s \in c.seqs /\ c.pos < n => (s \in f[c].seqs <=> c.pos < from)
    BY <1>1
  <2>6. from \in 0..n
    BY <1>9
  <2> QED BY <1>9, <2>2, <2>3, <2>4, <2>5, <2>6, Relabelled
<1> QED BY <1>5, <1>7, <1>8, <1>9 DEF l

(* A sequence that has been removed has no cells. *)
LEMMA RemovedEntirely ==
    ASSUME NEW k, k \subseteq CellType, NEW s
    PROVE  Context(Without(k, s), s, 0)
<1> DEFINE f == [c \in k |-> IF c.pos >= 0 THEN [c EXCEPT !.seqs = @ \ {s}] ELSE c]
<1>1. ASSUME NEW c \in k PROVE s \notin f[c].seqs
  <2>1. c \in CellType
    OBVIOUS
  <2>2. c.pos >= 0 /\ c = [pos |-> c.pos, tok |-> c.tok, seqs |-> c.seqs]
    BY <2>1, ManagerAssumption DEF CellType
  <2> QED BY <2>2
<1>2. \A e \in Without(k, s) : \E c \in k : e = f[c]
  BY DEF Without, Removed
<1>3. \A e \in Without(k, s) : s \notin e.seqs
  BY <1>1, <1>2
<1> QED BY <1>3 DEF Context

(* llama_memory_seq_cp *)
LEMMA CopiedCells ==
    ASSUME NEW k, k \subseteq CellType, NEW src, NEW dst \in Lanes \cup Donors, src # dst
    PROVE  /\ Copied(k, src, dst) \subseteq CellType
           /\ \A x : \A n \in Nat : x # dst /\ Context(k, x, n)
                  => Context(Copied(k, src, dst), x, n)
           /\ \A x, toks : x # dst /\ Follows(k, x, toks)
                  => Follows(Copied(k, src, dst), x, toks)
           /\ Context(k, dst, 0) =>
                /\ \A n \in Nat : Context(k, src, n) => Context(Copied(k, src, dst), dst, n)
                /\ \A toks : Follows(k, src, toks) => Follows(Copied(k, src, dst), dst, toks)
<1> DEFINE f == [c \in k |-> IF src \in c.seqs THEN [c EXCEPT !.seqs = @ \cup {dst}] ELSE c]
           l == Copied(k, src, dst)
<1>1. ASSUME NEW c \in k
      PROVE  /\ c.pos \in Nat /\ c.pos \in 0..(MaxTokens - 1) /\ c.tok \in Words
             /\ f[c].pos = c.pos /\ f[c].tok = c.tok
             /\ \A y : y # dst => (y \in f[c].seqs <=> y \in c.seqs)
             /\ dst \in f[c].seqs <=> (dst \in c.seqs \/ src \in c.seqs)
             /\ c.seqs # {} /\ f[c].seqs \subseteq Lanes \cup Donors
             /\ f[c] = [pos |-> c.pos, tok |-> c.tok, seqs |-> f[c].seqs]
  <2>1. c \in CellType
    OBVIOUS
  <2>2. c = [pos |-> c.pos, tok |-> c.tok, seqs |-> c.seqs]
    BY <2>1 DEF CellType
  <2>3. c.pos \in Nat
    BY <2>1, ManagerAssumption DEF CellType
  <2> QED BY <2>1, <2>2, <2>3 DEF CellType
<1>2. l = {f[c] : c \in k}
  BY DEF Copied
<1> HIDE DEF f, l
<1>3. \A e \in l : \E c \in k : e = f[c]
  BY <1>2
<1>4. \A c \in k : f[c] \in l
  BY <1>2
<1>5. l \subseteq CellType
  <2> SUFFICES ASSUME NEW e \in l PROVE e \in CellType
    OBVIOUS
  <2>1. PICK c \in k : e = f[c]
    BY <1>3
  <2>2. /\ e = [pos |-> c.pos, tok |-> c.tok, seqs |-> e.seqs]
        /\ c.pos \in 0..(MaxTokens - 1) /\ c.tok \in Words
        /\ e.seqs \subseteq Lanes \cup Donors /\ e.seqs # {}
    BY <1>1, <2>1
  <2> QED BY <2>1, <2>2 DEF CellType
<1>6. \A c \in k : c.pos \in Nat /\ f[c].pos = c.pos /\ f[c].tok = c.tok
  BY <1>1
<1>7. ASSUME NEW x, NEW n \in Nat, x # dst, Context(k, x, n) PROVE Context(l, x, n)
  <2>1. \A c \in k : x \in f[c].seqs <=> x \in c.seqs
    BY <1>1, <1>7
  <2>3. \A e \in l : x \in e.seqs => \E c \in k : e = f[c]
    BY <1>3
  <2>4. \A c \in k : x \in f[c].seqs => x \in c.seqs /\ f[c] \in l
    BY <2>1, <1>4
  <2>5. \A c \in k : x \in c.seqs /\ c.pos < n => (x \in f[c].seqs <=> c.pos < n)
    BY <2>1
  <2>6. n \in 0..n
    OBVIOUS
  <2> QED BY <1>6, <1>7, <2>3, <2>4, <2>5, <2>6, Relabelled
<1>8. ASSUME NEW x, NEW toks, x # dst, Follows(k, x, toks) PROVE Follows(l, x, toks)
  <2>1. \A c \in k : x \in f[c].seqs => x \in c.seqs
    BY <1>1, <1>8
  <2>3. \A e \in l : x \in e.seqs => \E c \in k : e = f[c]
    BY <1>3
  <2> QED BY <1>6, <1>8, <2>1, <2>3, Copies
<1>9. ASSUME Context(k, dst, 0)
      PROVE  /\ \A n \in Nat : Context(k, src, n) => Context(l, dst, n)
             /\ \A toks : Follows(k, src, toks) => Follows(l, dst, toks)
  <2>1. \A c \in k : dst \notin c.seqs
    BY <1>9 DEF Context
  <2>2. \A c \in k : dst \in f[c].seqs <=> src \in c.seqs
    BY <1>1, <2>1
  <2>3. \A e \in l : dst \in e.seqs => \E c \in k : e = f[c]
    BY <1>3
  <2>4. \A c \in k : dst \in f[c].seqs => src \in c.seqs /\ f[c] \in l
    BY <2>2, <1>4
  <2>5. ASSUME NEW n \in Nat, Context(k, src, n) PROVE Context(l, dst, n)
    <3>1. \A c \in k : src \in c.seqs /\ c.pos < n => (dst \in f[c].seqs <=> c.pos < n)
      BY <2>2
    <3>2. n \in 0..n
      OBVIOUS
    <3> QED BY <1>6, <2>3, <2>4, <2>5, <3>1, <3>2, Relabelled
  <2>6. ASSUME NEW toks, Follows(k, src, toks) PROVE Follows(l, dst, toks)
    BY <1>6, <2>3, <2>4, <2>6, Copies
  <2> QED BY <2>5, <2>6
<1> QED BY <1>5, <1>7, <1>8, <1>9 DEF l

(* Without *)
LEMMA WithoutCells ==
    ASSUME NEW k, k \subseteq CellType, NEW s
    PROVE  /\ Without(k, s) \subseteq CellType
           /\ Context(Without(k, s), s, 0)
           /\ KeepsOthers(k, Without(k, s), s)
<1>1. 0 \in Nat /\ Without(k, s) = Removed(k, s, 0)
  BY DEF Without
<1>2. /\ Removed(k, s, 0) \subseteq CellType
      /\ \A x : \A n \in Nat : x # s /\ Context(k, x, n) => Context(Removed(k, s, 0), x, n)
      /\ \A x, toks : Follows(k, x, toks) => Follows(Removed(k, s, 0), x, toks)
  BY <1>1, RemovedCells
<1>3. KeepsOthers(k, Without(k, s), s)
  BY <1>1, <1>2 DEF KeepsOthers
<1> QED BY <1>1, <1>2, <1>3, RemovedEntirely

(* seq_share_prefix *)
LEMMA SharedCellsOfPrefix ==
    ASSUME NEW k, k \subseteq CellType, NEW src, NEW dst \in Lanes \cup Donors,
           src # dst, NEW n \in Nat, NEW l, l = PrefixShared(k, src, dst, n)
    PROVE  /\ l \subseteq CellType
           /\ KeepsOthers(k, l, dst)
           /\ \A m \in Nat : n <= m /\ Context(k, src, m) => Context(l, dst, n)
           /\ \A toks : Follows(k, src, toks) => Follows(l, dst, toks)
<1> DEFINE k1 == Without(k, dst)
           k2 == Copied(k1, src, dst)
<1>1. l = Removed(k2, dst, n)
  BY DEF PrefixShared
<1>2. /\ k1 \subseteq CellType /\ Context(k1, dst, 0)
      /\ \A x : \A m \in Nat : x # dst /\ Context(k, x, m) => Context(k1, x, m)
      /\ \A x, toks : x # dst /\ Follows(k, x, toks) => Follows(k1, x, toks)
  BY WithoutCells DEF KeepsOthers
<1> HIDE DEF k1
<1>3. /\ k2 \subseteq CellType
      /\ \A x : \A m \in Nat : x # dst /\ Context(k1, x, m) => Context(k2, x, m)
      /\ \A x, toks : x # dst /\ Follows(k1, x, toks) => Follows(k2, x, toks)
      /\ \A m \in Nat : Context(k1, src, m) => Context(k2, dst, m)
      /\ \A toks : Follows(k1, src, toks) => Follows(k2, dst, toks)
  BY <1>2, CopiedCells
<1> HIDE DEF k2
<1>4. /\ l \subseteq CellType
      /\ \A x : \A m \in Nat : x # dst /\ Context(k2, x, m) => Context(l, x, m)
      /\ \A x, toks : Follows(k2, x, toks) => Follows(l, x, toks)
      /\ \A m \in Nat : n <= m /\ Context(k2, dst, m) => Context(l, dst, n)
  BY <1>1, <1>3, RemovedCells
<1>5. \A x : \A m \in Nat : x # dst /\ Context(k, x, m) => Context(l, x, m)
  BY <1>2, <1>3, <1>4
<1>6. \A x, toks : x # dst /\ Follows(k, x, toks) => Follows(l, x, toks)
  BY <1>2, <1>3, <1>4
<1>7. \A m \in Nat : n <= m /\ Context(k, src, m) => Context(l, dst, n)
  <2> SUFFICES ASSUME NEW m \in Nat, n <= m, Context(k, src, m) PROVE Context(l, dst, n)
    OBVIOUS
  <2>1. Context(k1, src, m)
    BY <1>2
  <2>2. Context(k2, dst, m)
    BY <2>1, <1>3
  <2> QED BY <2>2, <1>4
<1>8. \A toks : Follows(k, src, toks) => Follows(l, dst, toks)
  BY <1>2, <1>3, <1>4
<1>9. KeepsOthers(k, l, dst)
  BY <1>5, <1>6 DEF KeepsOthers
<1> QED BY <1>4, <1>7, <1>8, <1>9

(* llama_decode *)
LEMMA DecodedCells ==
    ASSUME NEW k, k \subseteq CellType, NEW s \in Lanes \cup Donors,
           NEW n \in 0..(MaxTokens - 1), NEW w \in Words,
           NEW l, l = Decoded(k, s, n, w)
    PROVE  /\ l \subseteq CellType
           /\ KeepsOthers(k, l, s)
           /\ Context(k, s, n) => Context(l, s, n + 1)
           /\ \A toks : Follows(k, s, toks) /\ (n < Len(toks) => toks[n + 1] = w)
                        => Follows(l, s, toks)
<1>1. PICK c : c = [pos |-> n, tok |-> w, seqs |-> {s}]
  OBVIOUS
<1>2. /\ c \in CellType /\ l = k \cup {c}
      /\ c.pos = n /\ c.tok = w /\ \A x : x \in c.seqs <=> x = s
  BY <1>1 DEF CellType, Decoded
<1>3. ASSUME NEW x, NEW m \in Nat, x # s, Context(k, x, m) PROVE Context(l, x, m)
  <2>1. \A e \in l : x \in e.seqs => e \in k
    BY <1>2, <1>3
  <2> QED BY <1>2, <1>3, <2>1 DEF Context
<1>4. ASSUME NEW x, NEW toks, x # s, Follows(k, x, toks) PROVE Follows(l, x, toks)
  <2>1. \A e \in l : x \in e.seqs => e \in k
    BY <1>2, <1>4
  <2> QED BY <1>4, <2>1 DEF Follows
<1>5. ASSUME Context(k, s, n) PROVE Context(l, s, n + 1)
  <2>n. n \in Nat
    BY ManagerAssumption
  <2>1. /\ \A e \in k : s \in e.seqs => e.pos \in 0..(n - 1)
        /\ \A p \in 0..(n - 1) : \E e \in k : s \in e.seqs /\ e.pos = p
        /\ \A b, e \in k : s \in b.seqs /\ s \in e.seqs /\ b.pos = e.pos => b = e
    BY <1>5 DEF Context
  <2>2. \A e \in l : s \in e.seqs => e.pos \in 0..n
    BY <2>n, <2>1, <1>2
  <2>3. ASSUME NEW p \in 0..n PROVE \E e \in l : s \in e.seqs /\ e.pos = p
    <3>1. CASE p = n
      BY <3>1, <1>2
    <3>2. CASE p # n
      <4>1. p \in 0..(n - 1)
        BY <3>2, <2>n
      <4>2. PICK e \in k : s \in e.seqs /\ e.pos = p
        BY <4>1, <2>1
      <4> QED BY <4>2, <1>2
    <3> QED BY <3>1, <3>2
  <2>4. \A e \in k : s \in e.seqs => e.pos # c.pos
    BY <2>n, <2>1, <1>2
  <2>5. \A b, e \in l : s \in b.seqs /\ s \in e.seqs /\ b.pos = e.pos => b = e
    BY <2>1, <2>4, <1>2
  <2>6. n + 1 - 1 = n
    BY <2>n
  <2> QED BY <2>2, <2>3, <2>5, <2>6 DEF Context
<1>6. ASSUME NEW toks, Follows(k, s, toks), n < Len(toks) => toks[n + 1] = w
      PROVE  Follows(l, s, toks)
  BY <1>2, <1>6 DEF Follows
<1>7. KeepsOthers(k, l, s)
  BY <1>3, <1>4 DEF KeepsOthers
<1> QED BY <1>2, <1>5, <1>6, <1>7

(* A context has as many cells as positions. *)
LEMMA ContextSize ==
    ASSUME NEW k, NEW s, NEW n \in Nat, Context(k, s, n)
    PROVE  Cardinality({c \in k : s \in c.seqs}) = n
<1> DEFINE T == {c \in k : s \in c.seqs}
           P == 0..(n - 1)
           f == [p \in P |-> CHOOSE c \in T : c.pos = p]
<1>1. /\ \A c \in T : c.pos \in P
      /\ \A p \in P : \E c \in T : c.pos = p
      /\ \A b, c \in T : b.pos = c.pos => b = c
  BY DEF Context
<1>2. IsFiniteSet(P) /\ Cardinality(P) = n
  <2>1. 0 \in Int /\ n - 1 \in Int
    OBVIOUS
  <2>2. Cardinality(P) = IF 0 > n - 1 THEN 0 ELSE n - 1 - 0 + 1
    BY <2>1, FS_Interval, Zenon
  <2>3. IsFiniteSet(P)
    BY <2>1, FS_Interval, Zenon
  <2> HIDE DEF P
  <2> QED BY <2>2, <2>3
<1> HIDE DEF T, P
<1>3. \A p \in P : f[p] \in T /\ f[p].pos = p
  BY <1>1
<1>4. f \in [P -> T]
  BY <1>3
<1>5. \A a, b \in P : f[a] = f[b] => a = b
  BY <1>3
<1>6. \A c \in T : \E p \in P : f[p] = c
  BY <1>1, <1>3
<1> HIDE DEF f
<1>7. Cardinality(T) = Cardinality(P)
  BY <1>2, <1>4, <1>5, <1>6, Renaming
<1> QED BY <1>2, <1>7 DEF T

LEMMA NoneHeld ==
    ASSUME NEW k, NEW s, Context(k, s, 0)
    PROVE  {c \in k : s \in c.seqs} = {}
<1>1. ASSUME NEW c \in k, s \in c.seqs PROVE FALSE
  BY <1>1 DEF Context
<1> QED BY <1>1

LEMMA RequestFacts ==
    ASSUME NEW r, IsRequest(r)
    PROVE  /\ r # Vacant
           /\ r.toks \in Seq(Words) /\ Len(r.toks) \in 1..MaxTokens
           /\ r.prompt \in 1..Len(r.toks) /\ r.cached \in 0..r.prompt
           /\ r.computed \in 0..(Len(r.toks) - 1)
<1>1. /\ r.toks \in Seq(Words) /\ r.prompt \in Nat /\ r.cached \in Nat /\ r.computed \in Nat
      /\ Len(r.toks) <= MaxTokens /\ r.cached <= r.prompt /\ r.computed < Len(r.toks)
      /\ r.prompt \in 1..Len(r.toks)
  BY DEF IsRequest
<1>2. Len(r.toks) \in Nat
  BY <1>1, LenProperties
<1>3. r # Vacant
  <2>1. Vacant.toks = << >> /\ Len(<< >>) = 0
    BY EmptySeq DEF Vacant
  <2> QED BY <1>1, <1>2, <2>1
<1> QED BY <1>1, <1>2, <1>3, ManagerAssumption

LEMMA Refreshed ==
    ASSUME DonorsOK, NEW d \in DOMAIN entries
    PROVE  /\ Fresh(d) \in Seq(Donors) /\ IsInjective(Fresh(d))
           /\ ToSet(Fresh(d)) = ToSet(recency)
<1> DEFINE rest == RemoveFirst(recency, d)
<1>1. recency \in Seq(Donors) /\ IsInjective(recency) /\ d \in ToSet(recency)
  BY DEF DonorsOK
<1>2. /\ rest \in Seq(Donors) /\ IsInjective(rest)
      /\ ToSet(rest) = ToSet(recency) \ {d}
  BY <1>1, RemoveFirstProperties
<1>3. d \in Donors
  BY DEF DonorsOK
<1> HIDE DEF rest
<1>4. Append(rest, d) \in Seq(Donors)
  BY <1>2, <1>3, AppendProperties
<1>5. ToSet(Append(rest, d)) = ToSet(rest) \cup {d} /\ IsInjective(Append(rest, d))
  BY <1>2, <1>3, AppendElements
<1>6. ToSet(rest) \cup {d} = ToSet(recency)
  BY <1>1, <1>2
<1>7. Fresh(d) = Append(rest, d)
  BY DEF Fresh, rest
<1> QED BY <1>4, <1>5, <1>6, <1>7

(* A request that is admitted is given cells of its own tokens, or none. *)
LEMMA Admission ==
    ASSUME IInv, NEW s \in Lanes, NEW r, IsRequest(r), r.computed = 0, OnAdmit(s, r)
    PROVE  /\ kv' \subseteq CellType /\ KeepsOthers(kv, kv', s)
           /\ recency' \in Seq(Donors) /\ IsInjective(recency')
           /\ ToSet(recency') = ToSet(recency)
           /\ \E q : /\ IsRequest(q) /\ lane' = [lane EXCEPT ![s] = q]
                     /\ EntriesExact =>
                            Context(kv', s, q.computed) /\ Follows(kv', s, q.toks)
<1>1. /\ kv \subseteq CellType /\ EntriesOK /\ DonorsOK
      /\ recency \in Seq(Donors) /\ IsInjective(recency)
  BY DEF IInv, CellsOK, DonorsOK
<1>2. ASSUME kv' = Without(kv, s), lane' = [lane EXCEPT ![s] = r]
      PROVE  /\ kv' \subseteq CellType /\ KeepsOthers(kv, kv', s)
             /\ \E q : /\ IsRequest(q) /\ lane' = [lane EXCEPT ![s] = q]
                       /\ EntriesExact =>
                              Context(kv', s, q.computed) /\ Follows(kv', s, q.toks)
  <2>1. /\ kv' \subseteq CellType /\ KeepsOthers(kv, kv', s) /\ Context(kv', s, 0)
    BY <1>1, <1>2, WithoutCells DEF KeepsOthers
  <2>2. Follows(kv', s, r.toks)
    BY <2>1 DEF Context, Follows
  <2> QED BY <1>2, <2>1, <2>2
<1>3. CASE /\ kv' = Without(kv, s)
           /\ lane' = [lane EXCEPT ![s] = r]
           /\ UNCHANGED recency
  BY <1>1, <1>2, <1>3
<1>4. ASSUME NEW d \in LongestMatch(r.toks), NEW n, n = Reusable(d, r.toks), n > 0,
             recency' = Fresh(d),
             IF Shares(d, n)
             THEN /\ kv' = PrefixShared(kv, d, s, n)
                  /\ lane' = [lane EXCEPT ![s] =
                       [r EXCEPT !.computed = n, !.cached = Min({n, r.prompt})]]
             ELSE /\ kv' = Without(kv, s)
                  /\ lane' = [lane EXCEPT ![s] = r]
      PROVE  /\ kv' \subseteq CellType /\ KeepsOthers(kv, kv', s)
             /\ recency' \in Seq(Donors) /\ IsInjective(recency')
             /\ ToSet(recency') = ToSet(recency)
             /\ \E q : /\ IsRequest(q) /\ lane' = [lane EXCEPT ![s] = q]
                       /\ EntriesExact =>
                              Context(kv', s, q.computed) /\ Follows(kv', s, q.toks)
  <2>1. r.toks \in Seq(Words) /\ r.prompt \in 1..Len(r.toks) /\ r.prompt \in Nat
        /\ Len(r.toks) \in Nat
    BY RequestFacts, LenProperties DEF IsRequest
  <2>2. /\ d \in DOMAIN entries /\ n \in Nat /\ n < Len(r.toks) /\ n <= Len(entries[d])
        /\ \A i \in 1..n : entries[d][i] = r.toks[i]
    BY <1>1, <1>4, <2>1, ReusedTokens
  <2>3. /\ recency' \in Seq(Donors) /\ IsInjective(recency')
        /\ ToSet(recency') = ToSet(recency)
    BY <1>1, <1>4, <2>2, Refreshed
  <2>4. CASE ~ Shares(d, n)
    BY <1>2, <1>4, <2>3, <2>4
  <2>5. CASE Shares(d, n)
    <3> DEFINE c == Min({n, r.prompt})
               q == [r EXCEPT !.computed = n, !.cached = c]
    <3>1. kv' = PrefixShared(kv, d, s, n) /\ lane' = [lane EXCEPT ![s] = q]
      BY <1>4, <2>5
    <3>2. d # s /\ s \in Lanes \cup Donors
      BY <1>1, <2>2, ManagerAssumption DEF EntriesOK
    <3>3. c \in Nat /\ c <= r.prompt
      <4>1. \E x \in {n, r.prompt} : \A y \in {n, r.prompt} : x <= y
        BY <2>1, <2>2
      <4> QED BY <4>1, <2>1, <2>2 DEF Min
    <3> HIDE DEF c
    <3>4. IsRequest(q) /\ q.computed = n /\ q.toks = r.toks
      <4>1. r \in [toks : Seq(Words), prompt : Nat, computed : Nat, cached : Nat]
            /\ Len(r.toks) <= MaxTokens /\ r.prompt \in 1..Len(r.toks)
        BY DEF IsRequest
      <4> QED BY <4>1, <3>3, <2>2 DEF IsRequest
    <3> HIDE DEF q
    <3>5. /\ kv' \subseteq CellType
          /\ KeepsOthers(kv, kv', s)
          /\ \A m \in Nat : n <= m /\ Context(kv, d, m) => Context(kv', s, n)
          /\ \A toks : Follows(kv, d, toks) => Follows(kv', s, toks)
      <4>1. PICK l : l = PrefixShared(kv, d, s, n)
        OBVIOUS
      <4>2. /\ kv \subseteq CellType /\ s \in Lanes \cup Donors /\ d # s /\ n \in Nat
        BY <1>1, <2>2, <3>2
      <4>3. /\ l \subseteq CellType
            /\ KeepsOthers(kv, l, s)
            /\ \A m \in Nat : n <= m /\ Context(kv, d, m) => Context(l, s, n)
            /\ \A toks : Follows(kv, d, toks) => Follows(l, s, toks)
        BY <4>1, <4>2, SharedCellsOfPrefix
      <4> QED BY <3>1, <4>1, <4>3
    <3>6. ASSUME EntriesExact PROVE Context(kv', s, n) /\ Follows(kv', s, r.toks)
      <4>1. Context(kv, d, Len(entries[d])) /\ Follows(kv, d, entries[d])
            /\ Len(entries[d]) \in Nat
        BY <1>1, <2>2, <3>6, LenProperties DEF EntriesExact, EntriesOK
      <4>2. Context(kv', s, n) /\ Follows(kv', s, entries[d])
        BY <2>2, <3>5, <4>1
      <4>3. Follows(kv', s, r.toks)
        <5> SUFFICES ASSUME NEW e \in kv', s \in e.seqs PROVE e.tok = r.toks[e.pos + 1]
          BY DEF Follows
        <5>1. e.pos \in 0..(n - 1)
          BY <4>2 DEF Context
        <5>2. e.pos + 1 \in 1..n /\ e.pos < Len(entries[d])
          BY <2>2, <4>1, <5>1
        <5>3. e.tok = entries[d][e.pos + 1]
          BY <4>2, <5>2 DEF Follows
        <5> QED BY <2>2, <5>2, <5>3
      <4> QED BY <4>2, <4>3
    <3> QED BY <2>3, <3>1, <3>4, <3>5, <3>6 DEF KeepsOthers
  <2> QED BY <2>4, <2>5
<1>5. CASE \E d \in LongestMatch(r.toks) :
              LET n == Reusable(d, r.toks) IN
              /\ n > 0
              /\ recency' = Fresh(d)
              /\ IF Shares(d, n)
                 THEN /\ kv' = PrefixShared(kv, d, s, n)
                      /\ lane' = [lane EXCEPT ![s] =
                           [r EXCEPT !.computed = n, !.cached = Min({n, r.prompt})]]
                 ELSE /\ kv' = Without(kv, s)
                      /\ lane' = [lane EXCEPT ![s] = r]
  BY <1>4, <1>5
<1> QED BY <1>3, <1>5 DEF OnAdmit
-----------------------------------------------------------------------------
(* The parts of the invariants that most steps leave alone. *)

LEMMA Unaltered ==
    ASSUME NEW k, NEW s
    PROVE  KeepsOthers(k, k, s)
  BY DEF KeepsOthers

LEMMA LanesKept ==
    ASSUME LanesOK, NEW s \in Lanes, NEW q, q = Vacant \/ IsRequest(q),
           lane' = [lane EXCEPT ![s] = q]
    PROVE  /\ LanesOK'
           /\ lane'[s] = q /\ \A x \in Lanes \ {s} : lane'[x] = lane[x]
<1>1. /\ lane = [x \in Lanes |-> lane[x]]
      /\ \A x \in Lanes : lane[x] # Vacant => IsRequest(lane[x])
  BY DEF LanesOK
<1>2. /\ lane'[s] = q /\ \A x \in Lanes \ {s} : lane'[x] = lane[x]
      /\ lane' = [x \in Lanes |-> lane'[x]]
  BY <1>1
<1>3. \A x \in Lanes : lane'[x] # Vacant => IsRequest(lane'[x])
  BY <1>1, <1>2
<1> QED BY <1>2, <1>3 DEF LanesOK, IsRequest, Vacant

LEMMA LanesStep ==
    ASSUME LanesOK, LanesExact, NEW s \in Lanes, NEW q, KeepsOthers(kv, kv', s),
           lane' = [lane EXCEPT ![s] = q],
           \/ q = Vacant
           \/ IsRequest(q) /\ Context(kv', s, q.computed) /\ Follows(kv', s, q.toks)
    PROVE  LanesExact'
<1>1. lane'[s] = q /\ \A x \in Lanes \ {s} : lane'[x] = lane[x]
  BY LanesKept
<1>2. ASSUME NEW x \in Lanes, lane'[x] # Vacant
      PROVE  Context(kv', x, lane'[x].computed) /\ Follows(kv', x, lane'[x].toks)
  <2>1. CASE x = s
    BY <1>1, <1>2, <2>1
  <2>2. CASE x # s
    <3>1. lane'[x] = lane[x] /\ lane[x].computed \in Nat
      BY <1>1, <1>2, <2>2 DEF LanesOK, IsRequest
    <3>2. Context(kv, x, lane[x].computed) /\ Follows(kv, x, lane[x].toks)
      BY <1>2, <3>1 DEF LanesExact
    <3> QED BY <2>2, <3>1, <3>2 DEF KeepsOthers
  <2> QED BY <2>1, <2>2
<1>3. \A x \in Lanes : lane'[x] # Vacant =>
          Context(kv', x, lane'[x].computed) /\ Follows(kv', x, lane'[x].toks)
  BY <1>2
<1> QED BY <1>3 DEF LanesExact, Vacant, Context, Follows

LEMMA EntriesStep ==
    ASSUME EntriesOK, EntriesExact, NEW s, KeepsOthers(kv, kv', s),
           \A d \in DOMAIN entries' : d # s /\ d \in DOMAIN entries /\ entries'[d] = entries[d]
    PROVE  EntriesExact'
<1>1. ASSUME NEW d \in DOMAIN entries'
      PROVE  Context(kv', d, Len(entries'[d])) /\ Follows(kv', d, entries'[d])
  <2>1. d # s /\ d \in DOMAIN entries /\ entries'[d] = entries[d]
    OBVIOUS
  <2>2. Len(entries[d]) \in Nat
    BY <2>1, LenProperties DEF EntriesOK
  <2>3. Context(kv, d, Len(entries[d])) /\ Follows(kv, d, entries[d])
    BY <2>1 DEF EntriesExact
  <2> QED BY <2>1, <2>2, <2>3 DEF KeepsOthers
<1>2. \A d \in DOMAIN entries' :
          Context(kv', d, Len(entries'[d])) /\ Follows(kv', d, entries'[d])
  BY <1>1
<1> QED BY <1>2 DEF EntriesExact, Context, Follows

LEMMA PinnedStep ==
    ASSUME NothingPinned, NEW s, KeepsOthers(kv, kv', s),
           \A d \in Donors \ DOMAIN entries' : d # s /\ d \notin DOMAIN entries
    PROVE  NothingPinned'
<1>1. ASSUME NEW d \in Donors \ DOMAIN entries' PROVE Context(kv', d, 0)
  <2>1. Context(kv, d, 0) /\ 0 \in Nat /\ d # s
    BY DEF NothingPinned
  <2> QED BY <2>1 DEF KeepsOthers
<1> QED BY <1>1 DEF NothingPinned, Context

LEMMA DonorsKept ==
    ASSUME DonorsOK, UNCHANGED <<entries, freeDonors, tables>>, InJob' = InJob,
           recency' \in Seq(Donors), IsInjective(recency'),
           ToSet(recency') = ToSet(recency)
    PROVE  DonorsOK'
  BY DEF DonorsOK

LEMMA EntriesKept ==
    ASSUME EntriesOK, UNCHANGED entries
    PROVE  EntriesOK'
  BY DEF EntriesOK

LEMMA NotPublishing ==
    ASSUME job = NoJob
    PROVE  InJob = {}
  BY DEF InJob, NoJob

LEMMA LanesAreNoDonors ==
    ASSUME EntriesOK, NEW s \in Lanes
    PROVE  s \notin Donors /\ s \notin DOMAIN entries
  BY ManagerAssumption DEF EntriesOK

(* Admit and Resume *)
LEMMA AdmissionStep ==
    ASSUME IInv, NEW s \in Lanes, NEW r, IsRequest(r), r.computed = 0, Idle,
           OnAdmit(s, r), \A q \in paused' : q \in paused,
           UNCHANGED <<poolVars, entries, freeDonors, job>>
    PROVE  IInv' /\ (CInv => CInv')
<1>1. PICK q : /\ kv' \subseteq CellType /\ KeepsOthers(kv, kv', s)
               /\ recency' \in Seq(Donors) /\ IsInjective(recency')
               /\ ToSet(recency') = ToSet(recency)
               /\ IsRequest(q) /\ lane' = [lane EXCEPT ![s] = q]
               /\ EntriesExact => Context(kv', s, q.computed) /\ Follows(kv', s, q.toks)
  BY Admission
<1>2. job = NoJob /\ job' = NoJob /\ call' = Pool!NoCall
  BY DEF Idle, Pool!Idle, poolVars
<1>3. LanesOK'
  BY <1>1, LanesKept DEF IInv
<1>4. PausedOK'
  BY DEF IInv, PausedOK, IsRequest
<1>5. CellsOK' /\ EntriesOK'
  BY <1>1, EntriesKept DEF IInv, CellsOK, CellType
<1>6. JobOK'
  BY <1>2 DEF JobOK
<1>7. DonorsOK'
  <2>1. InJob' = InJob
    BY <1>2 DEF InJob
  <2> QED BY <1>1, <2>1, DonorsKept DEF IInv, poolVars
<1>8. NothingPinned'
  <2>1. \A d \in Donors \ DOMAIN entries' : d # s /\ d \notin DOMAIN entries
    BY LanesAreNoDonors DEF IInv
  <2> QED BY <1>1, <2>1, PinnedStep DEF IInv
<1>9. ASSUME CInv PROVE CInv'
  <2>1. LanesExact'
    BY <1>1, <1>9, LanesStep DEF IInv, CInv
  <2>2. \A d \in DOMAIN entries' : d # s /\ d \in DOMAIN entries /\ entries'[d] = entries[d]
    BY LanesAreNoDonors DEF IInv
  <2>3. EntriesExact'
    BY <1>1, <1>9, <2>2, EntriesStep DEF IInv, CInv
  <2>4. JobExact'
    BY <1>2 DEF JobExact
  <2> QED BY <2>1, <2>3, <2>4 DEF CInv
<1> QED BY <1>3, <1>4, <1>5, <1>6, <1>7, <1>8, <1>9 DEF IInv

(* A request leaves its slot, and its first tokens are to be published. *)
LEMMA Retirement ==
    ASSUME IInv, NEW s \in Lanes, lane[s] # Vacant, job = NoJob,
           NEW toks \in Seq(Words), Len(toks) <= Len(lane[s].toks),
           \A i \in 1..Len(toks) : toks[i] = lane[s].toks[i],
           Retire(s, toks), UNCHANGED call
    PROVE  /\ LanesOK' /\ JobOK' /\ InJob' = {} /\ lane' = [lane EXCEPT ![s] = Vacant]
           /\ job' # NoJob /\ job'.seq = s
           /\ Len(job'.toks) \in Nat /\ Len(job'.toks) <= Len(lane[s].toks)
           /\ \A i \in 1..Len(job'.toks) : job'.toks[i] = lane[s].toks[i]
<1> DEFINE t == Pool!UpToBlock(toks, Blockwise(toks))
           m == Min({Pool!WholeBlocks(lane[s].cached), Blockwise(toks)})
<1>1. lane' = [lane EXCEPT ![s] = Vacant]
      /\ job' = [at |-> "publish", seq |-> s, toks |-> t, limit |-> m]
  BY DEF Retire
<1>2. LanesOK' /\ lane'[s] = Vacant
  BY <1>1, LanesKept DEF IInv
<1>3. /\ lane[s].toks \in Seq(Words) /\ Len(lane[s].toks) \in 1..MaxTokens
      /\ lane[s].cached \in Nat
  BY RequestFacts DEF IInv, LanesOK, IsRequest
<1>4. /\ t \in Seq(Words) /\ Len(t) <= Len(toks) /\ Len(t) % BlockSize = 0
      /\ Blockwise(toks) \in Nat /\ Blockwise(t) = Blockwise(toks)
      /\ \A i \in 1..Len(t) : t[i] = toks[i]
  BY Aligned
<1>5. m \in Nat /\ m <= Blockwise(toks)
  <2>1. PICK v, w : v = Pool!WholeBlocks(lane[s].cached) /\ w = Blockwise(toks)
    OBVIOUS
  <2>2. v \in Nat /\ w \in Nat
    BY <1>3, <1>4, <2>1, Blocking
  <2>3. \E x \in {v, w} : \A y \in {v, w} : x <= y
    BY <2>2
  <2>4. Min({v, w}) \in Nat /\ Min({v, w}) <= w
    BY <2>2, <2>3 DEF Min
  <2> QED BY <2>1, <2>4
<1> HIDE DEF t, m
<1>6. /\ job'.at = "publish" /\ job'.seq = s /\ job'.toks = t /\ job'.limit = m
      /\ job' \in [at : {"publish"}, seq : Lanes, toks : Seq(Words), limit : Nat]
  BY <1>1, <1>4, <1>5
<1>7. job' # NoJob /\ InJob' = {}
  BY <1>6 DEF NoJob, InJob
<1>8. Len(t) \in Nat /\ Len(toks) \in Nat /\ MaxTokens \in Nat
  BY <1>4, LenProperties, ManagerAssumption
<1>9. Len(t) <= Len(lane[s].toks) /\ Len(t) <= MaxTokens
  BY <1>3, <1>4, <1>8
<1>10. \A i \in 1..Len(t) : t[i] = lane[s].toks[i]
  <2> TAKE i \in 1..Len(t)
  <2>1. i \in 1..Len(toks)
    BY <1>4, <1>8
  <2> QED BY <1>4, <2>1
<1>11. call' = Pool!NoCall
  BY DEF IInv, JobOK, Publishing, Sharing, NoJob
<1>12. JobOK'
  <2>1. job'.limit <= Blockwise(job'.toks)
    BY <1>4, <1>5, <1>6
  <2>2. Publishing'
    BY <1>6, <1>11, <2>1 DEF Publishing, Blockwise, Pool!WholeBlocks, Pool!NoCall
  <2>3. /\ lane'[job'.seq] = Vacant /\ Len(job'.toks) <= MaxTokens
        /\ Len(job'.toks) % BlockSize = 0
    BY <1>2, <1>4, <1>6, <1>9
  <2> QED BY <2>2, <2>3 DEF JobOK, Vacant
<1> QED BY <1>1, <1>2, <1>6, <1>7, <1>8, <1>9, <1>10, <1>12

LEMMA RetirementStep ==
    ASSUME IInv, NEW s \in Lanes, lane[s] # Vacant, job = NoJob,
           NEW toks \in Seq(Words), Len(toks) <= Len(lane[s].toks),
           \A i \in 1..Len(toks) : toks[i] = lane[s].toks[i],
           Retire(s, toks), UNCHANGED <<poolVars, managerVars>>, PausedOK',
           kv' \subseteq CellType, KeepsOthers(kv, kv', s),
           CInv => \E n \in 0..MaxTokens :
                       Context(kv', s, n) /\ Follows(kv', s, lane[s].toks)
    PROVE  IInv' /\ (CInv => CInv')
<1>1. /\ LanesOK' /\ JobOK' /\ InJob' = {} /\ lane' = [lane EXCEPT ![s] = Vacant]
      /\ job' # NoJob /\ job'.seq = s
      /\ Len(job'.toks) \in Nat /\ Len(job'.toks) <= Len(lane[s].toks)
      /\ \A i \in 1..Len(job'.toks) : job'.toks[i] = lane[s].toks[i]
  <2>1. UNCHANGED call
    BY DEF poolVars
  <2> QED BY <2>1, Retirement
<1>2. CellsOK' /\ EntriesOK'
  BY EntriesKept DEF IInv, CellsOK, CellType, managerVars
<1>3. DonorsOK'
  <2>1. InJob' = InJob
    BY <1>1, NotPublishing
  <2> QED BY <2>1 DEF IInv, DonorsOK, managerVars, poolVars
<1>4. NothingPinned'
  <2>1. \A d \in Donors \ DOMAIN entries' : d # s /\ d \notin DOMAIN entries
    BY LanesAreNoDonors DEF IInv, managerVars
  <2> QED BY <2>1, PinnedStep DEF IInv
<1>5. ASSUME CInv PROVE CInv'
  <2>1. LanesExact'
    BY <1>1, <1>5, LanesStep DEF IInv, CInv
  <2>2. \A d \in DOMAIN entries' : d # s /\ d \in DOMAIN entries /\ entries'[d] = entries[d]
    BY LanesAreNoDonors DEF IInv, managerVars
  <2>3. EntriesExact'
    BY <1>5, <2>2, EntriesStep DEF IInv, CInv
  <2>4. JobExact'
    <3>1. PICK n \in 0..MaxTokens : Context(kv', s, n) /\ Follows(kv', s, lane[s].toks)
      BY <1>5
    <3>2. Follows(kv', s, job'.toks)
      <4> SUFFICES ASSUME NEW c \in kv', s \in c.seqs, c.pos < Len(job'.toks)
                   PROVE  c.tok = job'.toks[c.pos + 1]
        BY DEF Follows
      <4>1. c.pos \in Nat
        BY <3>1, ManagerAssumption DEF Context
      <4>2. Len(lane[s].toks) \in Nat
        BY LenProperties DEF IInv, LanesOK, IsRequest
      <4>3. c.pos + 1 \in 1..Len(job'.toks) /\ c.pos < Len(lane[s].toks)
        BY <1>1, <4>1, <4>2
      <4> QED BY <1>1, <3>1, <4>3 DEF Follows
    <3>3. \E i \in 0..MaxTokens : Context(kv', job'.seq, i)
      BY <1>1, <3>1
    <3>4. Follows(kv', job'.seq, job'.toks)
      BY <1>1, <3>2
    <3> QED BY <3>3, <3>4 DEF JobExact, Context, Follows
  <2> QED BY <2>1, <2>3, <2>4 DEF CInv
<1> QED BY <1>1, <1>2, <1>3, <1>4, <1>5 DEF IInv

(* What is published when a request ends. *)
LEMMA PromptOf ==
    ASSUME NEW s, IsRequest(lane[s])
    PROVE  /\ Prompt(s) \in Seq(Words) /\ Len(Prompt(s)) <= Len(lane[s].toks)
           /\ \A i \in 1..Len(Prompt(s)) : Prompt(s)[i] = lane[s].toks[i]
<1>1. /\ lane[s].toks \in Seq(Words) /\ Len(lane[s].toks) \in Nat
      /\ lane[s].prompt \in 0..Len(lane[s].toks)
  BY RequestFacts, ManagerAssumption
<1>2. /\ Prompt(s) \in Seq(Words) /\ Len(Prompt(s)) = lane[s].prompt
      /\ \A i \in 1..lane[s].prompt : Prompt(s)[i] = lane[s].toks[i]
  BY <1>1, FirstTokens DEF Prompt
<1> QED BY <1>1, <1>2

LEMMA FailStep ==
    ASSUME IInv, NEW s \in Lanes, Fail(s)
    PROVE  IInv' /\ (CInv => CInv')
<1>1. /\ job = NoJob /\ lane[s] # Vacant /\ Retire(s, Prompt(s))
      /\ UNCHANGED <<poolVars, managerVars, kv, paused>>
  BY DEF Fail, Idle
<1>2. IsRequest(lane[s])
  BY <1>1 DEF IInv, LanesOK
<1>3. /\ Prompt(s) \in Seq(Words) /\ Len(Prompt(s)) <= Len(lane[s].toks)
      /\ \A i \in 1..Len(Prompt(s)) : Prompt(s)[i] = lane[s].toks[i]
  BY <1>2, PromptOf
<1>4. PausedOK' /\ kv' \subseteq CellType /\ KeepsOthers(kv, kv', s)
  BY <1>1, Unaltered DEF IInv, PausedOK, IsRequest, CellsOK
<1>5. ASSUME CInv
      PROVE  \E n \in 0..MaxTokens : Context(kv', s, n) /\ Follows(kv', s, lane[s].toks)
  <2>1. lane[s].computed \in 0..MaxTokens
    BY <1>2, RequestFacts, ManagerAssumption
  <2>2. Context(kv', s, lane[s].computed) /\ Follows(kv', s, lane[s].toks)
    BY <1>1, <1>5 DEF CInv, LanesExact
  <2> QED BY <2>1, <2>2
<1> QED BY <1>1, <1>3, <1>4, <1>5, RetirementStep

LEMMA PreemptStep ==
    ASSUME IInv, NEW s \in Lanes, Preempt(s)
    PROVE  IInv' /\ (CInv => CInv')
<1>1. /\ job = NoJob /\ lane[s] # Vacant /\ Retire(s, lane[s].toks)
      /\ paused' = paused \cup {[lane[s] EXCEPT !.computed = 0]}
      /\ UNCHANGED <<poolVars, managerVars, kv>>
  BY DEF Preempt, Idle
<1>2. IsRequest(lane[s])
  BY <1>1 DEF IInv, LanesOK
<1>3. lane[s].toks \in Seq(Words) /\ Len(lane[s].toks) \in Nat
  BY <1>2, LenProperties DEF IsRequest
<1>4. Len(lane[s].toks) <= Len(lane[s].toks)
  BY <1>3
<1>5. PausedOK'
  <2>1. PICK q : q = [lane[s] EXCEPT !.computed = 0]
    OBVIOUS
  <2>2. IsRequest(q) /\ q.computed = 0
    <3>1. lane[s].prompt \in 1..Len(lane[s].toks)
      BY <1>2 DEF IsRequest
    <3>2. 0 < Len(lane[s].toks)
      BY <1>3, <3>1
    <3> QED BY <1>2, <2>1, <3>2 DEF IsRequest
  <2>3. \A r \in paused' : IsRequest(r) /\ r.computed = 0
    BY <1>1, <2>1, <2>2 DEF IInv, PausedOK
  <2> QED BY <2>3 DEF PausedOK, IsRequest
<1>6. kv' \subseteq CellType /\ KeepsOthers(kv, kv', s)
  BY <1>1, Unaltered DEF IInv, CellsOK
<1>7. ASSUME CInv
      PROVE  \E n \in 0..MaxTokens : Context(kv', s, n) /\ Follows(kv', s, lane[s].toks)
  <2>1. lane[s].computed \in 0..MaxTokens
    BY <1>2, RequestFacts, ManagerAssumption
  <2>2. Context(kv', s, lane[s].computed) /\ Follows(kv', s, lane[s].toks)
    BY <1>1, <1>7 DEF CInv, LanesExact
  <2> QED BY <2>1, <2>2
<1> QED BY <1>1, <1>3, <1>4, <1>5, <1>6, <1>7, RetirementStep

LEMMA ComputeStep ==
    ASSUME IInv, NEW s \in Lanes, Compute(s)
    PROVE  IInv' /\ (CInv => CInv')
<1> DEFINE r == lane[s]
           n == r.computed + 1
<1>1. /\ job = NoJob /\ call = Pool!NoCall /\ r # Vacant
      /\ kv' = Decoded(kv, s, r.computed, r.toks[n])
      /\ UNCHANGED <<poolVars, managerVars, paused>>
  BY DEF Compute, Idle, Pool!Idle
<1>2. IsRequest(r)
  BY <1>1 DEF IInv, LanesOK
<1>3. /\ r.toks \in Seq(Words) /\ Len(r.toks) \in 1..MaxTokens
      /\ r.computed \in 0..(Len(r.toks) - 1) /\ n \in 1..Len(r.toks) /\ r.computed \in Nat
      /\ Len(r.toks) \in Nat /\ MaxTokens \in Nat
  <2>1. /\ r.toks \in Seq(Words) /\ Len(r.toks) \in 1..MaxTokens
        /\ r.computed \in 0..(Len(r.toks) - 1)
    BY <1>2, RequestFacts
  <2>2. Len(r.toks) \in Nat /\ MaxTokens \in Nat
    BY <2>1, LenProperties, ManagerAssumption
  <2> QED BY <2>1, <2>2
<1>4. /\ kv' \subseteq CellType /\ KeepsOthers(kv, kv', s)
      /\ Context(kv, s, r.computed) => Context(kv', s, n)
      /\ Follows(kv, s, r.toks) => Follows(kv', s, r.toks)
  <2>1. /\ kv \subseteq CellType /\ s \in Lanes \cup Donors
        /\ r.computed \in 0..(MaxTokens - 1) /\ r.toks[n] \in Words
    BY <1>3, ElementOfSeq DEF IInv, CellsOK
  <2>2. PICK l, p, w : l = kv' /\ p = r.computed /\ w = r.toks[n]
    OBVIOUS
  <2>3. l = Decoded(kv, s, p, w) /\ p \in 0..(MaxTokens - 1) /\ w \in Words /\ n = p + 1
    BY <1>1, <2>1, <2>2
  <2>4. /\ l \subseteq CellType
        /\ KeepsOthers(kv, l, s)
        /\ Context(kv, s, p) => Context(l, s, p + 1)
        /\ \A toks : Follows(kv, s, toks) /\ (p < Len(toks) => toks[p + 1] = w)
                     => Follows(l, s, toks)
    BY <2>1, <2>3, DecodedCells
  <2> QED BY <2>2, <2>3, <2>4
<1>5. CInv => Context(kv', s, n) /\ Follows(kv', s, r.toks)
  BY <1>1, <1>4 DEF CInv, LanesExact
<1> HIDE DEF r, n
<1>6. ASSUME NEW q, IsRequest(q), lane' = [lane EXCEPT ![s] = q], UNCHANGED job,
             q.computed = n, CInv => Follows(kv', s, q.toks)
      PROVE  IInv' /\ (CInv => CInv')
  <2>1. LanesOK'
    BY <1>6, LanesKept DEF IInv
  <2>2. PausedOK' /\ CellsOK' /\ EntriesOK'
    BY <1>1, <1>4, EntriesKept DEF IInv, PausedOK, IsRequest, CellsOK, CellType, managerVars
  <2>3. JobOK'
    BY <1>1, <1>6 DEF JobOK, poolVars
  <2>4. DonorsOK'
    <3>1. InJob' = InJob
      BY <1>6 DEF InJob
    <3> QED BY <3>1, <1>1 DEF IInv, DonorsOK, managerVars, poolVars
  <2>5. NothingPinned'
    <3>1. \A d \in Donors \ DOMAIN entries' : d # s /\ d \notin DOMAIN entries
      BY <1>1, LanesAreNoDonors DEF IInv, managerVars
    <3> QED BY <1>4, <3>1, PinnedStep DEF IInv
  <2>6. ASSUME CInv PROVE CInv'
    <3>1. LanesExact'
      BY <1>4, <1>5, <1>6, <2>6, LanesStep DEF IInv, CInv
    <3>2. \A d \in DOMAIN entries' : d # s /\ d \in DOMAIN entries /\ entries'[d] = entries[d]
      BY <1>1, LanesAreNoDonors DEF IInv, managerVars
    <3>3. EntriesExact'
      BY <1>4, <2>6, <3>2, EntriesStep DEF IInv, CInv
    <3>4. JobExact'
      BY <1>1, <1>6 DEF JobExact
    <3> QED BY <3>1, <3>3, <3>4 DEF CInv
  <2> QED BY <2>1, <2>2, <2>3, <2>4, <2>5, <2>6 DEF IInv
<1>7. CASE n < Len(r.toks) /\ lane' = [lane EXCEPT ![s].computed = n] /\ UNCHANGED job
  <2> DEFINE q == [r EXCEPT !.computed = n]
  <2>1. lane' = [lane EXCEPT ![s] = q]
    BY <1>7 DEF r
  <2>2. IsRequest(q) /\ q.computed = n /\ q.toks = r.toks
    BY <1>2, <1>3, <1>7 DEF IsRequest
  <2> HIDE DEF q
  <2> QED BY <1>5, <1>6, <1>7, <2>1, <2>2
<1>8. CASE /\ n = Len(r.toks) /\ n < MaxTokens
           /\ \E w \in Words : lane' = [lane EXCEPT ![s] =
                  [r EXCEPT !.computed = n, !.toks = Append(@, w)]]
           /\ UNCHANGED job
  <2>1. PICK w \in Words : lane' = [lane EXCEPT ![s] =
                               [r EXCEPT !.computed = n, !.toks = Append(@, w)]]
    BY <1>8
  <2> DEFINE t == Append(r.toks, w)
             q == [r EXCEPT !.computed = n, !.toks = t]
  <2>2. lane' = [lane EXCEPT ![s] = q]
    BY <2>1
  <2>3. /\ t \in Seq(Words) /\ Len(t) = Len(r.toks) + 1
        /\ \A i \in 1..Len(r.toks) : t[i] = r.toks[i]
    BY <1>3, AppendProperties
  <2> HIDE DEF t
  <2>4. IsRequest(q) /\ q.computed = n /\ q.toks = t
    <3>1. Len(t) <= MaxTokens /\ n < Len(t) /\ n \in Nat
      BY <1>3, <1>8, <2>3
    <3>2. r.prompt \in 1..Len(t)
      BY <1>2, <1>3, <2>3 DEF IsRequest
    <3> QED BY <1>2, <2>3, <3>1, <3>2 DEF IsRequest
  <2>5. ASSUME CInv PROVE Follows(kv', s, t)
    <3> SUFFICES ASSUME NEW c \in kv', s \in c.seqs PROVE c.tok = t[c.pos + 1]
      BY DEF Follows
    <3>1. c.pos \in 0..(n - 1)
      BY <1>5, <2>5 DEF Context
    <3>2. c.pos < Len(r.toks) /\ c.pos + 1 \in 1..Len(r.toks)
      BY <1>3, <1>8, <3>1
    <3> QED BY <1>5, <2>3, <2>5, <3>2 DEF Follows
  <2> HIDE DEF q
  <2> QED BY <1>6, <1>8, <2>2, <2>4, <2>5
<1>9. CASE n = Len(r.toks) /\ Retire(s, Prompt(s))
  <2>1. /\ Prompt(s) \in Seq(Words) /\ Len(Prompt(s)) <= Len(lane[s].toks)
        /\ \A i \in 1..Len(Prompt(s)) : Prompt(s)[i] = lane[s].toks[i]
    BY <1>2, PromptOf DEF r
  <2>2. PausedOK'
    BY <1>1 DEF IInv, PausedOK, IsRequest
  <2>3. CInv => \E m \in 0..MaxTokens :
                    Context(kv', s, m) /\ Follows(kv', s, lane[s].toks)
    <3>1. n \in 0..MaxTokens
      BY <1>3
    <3> QED BY <3>1, <1>5 DEF r
  <2> QED BY <1>1, <1>4, <1>9, <2>1, <2>2, <2>3, RetirementStep DEF r
<1> QED BY <1>7, <1>8, <1>9 DEF Compute, r, n
-----------------------------------------------------------------------------
(* The retirement in progress. *)

LEMMA JobFacts ==
    ASSUME IInv
    PROVE  /\ job.at = "publish" => Publishing /\ InJob = {}
           /\ job.at = "share" => Sharing /\ InJob = {job.donor}
           /\ job.at \in {"publish", "share"} =>
                /\ job # NoJob /\ job.seq \in Lanes /\ job.toks \in Seq(Words)
                /\ Len(job.toks) \in 0..MaxTokens /\ Len(job.toks) \in Nat
                /\ lane[job.seq] = Vacant
<1>1. JobOK
  BY DEF IInv
<1>2. Publishing => job.at = "publish"
  BY DEF Publishing
<1>3. Sharing => job.at = "share"
  BY DEF Sharing
<1>4. job = NoJob => job.at = "none"
  BY DEF NoJob
<1>5. /\ job.at = "publish" => Publishing /\ InJob = {}
      /\ job.at = "share" => Sharing /\ InJob = {job.donor}
  BY <1>1, <1>2, <1>3, <1>4 DEF JobOK, InJob
<1>6. ASSUME job.at \in {"publish", "share"}
      PROVE  /\ job # NoJob /\ job.seq \in Lanes /\ job.toks \in Seq(Words)
             /\ Len(job.toks) \in 0..MaxTokens /\ Len(job.toks) \in Nat
             /\ lane[job.seq] = Vacant
  <2>1. job # NoJob
    BY <1>4, <1>6
  <2>2. job.seq \in Lanes /\ job.toks \in Seq(Words)
    BY <1>5, <1>6 DEF Publishing, Sharing
  <2>3. lane[job.seq] = Vacant /\ Len(job.toks) <= MaxTokens
    BY <1>1, <2>1 DEF JobOK
  <2>4. Len(job.toks) \in Nat
    BY <2>2, LenProperties
  <2> QED BY <2>1, <2>2, <2>3, <2>4, ManagerAssumption
<1> QED BY <1>5, <1>6

(* Where the cells of a sequence change that is in no slot that is in use. *)
LEMMA LanesAside ==
    ASSUME LanesOK, LanesExact, UNCHANGED lane, NEW s, KeepsOthers(kv, kv', s),
           \A x \in Lanes : lane[x] # Vacant => x # s
    PROVE  LanesExact'
<1>1. ASSUME NEW x \in Lanes, lane[x] # Vacant
      PROVE  Context(kv', x, lane[x].computed) /\ Follows(kv', x, lane[x].toks)
  <2>1. x # s /\ lane[x].computed \in Nat
    BY <1>1 DEF LanesOK, IsRequest
  <2>2. Context(kv, x, lane[x].computed) /\ Follows(kv, x, lane[x].toks)
    BY <1>1 DEF LanesExact
  <2> QED BY <2>1, <2>2 DEF KeepsOthers
<1> QED BY <1>1 DEF LanesExact, Context, Follows, Vacant

LEMMA EngineKept ==
    ASSUME LanesOK, PausedOK, UNCHANGED engineVars
    PROVE  LanesOK' /\ PausedOK'
  BY DEF LanesOK, PausedOK, engineVars, IsRequest, Vacant

(* The retirement ends without a new entry, and the slot is emptied. *)
LEMMA EndingStep ==
    ASSUME IInv, job.at \in {"publish", "share"}, EndJob(kv), call' = Pool!NoCall,
           UNCHANGED <<entries, engineVars>>, DonorsOK'
    PROVE  IInv' /\ (CInv => CInv')
<1> DEFINE s == job.seq
<1>1. s \in Lanes /\ lane[s] = Vacant
  BY JobFacts
<1>2. kv' = Without(kv, s) /\ job' = NoJob
  BY DEF EndJob
<1> HIDE DEF s
<1>3. kv' \subseteq CellType /\ KeepsOthers(kv, kv', s)
  BY <1>2, WithoutCells DEF IInv, CellsOK
<1>4. LanesOK' /\ PausedOK' /\ EntriesOK' /\ CellsOK'
  BY <1>3, EngineKept, EntriesKept DEF IInv, CellsOK, CellType
<1>5. JobOK'
  BY <1>2 DEF JobOK, Pool!NoCall, NoJob
<1>6. NothingPinned'
  <2>1. \A d \in Donors \ DOMAIN entries' : d # s /\ d \notin DOMAIN entries
    BY <1>1, LanesAreNoDonors DEF IInv
  <2> QED BY <1>3, <2>1, PinnedStep DEF IInv
<1>7. ASSUME CInv PROVE CInv'
  <2>1. LanesExact'
    BY <1>1, <1>3, <1>7, LanesAside DEF IInv, CInv, engineVars
  <2>2. \A d \in DOMAIN entries' : d # s /\ d \in DOMAIN entries /\ entries'[d] = entries[d]
    BY <1>1, LanesAreNoDonors DEF IInv
  <2>3. EntriesExact'
    BY <1>3, <1>7, <2>2, EntriesStep DEF IInv, CInv
  <2>4. JobExact'
    BY <1>2 DEF JobExact, NoJob
  <2> QED BY <2>1, <2>3, <2>4 DEF CInv
<1> QED BY <1>4, <1>5, <1>6, <1>7 DEF IInv

LEMMA SkipPublicationStep ==
    ASSUME IInv, SkipPublication
    PROVE  IInv' /\ (CInv => CInv')
<1>1. /\ job.at = "publish" /\ call = Pool!NoCall /\ EndJob(kv)
      /\ IF Exact = {} THEN UNCHANGED recency ELSE \E d \in Exact : recency' = Fresh(d)
      /\ UNCHANGED <<poolVars, entries, freeDonors, engineVars>>
  BY DEF SkipPublication, At, Pool!Idle
<1>2. /\ recency' \in Seq(Donors) /\ IsInjective(recency')
      /\ ToSet(recency') = ToSet(recency)
  <2>1. CASE Exact = {}
    BY <1>1, <2>1 DEF IInv, DonorsOK
  <2>2. CASE Exact # {}
    <3>1. PICK d \in DOMAIN entries : recency' = Fresh(d)
      BY <1>1, <2>2 DEF Exact
    <3> QED BY <3>1, Refreshed DEF IInv
  <2> QED BY <2>1, <2>2
<1>3. DonorsOK'
  <2>1. InJob = {}
    BY <1>1, JobFacts
  <2>2. InJob' = InJob
    BY <1>1, <2>1 DEF EndJob, InJob, NoJob
  <2> QED BY <1>1, <1>2, <2>2, DonorsKept DEF IInv, poolVars
<1>4. call' = Pool!NoCall
  BY <1>1 DEF poolVars, Pool!NoCall
<1> QED BY <1>1, <1>3, <1>4, EndingStep

LEMMA GiveUpStep ==
    ASSUME IInv, GiveUp
    PROVE  IInv' /\ (CInv => CInv')
<1>1. /\ job.at = "publish" /\ call = Pool!NoCall /\ EndJob(kv)
      /\ UNCHANGED <<poolVars, managerVars, engineVars>>
  BY DEF GiveUp, At, Pool!Idle
<1>2. DonorsOK'
  <2>1. InJob = {}
    BY <1>1, JobFacts
  <2>2. InJob' = InJob
    BY <1>1, <2>1 DEF EndJob, InJob, NoJob
  <2> QED BY <1>1, <2>2 DEF IInv, DonorsOK, managerVars, poolVars
<1>3. call' = Pool!NoCall /\ UNCHANGED <<entries, engineVars>>
  BY <1>1 DEF poolVars, managerVars, Pool!NoCall
<1> QED BY <1>1, <1>2, <1>3, EndingStep

LEMMA WithdrawStep ==
    ASSUME IInv, Withdraw
    PROVE  IInv' /\ (CInv => CInv')
<1> DEFINE d == job.donor
<1>1. /\ job.at = "share" /\ call = Pool!NoCall /\ EndJob(kv) /\ GivenBack
      /\ freeDonors' = Append(freeDonors, d)
      /\ UNCHANGED <<entries, recency, engineVars>>
  BY DEF Withdraw, At, Pool!Idle
<1>2. InJob = {d} /\ d \in Donors
  BY <1>1, JobFacts DEF Sharing
<1>3. InJob' = {}
  BY <1>1 DEF EndJob, InJob, NoJob
<1> HIDE DEF d
<1>4. call' = Pool!NoCall /\ DOMAIN tables' = DOMAIN tables \ {d}
  <2>1. CASE HasBlocks
    <3>1. Pool!FreeSeq(d)
      BY <1>1, <2>1 DEF GivenBack, d
    <3>2. tables' = Pool!Pop(tables, d) /\ UNCHANGED call
      BY <3>1 DEF Pool!FreeSeq, Pool!GiveUp
    <3> QED BY <1>1, <3>2 DEF Pool!Pop, Pool!NoCall
  <2>2. CASE ~ HasBlocks
    <3>1. UNCHANGED poolVars /\ d \notin DOMAIN tables
      BY <1>1, <2>2 DEF GivenBack, HasBlocks, d
    <3> QED BY <1>1, <3>1 DEF poolVars, Pool!NoCall
  <2> QED BY <2>1, <2>2
<1>5. DonorsOK'
  <2>1. DonorsOK
    BY DEF IInv
  <2>2. /\ freeDonors \in Seq(Donors) /\ IsInjective(freeDonors) /\ d \notin ToSet(freeDonors)
        /\ d \notin DOMAIN entries
    BY <1>2, <2>1 DEF DonorsOK
  <2>3. freeDonors' \in Seq(Donors)
    BY <1>1, <1>2, <2>2, AppendProperties
  <2>4. ToSet(freeDonors') = ToSet(freeDonors) \cup {d} /\ IsInjective(freeDonors')
    BY <1>1, <1>2, <2>2, AppendElements
  <2>5. /\ Donors = ToSet(freeDonors') \cup DOMAIN entries' \cup InJob'
        /\ DOMAIN entries' \cap (ToSet(freeDonors') \cup InJob') = {}
        /\ ToSet(freeDonors') \cap InJob' = {}
        /\ DOMAIN tables' \ InJob' = DOMAIN entries'
    BY <1>1, <1>2, <1>3, <1>4, <2>1, <2>2, <2>4 DEF DonorsOK
  <2>6. recency' \in Seq(Donors) /\ IsInjective(recency') /\ ToSet(recency') = DOMAIN entries'
    BY <1>1, <2>1 DEF DonorsOK
  <2> QED BY <2>3, <2>4, <2>5, <2>6 DEF DonorsOK
<1>6. UNCHANGED <<entries, engineVars>>
  BY <1>1
<1> QED BY <1>1, <1>4, <1>5, <1>6, EndingStep

LEMMA EvictEntryStep ==
    ASSUME IInv, EvictEntry
    PROVE  IInv' /\ (CInv => CInv')
<1> DEFINE d == Head(recency)
<1>1. /\ job.at = "publish" /\ recency # << >>
      /\ Pool!FreeSeq(d) /\ kv' = Without(kv, d) /\ entries' = Pool!Pop(entries, d)
      /\ freeDonors' = Append(freeDonors, d) /\ recency' = Tail(recency)
      /\ UNCHANGED <<engineVars, job>>
  BY DEF EvictEntry, At, DonorsAfterEviction
<1>2. tables' = Pool!Pop(tables, d) /\ call' = call
  BY <1>1 DEF Pool!FreeSeq, Pool!GiveUp
<1>3. DonorsOK /\ EntriesOK /\ recency \in Seq(Donors) /\ IsInjective(recency)
      /\ ToSet(recency) = DOMAIN entries
  BY DEF IInv, DonorsOK
<1>4. /\ d \in DOMAIN entries /\ d \in Donors
      /\ recency' \in Seq(Donors) /\ IsInjective(recency')
      /\ ToSet(recency') = DOMAIN entries \ {d}
  <2>1. d \in ToSet(recency) /\ ToSet(Tail(recency)) = ToSet(recency) \ {d}
        /\ IsInjective(Tail(recency))
    BY <1>1, <1>3, TailElements
  <2>2. Tail(recency) \in Seq(Donors)
    BY <1>1, <1>3, HeadTailProperties
  <2> QED BY <1>1, <1>3, <2>1, <2>2 DEF EntriesOK
<1> HIDE DEF d
<1>5. /\ DOMAIN entries' = DOMAIN entries \ {d}
      /\ \A x \in DOMAIN entries' : entries'[x] = entries[x]
      /\ DOMAIN tables' = DOMAIN tables \ {d}
  BY <1>1, <1>2 DEF Pool!Pop
<1>6. kv' \subseteq CellType /\ KeepsOthers(kv, kv', d) /\ Context(kv', d, 0)
  BY <1>1, WithoutCells DEF IInv, CellsOK
<1>7. job.seq \in Lanes /\ InJob = {} /\ InJob' = {} /\ job # NoJob /\ call = Pool!NoCall
  <2>1. job.seq \in Lanes /\ InJob = {} /\ job # NoJob /\ Publishing
    BY <1>1, JobFacts
  <2>2. InJob' = InJob
    BY <1>1 DEF InJob
  <2> QED BY <2>1, <2>2 DEF Publishing
<1>8. LanesOK' /\ PausedOK' /\ CellsOK'
  BY <1>1, <1>6, EngineKept DEF IInv, CellsOK, CellType
<1>9. EntriesOK'
  BY <1>3, <1>5 DEF EntriesOK
<1>10. JobOK'
  <2>1. Publishing
    BY <1>1, JobFacts
  <2>2. Publishing'
    BY <2>1, <1>1, <1>2 DEF Publishing, Blockwise, Pool!WholeBlocks, Pool!NoCall
  <2>3. lane' = lane /\ job' = job
    BY <1>1 DEF engineVars
  <2>4. lane[job.seq] = Vacant /\ Len(job.toks) <= MaxTokens /\ Len(job.toks) % BlockSize = 0
    BY <1>7 DEF IInv, JobOK
  <2> QED BY <2>2, <2>3, <2>4 DEF JobOK, Vacant
<1>11. DonorsOK'
  <2>1. /\ freeDonors \in Seq(Donors) /\ IsInjective(freeDonors) /\ d \notin ToSet(freeDonors)
    BY <1>3, <1>4 DEF DonorsOK
  <2>2. freeDonors' \in Seq(Donors)
    BY <1>1, <1>4, <2>1, AppendProperties
  <2>3. ToSet(freeDonors') = ToSet(freeDonors) \cup {d} /\ IsInjective(freeDonors')
    BY <1>1, <1>4, <2>1, AppendElements
  <2>4. /\ Donors = ToSet(freeDonors') \cup DOMAIN entries' \cup InJob'
        /\ DOMAIN entries' \cap (ToSet(freeDonors') \cup InJob') = {}
        /\ ToSet(freeDonors') \cap InJob' = {}
        /\ DOMAIN tables' \ InJob' = DOMAIN entries'
    BY <1>3, <1>4, <1>5, <1>7, <2>3 DEF DonorsOK
  <2>5. ToSet(recency') = DOMAIN entries'
    BY <1>4, <1>5
  <2> QED BY <1>4, <2>2, <2>3, <2>4, <2>5 DEF DonorsOK
<1>12. NothingPinned'
  <2>1. ASSUME NEW x \in Donors \ DOMAIN entries' PROVE Context(kv', x, 0)
    <3>1. CASE x = d
      BY <3>1, <1>6
    <3>2. CASE x # d
      <4>1. Context(kv, x, 0) /\ 0 \in Nat
        BY <3>2, <1>5 DEF IInv, NothingPinned
      <4> QED BY <3>2, <4>1, <1>6 DEF KeepsOthers
    <3> QED BY <3>1, <3>2
  <2> QED BY <2>1 DEF NothingPinned, Context
<1>13. ASSUME CInv PROVE CInv'
  <2>1. \A x \in Lanes : x # d
    BY <1>4, ManagerAssumption
  <2>2. LanesExact'
    BY <1>1, <1>6, <1>13, <2>1, LanesAside DEF IInv, CInv, engineVars
  <2>3. EntriesExact'
    BY <1>3, <1>5, <1>6, <1>13, EntriesStep DEF CInv
  <2>4. JobExact'
    <3>1. PICK n \in 0..MaxTokens : Context(kv, job.seq, n)
      BY <1>7, <1>13 DEF CInv, JobExact
    <3>2. Follows(kv, job.seq, job.toks) /\ n \in Nat /\ job.seq # d
      BY <1>7, <1>13, <2>1, ManagerAssumption DEF CInv, JobExact
    <3>3. Context(kv', job.seq, n) /\ Follows(kv', job.seq, job.toks)
      BY <1>6, <3>1, <3>2 DEF KeepsOthers
    <3>4. job' = job
      BY <1>1
    <3> QED BY <3>3, <3>4 DEF JobExact, Context, Follows
  <2> QED BY <2>2, <2>3, <2>4 DEF CInv
<1> QED BY <1>8, <1>9, <1>10, <1>11, <1>12, <1>13 DEF IInv

(* Where neither cells nor entries nor the engine change, and the job keeps
   its slot and its tokens. *)
LEMMA CellsUnchanged ==
    ASSUME CInv, UNCHANGED <<kv, entries, engineVars>>, job' = NoJob <=> job = NoJob,
           job # NoJob => job'.seq = job.seq /\ job'.toks = job.toks
    PROVE  CInv'
<1>1. LanesExact' /\ EntriesExact'
  BY DEF CInv, LanesExact, EntriesExact, engineVars, Context, Follows, Vacant
<1>2. JobExact'
  <2>1. CASE job = NoJob
    BY <2>1 DEF JobExact, NoJob
  <2>2. CASE job # NoJob
    <3>1. PICK n \in 0..MaxTokens : Context(kv, job.seq, n)
      BY <2>2 DEF CInv, JobExact
    <3>2. Follows(kv, job.seq, job.toks)
      BY <2>2 DEF CInv, JobExact
    <3> QED BY <2>2, <3>1, <3>2 DEF JobExact, Context, Follows
  <2> QED BY <2>1, <2>2
<1> QED BY <1>1, <1>2 DEF CInv

LEMMA ReserveStep ==
    ASSUME IInv, Reserve
    PROVE  IInv' /\ (CInv => CInv')
<1> DEFINE d == Head(freeDonors)
<1>1. /\ job.at = "publish" /\ freeDonors # << >> /\ job.toks # << >>
      /\ Pool!Allocate(d, job.toks, job.limit)
      /\ freeDonors' = Tail(freeDonors)
      /\ job' = [at |-> "share", seq |-> job.seq, toks |-> job.toks, donor |-> d]
      /\ UNCHANGED <<kv, entries, recency, engineVars>>
  BY DEF Reserve, At, Needless, HasRoom
<1>2. /\ tables' = Pool!Pop(tables, d)
      /\ call' = Pool!CallOf("share", d, d, job.toks, Len(job.toks), job.limit)
  BY <1>1 DEF Pool!Allocate, Pool!GiveUp
<1>3. /\ job.seq \in Lanes /\ job.toks \in Seq(Words) /\ InJob = {} /\ job # NoJob
      /\ lane[job.seq] = Vacant /\ Len(job.toks) <= MaxTokens
      /\ Len(job.toks) % BlockSize = 0
  BY <1>1, JobFacts DEF IInv, JobOK
<1>4. /\ freeDonors \in Seq(Donors) /\ IsInjective(freeDonors)
  BY DEF IInv, DonorsOK
<1>5. /\ d \in ToSet(freeDonors) /\ d \in Donors
      /\ freeDonors' \in Seq(Donors) /\ IsInjective(freeDonors')
      /\ ToSet(freeDonors') = ToSet(freeDonors) \ {d}
  <2>1. d \in ToSet(freeDonors) /\ ToSet(Tail(freeDonors)) = ToSet(freeDonors) \ {d}
        /\ IsInjective(Tail(freeDonors))
    BY <1>1, <1>4, TailElements
  <2>2. d \in Donors /\ Tail(freeDonors) \in Seq(Donors)
    BY <1>1, <1>4, HeadTailProperties
  <2> QED BY <1>1, <2>1, <2>2
<1> HIDE DEF d
<1>6. /\ job'.at = "share" /\ job'.seq = job.seq /\ job'.toks = job.toks /\ job'.donor = d
      /\ InJob' = {d} /\ job' # NoJob
      /\ job' \in [at : {"share"}, seq : Lanes, toks : Seq(Words), donor : Donors]
  BY <1>1, <1>3, <1>5 DEF InJob, NoJob
<1>7. DOMAIN tables' = DOMAIN tables \ {d}
  BY <1>2 DEF Pool!Pop
<1>8. LanesOK' /\ PausedOK' /\ EntriesOK' /\ CellsOK'
  BY <1>1, EngineKept, EntriesKept DEF IInv, CellsOK, CellType
<1>9. JobOK'
  <2>1. CallFor(job.donor, job.toks)'
    <3>1. /\ call'.op = "share" /\ call'.limit = job.limit
          /\ call' = Pool!CallOf(call'.op, d, d, job'.toks, Len(job'.toks), call'.limit)
      BY <1>2, <1>6 DEF Pool!CallOf
    <3>2. d \notin DOMAIN tables'
      BY <1>7
    <3> QED BY <1>6, <3>1, <3>2 DEF CallFor, Pool!CallOf
  <2>2. Sharing'
    BY <1>6, <2>1 DEF Sharing
  <2>3. lane' = lane
    BY <1>1 DEF engineVars
  <2> QED BY <1>3, <1>6, <2>2, <2>3 DEF JobOK, Vacant
<1>10. DonorsOK'
  <2>1. DonorsOK
    BY DEF IInv
  <2>2. /\ Donors = ToSet(freeDonors) \cup DOMAIN entries
        /\ DOMAIN entries \cap ToSet(freeDonors) = {}
        /\ DOMAIN tables = DOMAIN entries
    BY <1>3, <2>1 DEF DonorsOK
  <2>4. /\ Donors = ToSet(freeDonors') \cup DOMAIN entries' \cup InJob'
        /\ DOMAIN entries' \cap (ToSet(freeDonors') \cup InJob') = {}
        /\ ToSet(freeDonors') \cap InJob' = {}
    BY <1>1, <1>5, <1>6, <2>2
  <2>5. DOMAIN tables' \ InJob' = DOMAIN entries'
    BY <1>1, <1>5, <1>6, <1>7, <2>2
  <2>3. recency' \in Seq(Donors) /\ IsInjective(recency') /\ ToSet(recency') = DOMAIN entries'
    BY <1>1, <2>1 DEF DonorsOK
  <2> QED BY <1>5, <2>3, <2>4, <2>5 DEF DonorsOK
<1>11. NothingPinned'
  BY <1>1 DEF IInv, NothingPinned, Context
<1>12. CInv => CInv'
  BY <1>1, <1>3, <1>6, CellsUnchanged
<1> QED BY <1>8, <1>9, <1>10, <1>11, <1>12 DEF IInv

(* The pool goes on with a call, and installs only the table it is for. *)
LEMMA PoolContinues ==
    ASSUME IInv, PoolStep
    PROVE  /\ \/ UNCHANGED call
              \/ call' = Pool!NoCall
              \/ call # Pool!NoCall /\ \E l : call' = [call EXCEPT !.op = "fill", !.limit = l]
           /\ \/ UNCHANGED tables
              \/ /\ call # Pool!NoCall /\ call' = Pool!NoCall
                 /\ DOMAIN tables' = DOMAIN tables \cup {call.seq}
<1>1. call = Pool!NoCall \/ call.op \in {"share", "fill"}
  BY DEF IInv, JobOK, Publishing, Sharing, CallFor
<1>2. Pool!NoCall.op = "none"
  BY DEF Pool!NoCall
<1>3. CASE Pool!Release
  BY <1>3 DEF Pool!Release
<1>4. CASE Pool!ShareBlock
  BY <1>4 DEF Pool!ShareBlock, Pool!Acquire
<1>5. CASE Pool!ShareDone
  BY <1>2, <1>5 DEF Pool!ShareDone, Pool!In
<1>6. CASE Pool!FillBlock
  BY <1>6 DEF Pool!FillBlock
<1>7. CASE Pool!Install
  <2>1. call.op = "fill" \/ call.op = "copy"
    BY <1>7 DEF Pool!Install, Pool!In
  <2>2. call # Pool!NoCall
    BY <1>2, <2>1
  <2>3. tables' = Pool!Put(tables, call.seq, built) /\ call' = Pool!NoCall
    BY <1>7 DEF Pool!Install
  <2> QED BY <2>2, <2>3 DEF Pool!Put
<1>8. CASE Pool!OutOfBlocks
  BY <1>8 DEF Pool!OutOfBlocks
<1> QED BY <1>3, <1>4, <1>5, <1>6, <1>7, <1>8 DEF PoolStep

LEMMA PoolStepStep ==
    ASSUME IInv, PoolStep
    PROVE  IInv' /\ (CInv => CInv')
<1>1. UNCHANGED <<managerVars, engineVars, kv, job>>
  BY DEF PoolStep
<1>2. LanesOK' /\ PausedOK' /\ EntriesOK' /\ CellsOK' /\ NothingPinned'
  <2>1. LanesOK' /\ PausedOK' /\ EntriesOK' /\ CellsOK'
    BY <1>1, EngineKept, EntriesKept DEF IInv, CellsOK, CellType, managerVars
  <2>2. NothingPinned'
    BY <1>1 DEF IInv, NothingPinned, Context, managerVars
  <2> QED BY <2>1, <2>2
<1>3. InJob' = InJob
  BY <1>1 DEF InJob
<1>4. ASSUME call # Pool!NoCall
      PROVE  /\ Sharing /\ CallFor(job.donor, job.toks) /\ call.seq = job.donor
             /\ InJob = {job.donor}
  <2>1. Sharing
    BY <1>4 DEF IInv, JobOK, Publishing
  <2>2. job.at = "share" /\ CallFor(job.donor, job.toks)
    BY <1>4, <2>1 DEF Sharing
  <2>3. call.seq = job.donor
    BY <2>2 DEF CallFor, Pool!CallOf
  <2> QED BY <2>1, <2>2, <2>3, JobFacts
<1>5. DOMAIN tables' \ InJob = DOMAIN tables \ InJob
  BY <1>4, PoolContinues
<1>6. DonorsOK'
  BY <1>1, <1>3, <1>5 DEF IInv, DonorsOK, managerVars
<1>7. JobOK'
  <2>1. JobOK
    BY DEF IInv
  <2>2. lane' = lane /\ job' = job
    BY <1>1 DEF engineVars
  <2>3. CASE call = Pool!NoCall
    <3>1. call' = Pool!NoCall
      BY <2>3, PoolContinues
    <3>2. Publishing => Publishing'
      BY <2>2, <3>1 DEF Publishing, Blockwise, Pool!WholeBlocks, Pool!NoCall
    <3>3. Sharing => Sharing'
      BY <2>2, <3>1 DEF Sharing, Pool!NoCall
    <3> QED BY <2>1, <2>2, <3>1, <3>2, <3>3 DEF JobOK, Vacant, NoJob, Pool!NoCall
  <2>4. CASE call # Pool!NoCall
    <3>1. Sharing /\ CallFor(job.donor, job.toks)
      BY <1>4, <2>4
    <3>2. call' = Pool!NoCall \/ CallFor(job.donor, job.toks)'
      <4>1. CASE call' = Pool!NoCall
        BY <4>1
      <4>2. CASE UNCHANGED <<call, tables>>
        BY <2>2, <3>1, <4>2 DEF CallFor, Pool!CallOf
      <4>3. ASSUME NEW l, call' = [call EXCEPT !.op = "fill", !.limit = l], UNCHANGED tables
            PROVE  CallFor(job.donor, job.toks)'
        <5>1. PICK d, t, i : d = job.donor /\ t = job.toks /\ i = call.limit
          OBVIOUS
        <5>2. \/ call = Pool!CallOf("share", d, d, t, Len(t), i)
              \/ call = Pool!CallOf("fill", d, d, t, Len(t), i)
          BY <3>1, <5>1 DEF CallFor
        <5>3. /\ call' = Pool!CallOf("fill", d, d, t, Len(t), l)
              /\ call'.op = "fill" /\ call'.limit = l
          <6>1. CASE call = Pool!CallOf("share", d, d, t, Len(t), i)
            BY <4>3, <6>1 DEF Pool!CallOf
          <6>2. CASE call = Pool!CallOf("fill", d, d, t, Len(t), i)
            BY <4>3, <6>2 DEF Pool!CallOf
          <6> QED BY <5>2, <6>1, <6>2
        <5>4. d \notin DOMAIN tables'
          BY <3>1, <4>3, <5>1 DEF CallFor
        <5>5. job'.donor = d /\ job'.toks = t
          BY <2>2, <5>1
        <5> QED BY <5>3, <5>4, <5>5 DEF CallFor, Pool!CallOf
      <4>4. \/ call' = Pool!NoCall
            \/ UNCHANGED <<call, tables>>
            \/ (\E l : call' = [call EXCEPT !.op = "fill", !.limit = l]) /\ UNCHANGED tables
        BY <2>4, PoolContinues
      <4> QED BY <4>1, <4>2, <4>3, <4>4
    <3>3. Sharing'
      BY <2>2, <3>1, <3>2 DEF Sharing, Pool!NoCall
    <3>4. job # NoJob
      BY <3>1 DEF Sharing, NoJob
    <3> QED BY <2>1, <2>2, <3>3, <3>4 DEF JobOK, Vacant, NoJob
  <2> QED BY <2>3, <2>4
<1>8. CInv => CInv'
  BY <1>1, CellsUnchanged DEF managerVars, NoJob
<1> QED BY <1>2, <1>6, <1>7, <1>8 DEF IInv

LEMMA PublishStep ==
    ASSUME IInv, Publish
    PROVE  IInv' /\ (Checked /\ CInv => CInv')
<1> DEFINE d == job.donor
           s == job.seq
           t == job.toks
           n == Len(job.toks)
           l == PrefixShared(kv, s, d, n)
<1>1. /\ job.at = "share" /\ call = Pool!NoCall /\ d \in DOMAIN tables
      /\ n > 0 /\ (Checked => Cardinality(Held(s)) >= n)
      /\ kv' = Without(l, s) /\ job' = NoJob
      /\ entries' = Pool!Put(entries, d, t) /\ recency' = Append(recency, d)
      /\ UNCHANGED <<poolVars, freeDonors, engineVars>>
  BY DEF Publish, At, Pool!Idle, HasBlocks, Accepts, Shares, EndJob
<1>2. /\ InJob = {d} /\ d \in Donors /\ s \in Lanes /\ lane[s] = Vacant /\ job # NoJob
      /\ t \in Seq(Words) /\ n \in 0..MaxTokens /\ n \in Nat
  BY <1>1, JobFacts DEF Sharing
<1>3. s # d /\ d \in Lanes \cup Donors
  BY <1>2, ManagerAssumption
<1>4. /\ kv \subseteq CellType /\ DonorsOK /\ EntriesOK
  BY DEF IInv, CellsOK
<1> HIDE DEF d, s, t
<1>5. /\ l \subseteq CellType /\ KeepsOthers(kv, l, d)
      /\ \A m \in Nat : n <= m /\ Context(kv, s, m) => Context(l, d, n)
      /\ \A toks : Follows(kv, s, toks) => Follows(l, d, toks)
  <2>1. PICK k, i : k = l /\ i = n
    OBVIOUS
  <2>2. k = PrefixShared(kv, s, d, i) /\ i \in Nat
    BY <1>2, <2>1
  <2>3. /\ k \subseteq CellType /\ KeepsOthers(kv, k, d)
        /\ \A m \in Nat : i <= m /\ Context(kv, s, m) => Context(k, d, i)
        /\ \A toks : Follows(kv, s, toks) => Follows(k, d, toks)
    BY <1>3, <1>4, <2>2, SharedCellsOfPrefix
  <2> HIDE DEF l, n
  <2> QED BY <2>1, <2>3
<1> HIDE DEF l
<1>6. kv' \subseteq CellType /\ KeepsOthers(l, kv', s)
  BY <1>1, <1>5, WithoutCells
<1>7. /\ DOMAIN entries' = DOMAIN entries \cup {d}
      /\ entries'[d] = t /\ \A x \in DOMAIN entries \ {d} : entries'[x] = entries[x]
  BY <1>1 DEF Pool!Put
<1>8. /\ InJob' = {} /\ tables' = tables /\ call' = Pool!NoCall
      /\ d \notin DOMAIN entries /\ d \notin ToSet(freeDonors)
  BY <1>1, <1>2, <1>4 DEF InJob, NoJob, poolVars, DonorsOK, Pool!NoCall
<1>9. LanesOK' /\ PausedOK' /\ CellsOK'
  BY <1>1, <1>6, EngineKept DEF IInv, CellsOK, CellType
<1>10. EntriesOK'
  <2>1. t \in Seq(Words) /\ Len(t) \in 1..MaxTokens
    BY <1>1, <1>2 DEF t
  <2>2. \A x \in DOMAIN entries' :
            entries'[x] \in Seq(Words) /\ Len(entries'[x]) \in 1..MaxTokens
    BY <1>4, <1>7, <2>1 DEF EntriesOK
  <2>3. DOMAIN entries' \subseteq Donors
    BY <1>2, <1>4, <1>7 DEF EntriesOK
  <2> QED BY <2>2, <2>3 DEF EntriesOK
<1>11. JobOK'
  BY <1>1, <1>8 DEF JobOK, NoJob, Pool!NoCall
<1>12. DonorsOK'
  <2>1. /\ recency \in Seq(Donors) /\ IsInjective(recency) /\ ToSet(recency) = DOMAIN entries
    BY <1>4 DEF DonorsOK
  <2>2. recency' \in Seq(Donors)
    BY <1>1, <1>2, <2>1, AppendProperties
  <2>3. ToSet(recency') = ToSet(recency) \cup {d} /\ IsInjective(recency')
    BY <1>1, <1>2, <1>8, <2>1, AppendElements
  <2>4. /\ Donors = ToSet(freeDonors) \cup DOMAIN entries \cup {d}
        /\ DOMAIN entries \cap ToSet(freeDonors) = {}
        /\ DOMAIN tables \ {d} = DOMAIN entries
        /\ freeDonors \in Seq(Donors) /\ IsInjective(freeDonors)
    BY <1>2, <1>4 DEF DonorsOK
  <2>5. DOMAIN tables = DOMAIN entries'
    BY <1>1, <1>7, <2>4
  <2>6. freeDonors' = freeDonors
    BY <1>1
  <2>7. /\ Donors = ToSet(freeDonors') \cup DOMAIN entries' \cup InJob'
        /\ DOMAIN entries' \cap (ToSet(freeDonors') \cup InJob') = {}
        /\ ToSet(freeDonors') \cap InJob' = {}
        /\ DOMAIN tables' \ InJob' = DOMAIN entries'
    BY <1>7, <1>8, <2>4, <2>5, <2>6
  <2> QED BY <1>7, <2>1, <2>2, <2>3, <2>4, <2>6, <2>7 DEF DonorsOK
<1>13. NothingPinned'
  <2>1. ASSUME NEW x \in Donors \ DOMAIN entries' PROVE Context(kv', x, 0)
    <3>1. x # d /\ x # s /\ Context(kv, x, 0) /\ 0 \in Nat
      BY <1>2, <1>7, ManagerAssumption DEF IInv, NothingPinned
    <3>2. Context(l, x, 0)
      BY <1>5, <3>1 DEF KeepsOthers
    <3> QED BY <1>6, <3>1, <3>2 DEF KeepsOthers
  <2> QED BY <2>1 DEF NothingPinned, Context
<1>14. ASSUME Checked, CInv PROVE CInv'
  <2>1. LanesExact'
    <3>1. ASSUME NEW x \in Lanes, lane[x] # Vacant
          PROVE  Context(kv', x, lane[x].computed) /\ Follows(kv', x, lane[x].toks)
      <4>1. x # s /\ x # d /\ lane[x].computed \in Nat
        BY <1>2, <3>1, ManagerAssumption DEF IInv, LanesOK, IsRequest
      <4>2. Context(kv, x, lane[x].computed) /\ Follows(kv, x, lane[x].toks)
        BY <1>14, <3>1 DEF CInv, LanesExact
      <4>3. Context(l, x, lane[x].computed) /\ Follows(l, x, lane[x].toks)
        BY <1>5, <4>1, <4>2 DEF KeepsOthers
      <4> QED BY <1>6, <4>1, <4>3 DEF KeepsOthers
    <3>2. lane' = lane
      BY <1>1 DEF engineVars
    <3> QED BY <3>1, <3>2 DEF LanesExact, Context, Follows, Vacant
  <2>2. EntriesExact'
    <3>1. ASSUME NEW x \in DOMAIN entries
          PROVE  Context(kv', x, Len(entries[x])) /\ Follows(kv', x, entries[x])
      <4>1. x # s /\ x # d /\ Len(entries[x]) \in Nat
        BY <1>2, <1>4, <1>8, LanesAreNoDonors, LenProperties DEF EntriesOK
      <4>2. Context(kv, x, Len(entries[x])) /\ Follows(kv, x, entries[x])
        BY <1>14 DEF CInv, EntriesExact
      <4>3. Context(l, x, Len(entries[x])) /\ Follows(l, x, entries[x])
        BY <1>5, <4>1, <4>2 DEF KeepsOthers
      <4> QED BY <1>6, <4>1, <4>3 DEF KeepsOthers
    <3>2. Context(kv', d, n) /\ Follows(kv', d, t)
      <4>1. PICK m \in 0..MaxTokens : Context(kv, s, m)
        BY <1>2, <1>14 DEF CInv, JobExact, s
      <4>2. Follows(kv, s, t) /\ m \in Nat
        BY <1>2, <1>14, <4>1, ManagerAssumption DEF CInv, JobExact, s, t
      <4>3. m >= n
        <5>1. Cardinality(Held(s)) = m
          BY <4>1, <4>2, ContextSize DEF Held
        <5> QED BY <1>1, <1>14, <5>1
      <4>4. Context(l, d, n) /\ Follows(l, d, t)
        BY <1>2, <1>5, <4>1, <4>2, <4>3
      <4> QED BY <1>2, <1>3, <1>6, <4>4 DEF KeepsOthers
    <3>3. n = Len(entries'[d])
      BY <1>7 DEF t
    <3>4. \A x \in DOMAIN entries' :
              Context(kv', x, Len(entries'[x])) /\ Follows(kv', x, entries'[x])
      BY <1>7, <1>8, <3>1, <3>2, <3>3
    <3> QED BY <3>4 DEF EntriesExact, Context, Follows
  <2>3. JobExact'
    BY <1>1 DEF JobExact, NoJob
  <2> QED BY <2>1, <2>2, <2>3 DEF CInv
<1> QED BY <1>9, <1>10, <1>11, <1>12, <1>13, <1>14 DEF IInv
-----------------------------------------------------------------------------
(* The first state, and every step. *)

LEMMA InitStep ==
    ASSUME Init
    PROVE  IInv /\ CInv
<1>1. /\ tables = << >> /\ call = Pool!NoCall
      /\ kv = {} /\ entries = << >> /\ recency = << >>
      /\ freeDonors \in SetToSeqs(Donors)
      /\ lane = [s \in Lanes |-> Vacant] /\ paused = {} /\ job = NoJob
  BY DEF Init, Pool!Init
<1>2. freeDonors \in Seq(Donors) /\ IsInjective(freeDonors) /\ ToSet(freeDonors) = Donors
  BY <1>1, EachElementOnce, ManagerAssumption
<1>3. InJob = {} /\ DOMAIN entries = {} /\ DOMAIN tables = {}
  BY <1>1, NotPublishing
<1>4. recency \in Seq(Donors) /\ IsInjective(recency) /\ ToSet(recency) = {}
  BY <1>1, EmptySeq DEF IsInjective, ToSet
<1>5. DonorsOK
  BY <1>2, <1>3, <1>4 DEF DonorsOK
<1>6. LanesOK /\ PausedOK /\ CellsOK /\ JobOK /\ EntriesOK /\ NothingPinned
  BY <1>1, <1>3 DEF LanesOK, PausedOK, CellsOK, JobOK, EntriesOK, NothingPinned, Context
<1>7. CInv
  BY <1>1, <1>3 DEF CInv, LanesExact, EntriesExact, JobExact
<1> QED BY <1>5, <1>6, <1>7 DEF IInv

LEMMA AdmitStep ==
    ASSUME IInv, NEW s \in Lanes, NEW toks \in Prompts, Admit(s, toks)
    PROVE  IInv' /\ (CInv => CInv')
<1>1. toks \in Seq(Words) /\ Len(toks) <= MaxTokens /\ toks # << >>
  BY ManagerAssumption, ShortSequences
<1>2. Len(toks) \in Nat /\ Len(toks) > 0
  BY <1>1, EmptySeq
<1> DEFINE r == RequestOf(toks)
<1>3. IsRequest(r) /\ r.computed = 0
  BY <1>1, <1>2 DEF RequestOf, IsRequest
<1> HIDE DEF r
<1>4. /\ Idle /\ OnAdmit(s, r) /\ \A q \in paused' : q \in paused
      /\ UNCHANGED <<poolVars, entries, freeDonors, job>>
  BY DEF Admit, r
<1> QED BY <1>3, <1>4, AdmissionStep

LEMMA ResumeStep ==
    ASSUME IInv, NEW s \in Lanes, NEW r \in paused, Resume(s, r)
    PROVE  IInv' /\ (CInv => CInv')
<1>1. IsRequest(r) /\ r.computed = 0
  BY DEF IInv, PausedOK
<1>2. /\ Idle /\ OnAdmit(s, r) /\ \A q \in paused' : q \in paused
      /\ UNCHANGED <<poolVars, entries, freeDonors, job>>
  BY DEF Resume
<1> QED BY <1>1, <1>2, AdmissionStep

LEMMA NextStep ==
    ASSUME IInv, [Next]_vars
    PROVE  IInv' /\ (Checked /\ CInv => CInv')
<1>1. CASE Engine
  <2>1. PICK s \in Lanes :
            \/ \E toks \in Prompts : Admit(s, toks)
            \/ \E r \in paused : Resume(s, r)
            \/ Compute(s) \/ Fail(s) \/ Preempt(s)
    BY <1>1 DEF Engine
  <2> QED BY <2>1, AdmitStep, ResumeStep, ComputeStep, FailStep, PreemptStep
<1>2. CASE SkipPublication
  BY <1>2, SkipPublicationStep
<1>3. CASE EvictEntry
  BY <1>3, EvictEntryStep
<1>4. CASE GiveUp
  BY <1>4, GiveUpStep
<1>5. CASE Reserve
  BY <1>5, ReserveStep
<1>6. CASE PoolStep
  BY <1>6, PoolStepStep
<1>7. CASE Publish
  BY <1>7, PublishStep
<1>8. CASE Withdraw
  BY <1>8, WithdrawStep
<1>9. CASE UNCHANGED vars
  <2>1. /\ UNCHANGED <<kv, entries, recency, freeDonors, lane, paused, job, tables, call>>
        /\ UNCHANGED engineVars
    BY <1>9 DEF vars, poolVars, managerVars, engineVars
  <2>2. LanesOK' /\ PausedOK' /\ EntriesOK' /\ CellsOK' /\ NothingPinned'
    BY <2>1, EngineKept, EntriesKept DEF IInv, CellsOK, CellType, NothingPinned, Context
  <2>3. DonorsOK'
    BY <2>1 DEF IInv, DonorsOK, InJob
  <2>4. JobOK'
    BY <2>1 DEF IInv, JobOK, Publishing, Sharing, CallFor, Blockwise, Pool!WholeBlocks,
                Pool!CallOf, Pool!NoCall, NoJob, Vacant
  <2>5. CInv => CInv'
    BY <2>1, CellsUnchanged DEF NoJob
  <2> QED BY <2>2, <2>3, <2>4, <2>5 DEF IInv
<1> QED BY <1>1, <1>2, <1>3, <1>4, <1>5, <1>6, <1>7, <1>8, <1>9 DEF Next
-----------------------------------------------------------------------------
(***************************************************************************)
(* Every step of the engine and of a retirement, a failed or refused one   *)
(* included, keeps the account of donors, entries, lanes and cells.        *)
(***************************************************************************)
THEOREM Invariance == Spec => []IInv
<1>1. Init => IInv
  BY InitStep
<1>2. IInv /\ [Next]_vars => IInv'
  BY NextStep
<1> QED BY <1>1, <1>2, PTL DEF Spec

(***************************************************************************)
(* With a backend that refuses a source that is too short, every sequence  *)
(* that is read later has exactly the cells of its own tokens.             *)
(***************************************************************************)
THEOREM CellsInvariance == ASSUME Checked PROVE Spec => [](IInv /\ CInv)
<1>1. Init => IInv /\ CInv
  BY InitStep
<1>2. IInv /\ CInv /\ [Next]_vars => IInv' /\ CInv'
  BY NextStep
<1> QED BY <1>1, <1>2, PTL DEF Spec

(***************************************************************************)
(* The type invariant of the prefix cache: a slot in use has a token left  *)
(* to compute, whatever on_admit gave it, and what _publish hands to the   *)
(* pool is whole blocks.                                                   *)
(***************************************************************************)
THEOREM TypeCorrect == Spec => []TypeOK
<1>1. IInv => TypeOK
  <2> SUFFICES ASSUME IInv PROVE TypeOK
    OBVIOUS
  <2>1. kv \subseteq [pos : 0..(MaxTokens - 1), tok : Words,
                      seqs : (SUBSET (Lanes \cup Donors)) \ {{}}]
    BY DEF IInv, CellsOK, CellType
  <2>2. ASSUME NEW d \in DOMAIN entries
        PROVE  entries[d] \in SeqOf(Words, MaxTokens) \ {<< >>}
    <3>1. entries[d] \in Seq(Words) /\ Len(entries[d]) \in 1..MaxTokens
      BY DEF IInv, EntriesOK
    <3>2. Len(entries[d]) <= MaxTokens /\ MaxTokens \in Nat /\ entries[d] # << >>
      BY <3>1, EmptySeq, ManagerAssumption
    <3> QED BY <3>1, <3>2, ShortSequences
  <2>3. ASSUME NEW r \in paused \cup {lane[s] : s \in Lanes}, r # Vacant
        PROVE  /\ r.toks \in SeqOf(Words, MaxTokens)
               /\ r.prompt \in 1..Len(r.toks) /\ r.cached \in 0..r.prompt
               /\ r.computed \in 0..(Len(r.toks) - 1)
    <3>1. IsRequest(r)
      BY <2>3 DEF IInv, PausedOK, LanesOK
    <3>2. r.toks \in Seq(Words) /\ Len(r.toks) <= MaxTokens /\ MaxTokens \in Nat
      BY <3>1, ManagerAssumption DEF IsRequest
    <3> QED BY <3>1, <3>2, ShortSequences, RequestFacts
  <2>4. job.at \in {"none", "publish", "share"}
    BY DEF IInv, JobOK, Publishing, Sharing, NoJob
  <2>5. ASSUME job # NoJob PROVE job.seq \in Lanes /\ Len(job.toks) % BlockSize = 0
    BY <2>5 DEF IInv, JobOK, Publishing, Sharing
  <2>6. /\ DOMAIN entries \subseteq Donors
        /\ recency \in Seq(Donors) /\ freeDonors \in Seq(Donors)
    BY DEF IInv, EntriesOK, DonorsOK
  <2> QED BY <2>1, <2>2, <2>3, <2>4, <2>5, <2>6 DEF TypeOK
<1> QED BY <1>1, Invariance, PTL

(***************************************************************************)
(* No donor sequence is lost or used twice, and nothing pins cells or      *)
(* blocks that no entry would give back, however publications, refusals of *)
(* the backend and of the pool, and evictions follow one another.          *)
(***************************************************************************)
THEOREM DonorsAreConserved == Spec => []DonorsConserved
<1>1. IInv => DonorsConserved
  <2> SUFFICES ASSUME IInv PROVE DonorsConserved
    OBVIOUS
  <2>1. ASSUME NEW d \in Donors \ DOMAIN entries PROVE Held(d) = {}
    BY NoneHeld DEF IInv, NothingPinned, Held
  <2> QED BY <2>1 DEF IInv, DonorsOK, DonorsConserved
<1> QED BY <1>1, Invariance, PTL

(***************************************************************************)
(* What continuous.py relies on after on_admit: the cells of a request are *)
(* those of its own tokens, one for each that counts as computed, and one  *)
(* token is left, for every hash, colliding or not.  The backend has to    *)
(* refuse a source that is too short, as that of backends/mock.py does;    *)
(* without that the property is false.                                     *)
(***************************************************************************)
THEOREM ReuseIsExact == ASSUME Checked PROVE Spec => []ReuseExact
<1>1. IInv /\ CInv => ReuseExact
  <2> SUFFICES ASSUME IInv, CInv, NEW s \in Lanes, lane[s] # Vacant
               PROVE  /\ lane[s].computed < Len(lane[s].toks)
                      /\ Holds(s, SubSeq(lane[s].toks, 1, lane[s].computed))
                      /\ Cardinality(Held(s)) = lane[s].computed
    BY DEF ReuseExact
  <2> DEFINE r == lane[s]
             t == SubSeq(r.toks, 1, r.computed)
  <2>1. IsRequest(r) /\ Context(kv, s, r.computed) /\ Follows(kv, s, r.toks)
    BY DEF IInv, CInv, LanesOK, LanesExact
  <2>2. /\ r.toks \in Seq(Words) /\ r.computed \in Nat /\ r.computed < Len(r.toks)
        /\ Len(r.toks) \in Nat
    BY <2>1, LenProperties DEF IsRequest
  <2> HIDE DEF r
  <2>3. Cardinality(Held(s)) = r.computed
    BY <2>1, <2>2, ContextSize DEF Held
  <2>4. Holds(s, t)
    <3>1. r.computed \in 0..Len(r.toks)
      BY <2>2
    <3>2. /\ t \in Seq(Words) /\ Len(t) = r.computed
          /\ \A i \in 1..r.computed : t[i] = r.toks[i]
      BY <2>2, <3>1, FirstTokens
    <3>3. DOMAIN t = 1..r.computed
      BY <3>2, LenProperties
    <3> HIDE DEF t
    <3>4. ASSUME NEW i \in 1..r.computed
          PROVE  \E c \in Held(s) : c.pos = i - 1 /\ c.tok = t[i]
      <4>1. i - 1 \in 0..(r.computed - 1) /\ i - 1 < Len(r.toks) /\ (i - 1) + 1 = i
        BY <2>2
      <4>2. PICK c \in kv : s \in c.seqs /\ c.pos = i - 1
        BY <2>1, <4>1 DEF Context
      <4>3. c.tok = r.toks[i]
        BY <2>1, <4>1, <4>2 DEF Follows
      <4> QED BY <3>2, <4>2, <4>3 DEF Held
    <3> QED BY <3>3, <3>4 DEF Holds
  <2> QED BY <2>2, <2>3, <2>4 DEF r, t
<1> QED BY <1>1, CellsInvariance, PTL

(***************************************************************************)
(* The manager uses the pool as engine/paged_kv.py allows: every step of   *)
(* it is one of PagedKV, or leaves the pool alone.  So what is proved of   *)
(* the pool holds under the manager.                                       *)
(***************************************************************************)
THEOREM PoolIsUsedAsSpecified == Spec => Pool!Spec
<1>1. Init => Pool!Init
  BY DEF Init
<1>2. IInv /\ [Next]_vars => [Pool!Next]_(Pool!vars)
  <2> SUFFICES ASSUME IInv, [Next]_vars PROVE [Pool!Next]_(Pool!vars)
    OBVIOUS
  <2>1. CASE UNCHANGED poolVars
    BY <2>1 DEF poolVars, Pool!vars, Pool!poolVars
  <2>2. CASE Engine
    BY <2>1, <2>2 DEF Engine, Admit, Resume, Compute, Fail, Preempt
  <2>3. CASE SkipPublication \/ GiveUp \/ Publish \/ UNCHANGED vars
    BY <2>1, <2>3 DEF SkipPublication, GiveUp, Publish, vars
  <2>4. CASE EvictEntry
    <3>1. recency # << >> /\ Pool!FreeSeq(Head(recency))
      BY <2>4 DEF EvictEntry
    <3>2. Head(recency) \in Donors
      BY <3>1, HeadTailProperties DEF IInv, DonorsOK
    <3> QED BY <3>1, <3>2 DEF Pool!Next, Pool!Begin
  <2>5. CASE Reserve
    <3>1. /\ job.at = "publish" /\ freeDonors # << >>
          /\ Pool!Allocate(Head(freeDonors), job.toks, job.limit)
      BY <2>5 DEF Reserve, At, HasRoom, Needless
    <3>2. Head(freeDonors) \in Donors
      BY <3>1, HeadTailProperties DEF IInv, DonorsOK
    <3>3. job.toks \in Seq(Words) /\ Len(job.toks) <= MaxTokens /\ MaxTokens \in Nat
      BY <3>1, JobFacts, ManagerAssumption
    <3>4. job.toks \in SeqOf(Words, MaxTokens)
      BY <3>3, ShortSequences
    <3>5. job.limit \in 0..Pool!WholeBlocks(Len(job.toks))
      <4>1. job.limit \in Nat /\ job.limit <= Pool!WholeBlocks(Len(job.toks))
        BY <3>1, JobFacts DEF Publishing, Blockwise
      <4>2. Pool!WholeBlocks(Len(job.toks)) \in Nat
        BY <3>3, LenProperties, Blocking
      <4> QED BY <4>1, <4>2
    <3>6. PICK d, t, i : d = Head(freeDonors) /\ t = job.toks /\ i = job.limit
      OBVIOUS
    <3>7. /\ d \in Donors /\ t \in SeqOf(Words, MaxTokens)
          /\ i \in 0..Pool!WholeBlocks(Len(t)) /\ Pool!Allocate(d, t, i)
      BY <3>1, <3>2, <3>4, <3>5, <3>6
    <3>8. Pool!Begin
      <4>1. t \in Pool!SeqOf(Words, MaxTokens)
        BY <3>7 DEF SeqOf, Pool!SeqOf
      <4>2. \E toks \in Pool!SeqOf(Words, MaxTokens) :
               \E limit \in 0..Pool!WholeBlocks(Len(toks)) : Pool!Allocate(d, toks, limit)
        BY <3>7, <4>1
      <4> QED BY <3>7, <4>2, Zenon DEF Pool!Begin
    <3> QED BY <3>8 DEF Pool!Next
  <2>6. CASE PoolStep
    BY <2>6 DEF PoolStep, Pool!Next, Pool!Continue
  <2>7. CASE Withdraw
    <3>1. job.at = "share" /\ GivenBack
      BY <2>7 DEF Withdraw, At
    <3>2. job.donor \in Donors
      BY <3>1, JobFacts DEF Sharing
    <3>3. CASE HasBlocks
      BY <3>1, <3>2, <3>3 DEF GivenBack, Pool!Next, Pool!Begin
    <3>4. CASE ~ HasBlocks
      BY <2>1, <3>1, <3>4 DEF GivenBack
    <3> QED BY <3>3, <3>4
  <2> QED BY <2>2, <2>3, <2>4, <2>5, <2>6, <2>7 DEF Next
<1> QED BY <1>1, <1>2, Invariance, PTL DEF Spec, Pool!Spec
=============================================================================
