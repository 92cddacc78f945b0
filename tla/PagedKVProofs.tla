--------------------------- MODULE PagedKVProofs ---------------------------
(***************************************************************************)
(* Proofs about the paged allocator: for every number of blocks, block     *)
(* size, set of sequences and hash.                                        *)
(***************************************************************************)
EXTENDS PagedKVProperties, SequenceLemmas

-----------------------------------------------------------------------------
(* Blocks and the tokens that fill them. *)

LEMMA Division ==
    ASSUME NEW n \in Nat
    PROVE  /\ WholeBlocks(n) \in Nat
           /\ n % BlockSize \in 0..(BlockSize - 1)
           /\ n = WholeBlocks(n) * BlockSize + (n % BlockSize)
           /\ WholeBlocks(n) * BlockSize <= n
           /\ n < (WholeBlocks(n) + 1) * BlockSize
           /\ WholeBlocks(n) <= n
  BY PagedAssumption DEF WholeBlocks

(* A sequence of n tokens is held in whole blocks and at most one more. *)
LEMMA HoldingBlocks ==
    ASSUME NEW n \in Nat
    PROVE  /\ BlocksToHold(n) \in Nat
           /\ WholeBlocks(n) <= BlocksToHold(n)
           /\ BlocksToHold(n) <= WholeBlocks(n) + 1
           /\ BlocksToHold(n + 1) = WholeBlocks(n) + 1
           /\ BlocksToHold(n) <= n
           /\ BlocksToHold(n) = 0 <=> n = 0
<1> DEFINE B == BlockSize
           w == WholeBlocks(n)
           h == BlocksToHold(n)
           m == n + B - 1
<1>b. B \in Nat /\ B > 0
  BY PagedAssumption
<1>1. w \in Nat /\ w * B <= n /\ n < (w + 1) * B
  BY Division
<1>m. m \in Nat
  BY <1>b
<1>2. h \in Nat /\ h * B <= m /\ m < (h + 1) * B
  <2>1. h = WholeBlocks(m)
    BY DEF BlocksToHold, WholeBlocks
  <2> QED BY <2>1, <1>m, Division
<1>3. BlocksToHold(n + 1) = w + 1
  <2>1. BlocksToHold(n + 1) = WholeBlocks(n + B)
    BY <1>b DEF BlocksToHold, WholeBlocks
  <2> DEFINE v == WholeBlocks(n + B)
  <2>2. v \in Nat /\ v * B <= n + B /\ n + B < (v + 1) * B
    BY <1>b, Division
  <2> HIDE DEF w, B, v
  <2>3. v * B < (w + 1 + 1) * B /\ (w + 1) * B < (v + 1) * B
    BY <1>b, <1>1, <2>2
  <2>4. v < w + 1 + 1 /\ w + 1 < v + 1
    BY <1>b, <1>1, <2>2, <2>3
  <2> QED BY <2>1, <2>4, <1>1, <2>2 DEF v
<1> HIDE DEF w, h, B
<1>4. w <= h
  <2>1. w * B < (h + 1) * B
    BY <1>1, <1>2, <1>b
  <2> QED BY <2>1, <1>1, <1>2, <1>b
<1>5. h <= w + 1
  <2>1. h * B < (w + 1 + 1) * B
    BY <1>1, <1>2, <1>b
  <2> QED BY <2>1, <1>1, <1>2, <1>b
<1>6. h <= n
  <2>1. h * B < (n + 1) * B
    <3>1. n <= n * B
      BY <1>b
    <3> QED BY <3>1, <1>2, <1>b
  <2> QED BY <2>1, <1>2, <1>b
<1>7. h = 0 <=> n = 0
  <2>1. ASSUME h = 0 PROVE n = 0
    BY <2>1, <1>2, <1>b
  <2>2. ASSUME n = 0 PROVE h = 0
    BY <2>2, <1>6, <1>2
  <2> QED BY <2>1, <2>2
<1> QED BY <1>1, <1>2, <1>3, <1>4, <1>5, <1>6, <1>7 DEF w, h

(* Fewer tokens need no more blocks. *)
LEMMA HoldingMonotone ==
    ASSUME NEW m \in Nat, NEW n \in Nat, m <= n
    PROVE  /\ WholeBlocks(m) <= WholeBlocks(n)
           /\ BlocksToHold(m) <= BlocksToHold(n)
           /\ m < n => WholeBlocks(m) + 1 <= BlocksToHold(n)
<1>w. ASSUME NEW a \in Nat, NEW c \in Nat, a <= c
      PROVE  WholeBlocks(a) <= WholeBlocks(c)
  <2> DEFINE B == BlockSize
             u == WholeBlocks(a)
             v == WholeBlocks(c)
  <2>b. B \in Nat /\ B > 0
    BY PagedAssumption
  <2>1. /\ u \in Nat /\ u * B <= a /\ a < (u + 1) * B
        /\ v \in Nat /\ v * B <= c /\ c < (v + 1) * B
    BY Division
  <2> HIDE DEF u, v, B
  <2>2. u * B < (v + 1) * B
    BY <2>1, <2>b, <1>w
  <2>3. u <= v
    BY <2>2, <2>1, <2>b
  <2> QED BY <2>3 DEF u, v
<1>1. WholeBlocks(m) <= WholeBlocks(n)
  BY <1>w
<1>h. ASSUME NEW c \in Nat
      PROVE  BlocksToHold(c) = WholeBlocks(c + (BlockSize - 1)) /\ c + (BlockSize - 1) \in Nat
  BY PagedAssumption DEF BlocksToHold, WholeBlocks
<1>2. BlocksToHold(m) <= BlocksToHold(n)
  <2>1. m + (BlockSize - 1) <= n + (BlockSize - 1)
    BY PagedAssumption
  <2> QED BY <2>1, <1>h, <1>w
<1>3. ASSUME m < n PROVE WholeBlocks(m) + 1 <= BlocksToHold(n)
  <2>1. m + 1 <= n /\ m + 1 \in Nat
    BY <1>3
  <2>2. (m + 1) + (BlockSize - 1) <= n + (BlockSize - 1)
    BY <2>1, PagedAssumption
  <2>3. BlocksToHold(m + 1) <= BlocksToHold(n)
    BY <2>1, <2>2, <1>h, <1>w
  <2> QED BY <2>3, HoldingBlocks
<1> QED BY <1>1, <1>2, <1>3
-----------------------------------------------------------------------------
(***************************************************************************)
(* The entries of all tables that name a block, and how their number       *)
(* changes when the table of one sequence is replaced.                     *)
(***************************************************************************)
EntriesIn(T, b) ==
    {e \in Seqs \X (1..(MaxTokens + 1)) :
        /\ e[1] \in DOMAIN T
        /\ e[2] \in DOMAIN T[e[1]]
        /\ T[e[1]][e[2]] = b}

ListOf(T, s) == IF s \in DOMAIN T THEN T[s] ELSE << >>

AreTables(T) ==
    /\ DOMAIN T \subseteq Seqs /\ IsFiniteSet(DOMAIN T)
    /\ \A s \in DOMAIN T : T[s] \in Seq(Blocks) /\ Len(T[s]) <= MaxTokens

EntriesOfOthers(T, s, b) == {e \in EntriesIn(T, b) : e[1] # s}

LEMMA EntriesSplit ==
    ASSUME NEW T, AreTables(T), NEW s \in Seqs, NEW b
    PROVE  /\ IsFiniteSet(EntriesIn(T, b))
           /\ Cardinality(EntriesOfOthers(T, s, b)) \in Nat
           /\ Count(ListOf(T, s), b) \in Nat
           /\ Cardinality(EntriesIn(T, b))
              = Cardinality(EntriesOfOthers(T, s, b)) + Count(ListOf(T, s), b)
<1> DEFINE others == EntriesOfOthers(T, s, b)
           places == Occurrences(ListOf(T, s), b)
           mine == {e \in EntriesIn(T, b) : e[1] = s}
           f == [i \in places |-> <<s, i>>]
<1>1. IsFiniteSet(EntriesIn(T, b))
  <2> DEFINE P == (DOMAIN T) \X (1..(MaxTokens + 1))
  <2>1. IsFiniteSet(1..(MaxTokens + 1))
    BY PagedAssumption, FS_Interval
  <2>2. IsFiniteSet(P)
    BY <2>1, FS_Product DEF AreTables
  <2>3. EntriesIn(T, b) \in SUBSET P
    BY DEF EntriesIn
  <2> HIDE DEF P
  <2> QED BY <2>2, <2>3, FS_Subset
<1>2. ListOf(T, s) \in Seq(Blocks) /\ Len(ListOf(T, s)) <= MaxTokens
  BY EmptySeq, PagedAssumption DEF ListOf, AreTables
<1>3. IsFiniteSet(places) /\ Count(ListOf(T, s), b) \in Nat
  BY <1>2, CountType
<1>4. DOMAIN ListOf(T, s) = 1..Len(ListOf(T, s)) /\ Len(ListOf(T, s)) \in Nat
  BY <1>2, LenProperties
<1>5. \A i \in places : <<s, i>> \in mine
  <2> SUFFICES ASSUME NEW i \in places PROVE <<s, i>> \in EntriesIn(T, b)
    OBVIOUS
  <2>1. i \in 1..Len(ListOf(T, s)) /\ ListOf(T, s)[i] = b /\ i \in DOMAIN ListOf(T, s)
    BY <1>4 DEF Occurrences
  <2>2. i \in 1..(MaxTokens + 1)
    BY <2>1, <1>2, <1>4, PagedAssumption
  <2>3. s \in DOMAIN T /\ ListOf(T, s) = T[s]
    BY <2>1, <1>4, EmptySeq DEF ListOf
  <2> QED BY <2>1, <2>2, <2>3 DEF EntriesIn
<1>6. \A e \in mine : \E i \in places : <<s, i>> = e
  BY DEF EntriesIn, Occurrences, ListOf
<1>7. IsFiniteSet(mine) /\ Cardinality(mine) = Count(ListOf(T, s), b)
  <2>1. f \in [places -> mine]
    BY <1>5
  <2>2. \A i, j \in places : f[i] = f[j] => i = j
    OBVIOUS
  <2>3. \A e \in mine : \E i \in places : f[i] = e
    BY <1>6
  <2> HIDE DEF mine, places, f
  <2>4. IsFiniteSet(mine) /\ Cardinality(mine) = Cardinality(places)
    BY <1>3, <2>1, <2>2, <2>3, Renaming
  <2> QED BY <2>4 DEF Count, places
<1>8. IsFiniteSet(others) /\ others \cap mine = {}
  <2>1. others \in SUBSET EntriesIn(T, b)
    BY DEF EntriesOfOthers
  <2>2. IsFiniteSet(others)
    BY <1>1, <2>1, FS_Subset
  <2> QED BY <2>2 DEF EntriesOfOthers
<1>9. EntriesIn(T, b) = others \cup mine
  BY DEF EntriesOfOthers
<1> HIDE DEF others, mine
<1>10. /\ Cardinality(others \cup mine) = Cardinality(others) + Cardinality(mine)
       /\ Cardinality(others) \in Nat
  BY <1>7, <1>8, DisjointUnion, FS_CardinalityType
<1> QED BY <1>1, <1>3, <1>7, <1>9, <1>10 DEF others

LEMMA TableReplaced ==
    ASSUME NEW T, AreTables(T), NEW U, AreTables(U), NEW s \in Seqs, NEW b,
           \A r \in Seqs \ {s} :
              /\ r \in DOMAIN T <=> r \in DOMAIN U
              /\ r \in DOMAIN T => T[r] = U[r]
    PROVE  Cardinality(EntriesIn(U, b)) + Count(ListOf(T, s), b)
           = Cardinality(EntriesIn(T, b)) + Count(ListOf(U, s), b)
<1>1. EntriesOfOthers(U, s, b) = EntriesOfOthers(T, s, b)
  BY DEF EntriesOfOthers, EntriesIn
<1>2. /\ Cardinality(EntriesOfOthers(T, s, b)) \in Nat
      /\ Count(ListOf(T, s), b) \in Nat
      /\ Cardinality(EntriesIn(T, b))
         = Cardinality(EntriesOfOthers(T, s, b)) + Count(ListOf(T, s), b)
  BY EntriesSplit
<1>3. /\ Count(ListOf(U, s), b) \in Nat
      /\ Cardinality(EntriesIn(U, b))
         = Cardinality(EntriesOfOthers(U, s, b)) + Count(ListOf(U, s), b)
  BY EntriesSplit
<1> QED BY <1>1, <1>2, <1>3
-----------------------------------------------------------------------------
(***************************************************************************)
(* The inductive invariant: the properties, part by part, and what the     *)
(* call in progress may rely on.                                           *)
(***************************************************************************)
CellsType == [1..BlockSize -> Words \cup {EMPTY}]

Listed ==
    /\ IsInjective(free) /\ IsInjective(evictable)
    /\ ToSet(free) \cap ToSet(evictable) = {}
    /\ \A b \in Blocks :
          refs[b] = 0 <=> b \in ToSet(free) \cup ToSet(evictable)
    /\ \A b \in ToSet(evictable) : published[b] # << >>
    /\ \A b \in ToSet(free) : published[b] = << >>

PoolType ==
    /\ refs \in [Blocks -> Nat]
    /\ cells \in [Blocks -> CellsType]
    /\ published \in [Blocks -> HashedPrefixes]
    /\ free \in Seq(Blocks) /\ evictable \in Seq(Blocks)
    /\ \A h \in DOMAIN index : index[h] \in Blocks

PoolOK == PoolType /\ Listed /\ IndexSound /\ PublishedImmutable

TablesOK ==
    /\ DOMAIN tables \subseteq Seqs /\ IsFiniteSet(DOMAIN tables)
    /\ \A s \in DOMAIN tables : tables[s] \in Seq(Blocks)
    /\ DOMAIN lens = DOMAIN tables
    /\ \A s \in DOMAIN tables : /\ lens[s] \in 0..MaxTokens
                                /\ Len(tables[s]) = BlocksToHold(lens[s])

ListsOK == built \in Seq(Blocks) /\ todo \in Seq(Blocks)

CallRecords ==
    [op : {"share", "fill", "copy", "write"}, seq : Seqs, from : Seqs,
     toks : SeqOf(Words, MaxTokens), n : 0..MaxTokens, limit : 0..MaxTokens]

(* allocate has given up the table it replaces, and gathers no more blocks
   than the tokens need. *)
Allocating ==
    /\ call.seq \notin DOMAIN tables
    /\ call.n = Len(call.toks)
    /\ call.limit <= WholeBlocks(call.n)
    /\ call.op = "share" => Len(built) <= call.limit
    /\ Len(built) <= BlocksToHold(call.n)

(* share_prefix and fork still have the sequence they copy. *)
Copying ==
    /\ call.seq \notin DOMAIN tables
    /\ call.from \in DOMAIN tables
    /\ call.n <= lens[call.from]
    /\ call.limit \in {WholeBlocks(call.n), BlocksToHold(call.n)}
    /\ Len(built) <= BlocksToHold(call.n)

(* write extends the table up to the block of the cell it writes. *)
Writing ==
    /\ call.seq \in DOMAIN tables
    /\ Len(call.toks) = 1
    /\ call.n < MaxTokens
    /\ built # << >> => Len(tables[call.seq]) + Len(built) <= WholeBlocks(call.n) + 1

InCall ==
    /\ call \in CallRecords
    /\ call.op \in {"share", "fill"} => Allocating
    /\ call.op = "copy" => Copying
    /\ call.op = "write" => Writing

CallOK == \/ call = NoCall /\ built = << >>
          \/ InCall

IInv == PoolOK /\ TablesOK /\ ListsOK /\ CallOK /\ RefsExact

-----------------------------------------------------------------------------
(* What the parts of the invariant say when they are put to use. *)

LEMMA NotInCall ==
    ASSUME CallOK, call = NoCall
    PROVE  built = << >>
  BY DEF CallOK, InCall, CallRecords, NoCall

LEMMA InCallFacts ==
    ASSUME CallOK, call.op \in {"share", "fill", "copy", "write"}
    PROVE  InCall
  BY DEF CallOK, NoCall

LEMMA TablesFacts ==
    ASSUME TablesOK
    PROVE  /\ AreTables(tables)
           /\ \A s \in DOMAIN tables :
                 Len(tables[s]) \in Nat /\ Len(tables[s]) <= MaxTokens
<1>1. ASSUME NEW s \in DOMAIN tables
      PROVE  Len(tables[s]) \in Nat /\ Len(tables[s]) <= MaxTokens
  <2>1. lens[s] \in Nat /\ lens[s] <= MaxTokens /\ Len(tables[s]) = BlocksToHold(lens[s])
    BY PagedAssumption DEF TablesOK
  <2>2. BlocksToHold(lens[s]) \in Nat /\ BlocksToHold(lens[s]) <= lens[s]
    BY <2>1, HoldingBlocks
  <2> QED BY <2>1, <2>2, PagedAssumption
<1> QED BY <1>1 DEF TablesOK, AreTables

LEMMA TablesFactsNext ==
    ASSUME TablesOK'
    PROVE  AreTables(tables')
<1>1. ASSUME NEW s \in DOMAIN tables'
      PROVE  Len(tables'[s]) <= MaxTokens
  <2>1. /\ lens'[s] \in Nat /\ lens'[s] <= MaxTokens
        /\ Len(tables'[s]) = BlocksToHold(lens'[s])
    BY PagedAssumption DEF TablesOK, BlocksToHold
  <2>2. BlocksToHold(lens'[s]) \in Nat /\ BlocksToHold(lens'[s]) <= lens'[s]
    BY <2>1, HoldingBlocks
  <2> QED BY <2>1, <2>2, PagedAssumption
<1> QED BY <1>1 DEF TablesOK, AreTables

(* The reference count of a block, in the terms of the counting lemmas. *)
LEMMA RefsHeld ==
    RefsExact <=>
        \A b \in Blocks : refs[b] = Cardinality(EntriesIn(tables, b))
                                     + Count(built, b) + Count(todo, b)
  BY DEF RefsExact, Entries, Places, EntriesIn, Count, Occurrences

LEMMA RefsHeldNext ==
    RefsExact' <=>
        \A b \in Blocks : refs'[b] = Cardinality(EntriesIn(tables', b))
                                     + Count(built', b) + Count(todo', b)
  BY DEF RefsExact, Entries, Places, EntriesIn, Count, Occurrences

LEMMA HeldType ==
    ASSUME TablesOK, ListsOK, NEW b
    PROVE  /\ Cardinality(EntriesIn(tables, b)) \in Nat
           /\ Count(built, b) \in Nat /\ Count(todo, b) \in Nat
<1>1. IsFiniteSet(EntriesIn(tables, b))
  <2>1. CASE Seqs = {}
    <3>1. EntriesIn(tables, b) = {}
      BY <2>1 DEF EntriesIn
    <3> QED BY <3>1, FS_EmptySet
  <2>2. CASE Seqs # {}
    BY <2>2, TablesFacts, EntriesSplit
  <2> QED BY <2>1, <2>2
<1> QED BY <1>1, FS_CardinalityType, CountType DEF ListsOK

LEMMA EntriesTypeNext ==
    ASSUME TablesOK', NEW b
    PROVE  Cardinality(EntriesIn(tables', b)) \in Nat
<1>1. IsFiniteSet(EntriesIn(tables', b))
  <2>1. CASE Seqs = {}
    <3>1. EntriesIn(tables', b) = {}
      BY <2>1 DEF EntriesIn
    <3> QED BY <3>1, FS_EmptySet
  <2>2. CASE Seqs # {}
    BY <2>2, TablesFactsNext, EntriesSplit
  <2> QED BY <2>1, <2>2
<1> QED BY <1>1, FS_CardinalityType

(* A block that a table, or a list of the call in progress, names is referenced. *)
LEMMA NamedIsReferenced ==
    ASSUME PoolType, TablesOK, ListsOK, RefsExact, NEW b \in Blocks,
           \/ \E s \in DOMAIN tables : \E i \in 1..Len(tables[s]) : tables[s][i] = b
           \/ \E i \in 1..Len(built) : built[i] = b
           \/ \E i \in 1..Len(todo) : todo[i] = b
    PROVE  refs[b] > 0
<1>1. /\ refs[b] = Cardinality(EntriesIn(tables, b)) + Count(built, b) + Count(todo, b)
      /\ Cardinality(EntriesIn(tables, b)) \in Nat
      /\ Count(built, b) \in Nat /\ Count(todo, b) \in Nat
  BY RefsHeld, HeldType
<1>2. ASSUME NEW s \in DOMAIN tables, NEW i \in 1..Len(tables[s]), tables[s][i] = b
      PROVE  Cardinality(EntriesIn(tables, b)) > 0
  <2>1. s \in Seqs /\ tables[s] \in Seq(Blocks) /\ ListOf(tables, s) = tables[s]
    BY DEF TablesOK, ListOf
  <2>2. Count(tables[s], b) # 0
    BY <2>1, <1>2, CountType
  <2>3. /\ Cardinality(EntriesOfOthers(tables, s, b)) \in Nat
        /\ Count(tables[s], b) \in Nat
        /\ Cardinality(EntriesIn(tables, b))
           = Cardinality(EntriesOfOthers(tables, s, b)) + Count(tables[s], b)
    BY <2>1, TablesFacts, EntriesSplit
  <2> QED BY <2>2, <2>3
<1>3. ASSUME NEW i \in 1..Len(built), built[i] = b PROVE Count(built, b) # 0
  BY <1>3, CountType DEF ListsOK
<1>4. ASSUME NEW i \in 1..Len(todo), todo[i] = b PROVE Count(todo, b) # 0
  BY <1>4, CountType DEF ListsOK
<1> QED BY <1>1, <1>2, <1>3, <1>4
-----------------------------------------------------------------------------
(***************************************************************************)
(* The pool under each of the things that can happen to a block.           *)
(***************************************************************************)
LEMMA TakenFacts ==
    ASSUME PoolOK, CanTake
    PROVE  /\ Taken \in Blocks /\ refs[Taken] = 0
           /\ free = << >> => Taken \in ToSet(evictable)
           /\ free # << >> => Taken \in ToSet(free)
<1>1. CASE free # << >>
  <2>1. Taken \in Blocks /\ Taken \in ToSet(free)
    BY <1>1, HeadTailProperties, TailElements DEF Taken, PoolOK, PoolType, Listed
  <2> QED BY <2>1, <1>1 DEF PoolOK, Listed
<1>2. CASE free = << >>
  <2>1. evictable # << >>
    BY <1>2 DEF CanTake
  <2>2. Taken \in Blocks /\ Taken \in ToSet(evictable)
    BY <1>2, <2>1, HeadTailProperties, TailElements DEF Taken, PoolOK, PoolType, Listed
  <2> QED BY <2>2, <1>2 DEF PoolOK, Listed
<1> QED BY <1>1, <1>2

(* A block is taken from the free list, or from the evictable ones, which
   also leaves the index. *)
LEMMA TakeBlockPool ==
    ASSUME PoolOK, NEW contents \in CellsType, NEW prefix \in HashedPrefixes,
           TakeBlock(contents, prefix),
           prefix # << >> => contents = LastBlock(prefix),
           refs' \in [Blocks -> Nat], refs'[Taken] # 0,
           \A b \in Blocks \ {Taken} : refs'[b] = 0 <=> refs[b] = 0
    PROVE  PoolOK'
<1>t. PICK t : t = Taken
  OBVIOUS
<1>0. CanTake
  BY DEF TakeBlock
<1>1. /\ t \in Blocks /\ refs[t] = 0
      /\ free = << >> => t \in ToSet(evictable)
      /\ free # << >> => t \in ToSet(free)
  BY <1>0, <1>t, TakenFacts
<1>2. /\ free' = IF free # << >> THEN Tail(free) ELSE free
      /\ evictable' = IF free = << >> THEN Tail(evictable) ELSE evictable
      /\ free = << >> => evictable # << >>
      /\ cells' = [cells EXCEPT ![t] = contents]
      /\ published' = [published EXCEPT ![t] = prefix]
      /\ index' = IF prefix = << >> THEN IndexAfterEviction
                  ELSE Put(IndexAfterEviction, Key(prefix), t)
  BY <1>t DEF TakeBlock, CanTake, EvictableAfterTake, Evicting
<1>3. /\ free \in Seq(Blocks) /\ evictable \in Seq(Blocks)
      /\ IsInjective(free) /\ IsInjective(evictable)
      /\ ToSet(free) \cap ToSet(evictable) = {}
  BY DEF PoolOK, PoolType, Listed
<1>4. /\ free' \in Seq(Blocks) /\ IsInjective(free')
      /\ ToSet(free') = ToSet(free) \ {t}
  <2>1. CASE free # << >>
    <3>1. Tail(free) \in Seq(Blocks)
      BY <1>3, <2>1, HeadTailProperties
    <3>2. ToSet(Tail(free)) = ToSet(free) \ {Head(free)} /\ IsInjective(Tail(free))
      BY <1>3, <2>1, TailElements
    <3> QED BY <3>1, <3>2, <2>1, <1>t, <1>2 DEF Taken
  <2>2. CASE free = << >>
    <3>1. t \notin ToSet(free)
      BY <2>2, <1>1, <1>3
    <3> QED BY <3>1, <2>2, <1>2, <1>3
  <2> QED BY <2>1, <2>2
<1>5. /\ evictable' \in Seq(Blocks) /\ IsInjective(evictable')
      /\ ToSet(evictable') = ToSet(evictable) \ {t}
  <2>1. CASE free = << >>
    <3>0. evictable # << >> /\ t = Head(evictable)
      BY <2>1, <1>2, <1>t DEF Taken
    <3>1. Tail(evictable) \in Seq(Blocks)
      BY <1>3, <3>0, HeadTailProperties
    <3>2. /\ ToSet(Tail(evictable)) = ToSet(evictable) \ {Head(evictable)}
          /\ IsInjective(Tail(evictable))
      BY <1>3, <3>0, TailElements
    <3> QED BY <3>0, <3>1, <3>2, <2>1, <1>2
  <2>2. CASE free # << >>
    <3>1. t \notin ToSet(evictable)
      BY <2>2, <1>1, <1>3
    <3> QED BY <3>1, <2>2, <1>2, <1>3
  <2> QED BY <2>1, <2>2
<1>6. \A b \in Blocks : /\ cells'[b] = IF b = t THEN contents ELSE cells[b]
                        /\ published'[b] = IF b = t THEN prefix ELSE published[b]
  BY <1>2 DEF PoolOK, PoolType
<1>7. \A h \in DOMAIN IndexAfterEviction :
         /\ h \in DOMAIN index /\ IndexAfterEviction[h] = index[h]
         /\ index[h] # t
  <2>1. CASE Evicting
    <3>1. IndexAfterEviction = [h \in DOMAIN index \ {Key(published[t])} |-> index[h]]
      BY <2>1, <1>t DEF IndexAfterEviction, Pop
    <3>2. \A h \in DOMAIN index : Key(published[index[h]]) = h
      BY DEF PoolOK, IndexSound
    <3> QED BY <3>1, <3>2
  <2>2. CASE ~ Evicting
    <3>1. IndexAfterEviction = index
      BY <2>2 DEF IndexAfterEviction
    <3>2. free # << >>
      BY <2>2, <1>0 DEF Evicting, CanTake
    <3>3. published[t] = << >>
      BY <3>2, <1>1 DEF PoolOK, Listed
    <3>4. \A h \in DOMAIN index : published[index[h]] # << >>
      BY DEF PoolOK, IndexSound
    <3> QED BY <3>1, <3>3, <3>4
  <2> QED BY <2>1, <2>2
<1>8. \A h \in DOMAIN index' :
         \/ h = Key(prefix) /\ prefix # << >> /\ index'[h] = t
         \/ h \in DOMAIN index /\ index'[h] = index[h] /\ index[h] # t
  BY <1>2, <1>7 DEF Put
<1>9. PoolType'
  <2>1. cells' \in [Blocks -> CellsType]
    BY <1>2 DEF PoolOK, PoolType
  <2>2. published' \in [Blocks -> HashedPrefixes]
    BY <1>2 DEF PoolOK, PoolType
  <2>3. \A h \in DOMAIN index' : index'[h] \in Blocks
    BY <1>1, <1>8 DEF PoolOK, PoolType
  <2> QED BY <1>4, <1>5, <2>1, <2>2, <2>3 DEF PoolType
<1>10. Listed'
  <2>1. \A b \in Blocks : refs'[b] = 0 <=> b \in ToSet(free') \cup ToSet(evictable')
    <3> SUFFICES ASSUME NEW b \in Blocks
                 PROVE  refs'[b] = 0 <=> b \in ToSet(free') \cup ToSet(evictable')
      OBVIOUS
    <3>1. CASE b = t
      BY <3>1, <1>t, <1>4, <1>5
    <3>2. CASE b # t
      BY <3>2, <1>t, <1>4, <1>5 DEF PoolOK, Listed
    <3> QED BY <3>1, <3>2
  <2>2. ToSet(free) \subseteq Blocks /\ ToSet(evictable) \subseteq Blocks
    BY <1>3, LenProperties DEF ToSet
  <2>3. \A b \in ToSet(evictable') : published'[b] # << >>
    BY <1>5, <1>6, <2>2 DEF PoolOK, Listed
  <2>4. \A b \in ToSet(free') : published'[b] = << >>
    BY <1>4, <1>6, <2>2 DEF PoolOK, Listed
  <2> QED BY <1>3, <1>4, <1>5, <2>1, <2>3, <2>4 DEF Listed
<1>11. IndexSound'
  <2>1. \A h \in DOMAIN index : /\ index[h] \in Blocks
                               /\ published[index[h]] # << >>
                               /\ Key(published[index[h]]) = h
    BY DEF PoolOK, PoolType, IndexSound
  <2> SUFFICES ASSUME NEW h \in DOMAIN index'
               PROVE  published'[index'[h]] # << >> /\ Key(published'[index'[h]]) = h
    BY DEF IndexSound, Key
  <2> QED BY <2>1, <1>1, <1>6, <1>8
<1>12. PublishedImmutable'
  <2> SUFFICES ASSUME NEW b \in Blocks, published'[b] # << >>
               PROVE  cells'[b] = LastBlock(published'[b])
    BY DEF PublishedImmutable, LastBlock
  <2>1. published[b] # << >> => cells[b] = LastBlock(published[b])
    BY DEF PoolOK, PublishedImmutable
  <2> QED BY <2>1, <1>6
<1> QED BY <1>9, <1>10, <1>11, <1>12 DEF PoolOK

(* A block gains a reference; if nobody held it, it leaves the evictable. *)
LEMMA AcquirePool ==
    ASSUME PoolOK, NEW b \in Blocks, Acquire(b),
           refs[b] = 0 => published[b] # << >>
    PROVE  PoolOK'
<1>1. /\ refs' = [refs EXCEPT ![b] = @ + 1]
      /\ evictable' = IF refs[b] = 0 THEN RemoveFirst(evictable, b) ELSE evictable
      /\ UNCHANGED <<cells, published, free, index>>
  BY DEF Acquire, Referenced
<1>2. /\ refs \in [Blocks -> Nat]
      /\ free \in Seq(Blocks) /\ evictable \in Seq(Blocks)
      /\ IsInjective(free) /\ IsInjective(evictable)
      /\ ToSet(free) \cap ToSet(evictable) = {}
  BY DEF PoolOK, PoolType, Listed
<1>3. /\ b \notin ToSet(free)
      /\ refs[b] = 0 => b \in ToSet(evictable)
      /\ refs[b] # 0 => b \notin ToSet(evictable)
  BY DEF PoolOK, Listed
<1>4. /\ evictable' \in Seq(Blocks) /\ IsInjective(evictable')
      /\ ToSet(evictable') = ToSet(evictable) \ {b}
  <2>1. CASE refs[b] = 0
    <3>1. /\ RemoveFirst(evictable, b) \in Seq(Blocks)
          /\ IsInjective(RemoveFirst(evictable, b))
          /\ ToSet(RemoveFirst(evictable, b)) = ToSet(evictable) \ {b}
      BY <1>2, <1>3, <2>1, RemoveFirstProperties
    <3> QED BY <3>1, <2>1, <1>1
  <2>2. CASE refs[b] # 0
    BY <2>2, <1>1, <1>2, <1>3
  <2> QED BY <2>1, <2>2
<1>5. refs' \in [Blocks -> Nat] /\ refs'[b] # 0 /\ \A a \in Blocks \ {b} : refs'[a] = refs[a]
  BY <1>1, <1>2
<1>6. PoolType'
  BY <1>1, <1>4, <1>5 DEF PoolOK, PoolType
<1>7. Listed'
  <2>1. \A a \in Blocks : refs'[a] = 0 <=> a \in ToSet(free') \cup ToSet(evictable')
    BY <1>1, <1>3, <1>4, <1>5 DEF PoolOK, Listed
  <2> QED BY <2>1, <1>1, <1>2, <1>4 DEF PoolOK, Listed
<1>8. IndexSound' /\ PublishedImmutable'
  BY <1>1 DEF PoolOK, IndexSound, PublishedImmutable, Key, LastBlock
<1> QED BY <1>6, <1>7, <1>8 DEF PoolOK

(* A block loses a reference; if it was the last one, it becomes evictable
   where it can still be found, and free where it cannot. *)
LEMMA ReleasePool ==
    ASSUME PoolOK, ListsOK, Release, refs[Head(todo)] > 0
    PROVE  /\ PoolOK'
           /\ Head(todo) \in Blocks
           /\ refs' = [refs EXCEPT ![Head(todo)] = @ - 1]
<1>b. PICK b : b = Head(todo)
  OBVIOUS
<1>1. /\ todo # << >>
      /\ refs' = [refs EXCEPT ![b] = @ - 1]
      /\ IF refs[b] = 1 /\ published[b] # << >>
         THEN evictable' = Append(evictable, b) ELSE UNCHANGED evictable
      /\ IF refs[b] = 1 /\ published[b] = << >>
         THEN free' = Append(free, b) /\ cells' = [cells EXCEPT ![b] = NoTokens]
         ELSE UNCHANGED <<free, cells>>
      /\ UNCHANGED <<published, index>>
  BY <1>b DEF Release
<1>2. b \in Blocks
  BY <1>1, <1>b, HeadTailProperties DEF ListsOK
<1>3. /\ refs \in [Blocks -> Nat] /\ refs[b] > 0
      /\ free \in Seq(Blocks) /\ evictable \in Seq(Blocks)
      /\ IsInjective(free) /\ IsInjective(evictable)
      /\ ToSet(free) \cap ToSet(evictable) = {}
      /\ b \notin ToSet(free) /\ b \notin ToSet(evictable)
  BY <1>2, <1>b DEF PoolOK, PoolType, Listed
<1> DEFINE parked == refs[b] = 1 /\ published[b] # << >>
           freed == refs[b] = 1 /\ published[b] = << >>
<1>4. /\ evictable' \in Seq(Blocks) /\ IsInjective(evictable')
      /\ ToSet(evictable') = IF parked THEN ToSet(evictable) \cup {b} ELSE ToSet(evictable)
  <2>1. CASE parked
    <3>1. /\ ToSet(Append(evictable, b)) = ToSet(evictable) \cup {b}
          /\ IsInjective(Append(evictable, b))
      BY <1>2, <1>3, AppendElements
    <3>2. Append(evictable, b) \in Seq(Blocks)
      BY <1>2, <1>3, AppendProperties
    <3> QED BY <3>1, <3>2, <2>1, <1>1
  <2>2. CASE ~ parked
    BY <2>2, <1>1, <1>3
  <2> QED BY <2>1, <2>2
<1>5. /\ free' \in Seq(Blocks) /\ IsInjective(free')
      /\ ToSet(free') = IF freed THEN ToSet(free) \cup {b} ELSE ToSet(free)
      /\ cells' \in [Blocks -> CellsType]
      /\ \A a \in Blocks : cells'[a] # cells[a] => published[a] = << >>
  <2>0. cells \in [Blocks -> CellsType] /\ NoTokens \in CellsType
    BY DEF PoolOK, PoolType, CellsType, NoTokens
  <2>1. CASE freed
    <3>1. /\ ToSet(Append(free, b)) = ToSet(free) \cup {b}
          /\ IsInjective(Append(free, b))
      BY <1>2, <1>3, AppendElements
    <3>2. Append(free, b) \in Seq(Blocks)
      BY <1>2, <1>3, AppendProperties
    <3>3. cells' = [cells EXCEPT ![b] = NoTokens] /\ published[b] = << >>
      BY <2>1, <1>1
    <3>4. cells' \in [Blocks -> CellsType]
      BY <3>3, <2>0
    <3>5. \A a \in Blocks : cells'[a] # cells[a] => published[a] = << >>
      BY <3>3, <2>0
    <3> QED BY <3>1, <3>2, <3>4, <3>5, <2>1, <1>1
  <2>2. CASE ~ freed
    BY <2>0, <2>2, <1>1, <1>3
  <2> QED BY <2>1, <2>2
<1>6. /\ refs' \in [Blocks -> Nat]
      /\ refs'[b] = refs[b] - 1
      /\ \A a \in Blocks \ {b} : refs'[a] = refs[a]
  BY <1>1, <1>2, <1>3
<1>7. PoolType'
  BY <1>1, <1>4, <1>5, <1>6 DEF PoolOK, PoolType
<1>8. Listed'
  <2>1. ASSUME NEW a \in Blocks
        PROVE  refs'[a] = 0 <=> a \in ToSet(free') \cup ToSet(evictable')
    <3>1. CASE a = b
      <4>1. refs'[a] = 0 <=> refs[b] = 1
        BY <3>1, <1>2, <1>3, <1>6
      <4> QED BY <4>1, <3>1, <1>3, <1>4, <1>5
    <3>2. CASE a # b
      BY <3>2, <1>4, <1>5, <1>6 DEF PoolOK, Listed
    <3> QED BY <3>1, <3>2
  <2>2. ToSet(free') \cap ToSet(evictable') = {}
    BY <1>3, <1>4, <1>5
  <2>3. \A a \in ToSet(evictable') : published'[a] # << >>
    BY <1>1, <1>4 DEF PoolOK, Listed
  <2>4. \A a \in ToSet(free') : published'[a] = << >>
    BY <1>1, <1>5 DEF PoolOK, Listed
  <2> QED BY <1>4, <1>5, <2>1, <2>2, <2>3, <2>4 DEF Listed
<1>9. IndexSound'
  BY <1>1 DEF PoolOK, IndexSound, Key
<1>10. PublishedImmutable'
  BY <1>1, <1>5 DEF PoolOK, PublishedImmutable, LastBlock
<1> QED BY <1>1, <1>2, <1>b, <1>7, <1>8, <1>9, <1>10 DEF PoolOK

-----------------------------------------------------------------------------
(***************************************************************************)
(* The tables, when one sequence gets another list of blocks.              *)
(***************************************************************************)
LEMMA TableStored ==
    ASSUME TablesOK, NEW s \in Seqs, NEW t \in Seq(Blocks), NEW n \in 0..MaxTokens,
           Len(t) = BlocksToHold(n),
           DOMAIN tables' = DOMAIN tables \cup {s},
           DOMAIN lens' = DOMAIN tables \cup {s},
           \A r \in DOMAIN tables' : tables'[r] = IF r = s THEN t ELSE tables[r],
           \A r \in DOMAIN tables' : lens'[r] = IF r = s THEN n ELSE lens[r]
    PROVE  /\ TablesOK'
           /\ \A b : Cardinality(EntriesIn(tables', b)) + Count(ListOf(tables, s), b)
                     = Cardinality(EntriesIn(tables, b)) + Count(t, b)
<1>1. TablesOK'
  <2>1. IsFiniteSet(DOMAIN tables')
    <3>1. IsFiniteSet(DOMAIN tables)
      BY DEF TablesOK
    <3>2. IsFiniteSet(DOMAIN tables \cup {s})
      BY <3>1, FS_AddElement, Zenon
    <3> QED BY <3>2
  <2>2. /\ DOMAIN tables \subseteq Seqs
        /\ \A r \in DOMAIN tables : /\ tables[r] \in Seq(Blocks)
                                    /\ lens[r] \in 0..MaxTokens
                                    /\ Len(tables[r]) = BlocksToHold(lens[r])
    BY DEF TablesOK
  <2>3. ASSUME NEW r \in DOMAIN tables'
        PROVE  /\ tables'[r] \in Seq(Blocks)
               /\ lens'[r] \in 0..MaxTokens
               /\ Len(tables'[r]) = BlocksToHold(lens'[r])
    <3>1. CASE r = s
      BY <3>1
    <3>2. CASE r # s
      BY <3>2, <2>2
    <3> QED BY <3>1, <3>2
  <2> QED BY <2>1, <2>2, <2>3 DEF TablesOK, BlocksToHold
<1>2. AreTables(tables) /\ AreTables(tables')
  BY <1>1, TablesFacts, TablesFactsNext
<1>3. ListOf(tables', s) = t
  BY DEF ListOf
<1>4. ASSUME NEW b
      PROVE  Cardinality(EntriesIn(tables', b)) + Count(ListOf(tables, s), b)
             = Cardinality(EntriesIn(tables, b)) + Count(t, b)
  <2>1. PICK U : U = tables'
    OBVIOUS
  <2>2. \A r \in Seqs \ {s} :
           /\ r \in DOMAIN tables <=> r \in DOMAIN U
           /\ r \in DOMAIN tables => tables[r] = U[r]
    BY <2>1
  <2>3. Cardinality(EntriesIn(U, b)) + Count(ListOf(tables, s), b)
        = Cardinality(EntriesIn(tables, b)) + Count(ListOf(U, s), b)
    BY <1>2, <2>1, <2>2, TableReplaced
  <2> QED BY <2>1, <2>3, <1>3
<1> QED BY <1>1, <1>4

LEMMA TableDropped ==
    ASSUME TablesOK, NEW s \in Seqs,
           tables' = Pop(tables, s), lens' = Pop(lens, s)
    PROVE  /\ TablesOK' /\ DOMAIN tables' = DOMAIN tables \ {s}
           /\ \A r \in DOMAIN tables' : tables'[r] = tables[r] /\ lens'[r] = lens[r]
           /\ \A b : Cardinality(EntriesIn(tables', b)) + Count(ListOf(tables, s), b)
                     = Cardinality(EntriesIn(tables, b))
<1>0. /\ DOMAIN tables' = DOMAIN tables \ {s}
      /\ \A r \in DOMAIN tables' : tables'[r] = tables[r] /\ lens'[r] = lens[r]
      /\ DOMAIN lens' = DOMAIN tables'
  BY DEF Pop, TablesOK
<1>1. TablesOK'
  <2>0. IsFiniteSet(DOMAIN tables)
    BY DEF TablesOK
  <2>1. IsFiniteSet(DOMAIN tables \ {s})
    BY <2>0, FS_RemoveElement
  <2> QED BY <1>0, <2>1 DEF TablesOK, BlocksToHold
<1>2. AreTables(tables) /\ AreTables(tables')
  BY <1>1, TablesFacts, TablesFactsNext
<1>3. ListOf(tables', s) = << >>
  BY <1>0 DEF ListOf
<1>4. ASSUME NEW b
      PROVE  Cardinality(EntriesIn(tables', b)) + Count(ListOf(tables, s), b)
             = Cardinality(EntriesIn(tables, b))
  <2>1. PICK U : U = tables'
    OBVIOUS
  <2>2. \A r \in Seqs \ {s} :
           /\ r \in DOMAIN tables <=> r \in DOMAIN U
           /\ r \in DOMAIN tables => tables[r] = U[r]
    BY <2>1, <1>0
  <2>3. Cardinality(EntriesIn(U, b)) + Count(ListOf(tables, s), b)
        = Cardinality(EntriesIn(tables, b)) + Count(ListOf(U, s), b)
    BY <1>2, <2>1, <2>2, TableReplaced
  <2>4. Count(ListOf(U, s), b) = 0
    BY <2>1, <1>3, CountEmpty
  <2>5. Cardinality(EntriesIn(tables, b)) \in Nat
    BY <1>2, EntriesSplit
  <2> QED BY <2>1, <2>3, <2>4, <2>5
<1> QED BY <1>0, <1>1, <1>4

(* What a call gives up before it starts: nothing but the table moves. *)
LEMMA GivenUp ==
    ASSUME IInv, call = NoCall, todo = << >>, NEW s \in Seqs, GiveUp(s),
           UNCHANGED <<poolVars, built>>
    PROVE  /\ PoolOK' /\ TablesOK' /\ ListsOK' /\ RefsExact'
           /\ built' = << >>
           /\ DOMAIN tables' = DOMAIN tables \ {s}
           /\ \A r \in DOMAIN tables' : tables'[r] = tables[r] /\ lens'[r] = lens[r]
<1>1. PoolOK'
  BY DEF IInv, poolVars, PoolOK, PoolType, Listed, IndexSound, PublishedImmutable, Key, LastBlock
<1>2. /\ tables' = Pop(tables, s) /\ lens' = Pop(lens, s)
      /\ todo' = ListOf(tables, s)
      /\ refs' = refs /\ built' = built
  BY DEF GiveUp, TableOf, ListOf, poolVars
<1>3. /\ TablesOK' /\ DOMAIN tables' = DOMAIN tables \ {s}
      /\ \A r \in DOMAIN tables' : tables'[r] = tables[r] /\ lens'[r] = lens[r]
      /\ \A b : Cardinality(EntriesIn(tables', b)) + Count(ListOf(tables, s), b)
                = Cardinality(EntriesIn(tables, b))
  BY <1>2, TableDropped DEF IInv
<1>4. ListsOK'
  BY <1>2, EmptySeq DEF IInv, ListsOK, ListOf, TablesOK
<1>5. built = << >>
  BY NotInCall DEF IInv
<1>6. RefsExact'
  <2> SUFFICES ASSUME NEW b \in Blocks
               PROVE  refs'[b] = Cardinality(EntriesIn(tables', b))
                                 + Count(built', b) + Count(todo', b)
    BY RefsHeldNext
  <2>1. refs[b] = Cardinality(EntriesIn(tables, b)) + Count(built, b) + Count(todo, b)
    BY RefsHeld DEF IInv
  <2>2. /\ Cardinality(EntriesIn(tables', b)) + Count(todo', b)
           = Cardinality(EntriesIn(tables, b))
        /\ Count(todo, b) = 0 /\ Count(built, b) = 0
    BY <1>2, <1>3, <1>5, CountEmpty
  <2>3. Cardinality(EntriesIn(tables', b)) \in Nat /\ Count(todo', b) \in Nat
    <3>1. todo' \in Seq(Blocks)
      BY <1>4 DEF ListsOK
    <3>2. Count(todo', b) \in Nat
      BY <3>1, CountType
    <3>3. AreTables(tables')
      BY <1>3, TablesFactsNext
    <3>4. Cardinality(EntriesIn(tables', b)) \in Nat
      BY <3>3, EntriesSplit, FS_CardinalityType
    <3> QED BY <3>2, <3>4
  <2> QED BY <2>1, <2>2, <2>3, <1>2, <1>5, CountEmpty
<1> QED BY <1>1, <1>2, <1>3, <1>4, <1>5, <1>6

-----------------------------------------------------------------------------
(***************************************************************************)
(* Each action preserves the invariant: first the calls as they begin.     *)
(***************************************************************************)
LEMMA PoolUnchanged ==
    ASSUME PoolOK, UNCHANGED poolVars
    PROVE  PoolOK'
  BY DEF poolVars, PoolOK, PoolType, Listed, IndexSound, PublishedImmutable, Key, LastBlock

LEMMA FreeSeqStep ==
    ASSUME IInv, NEW s \in Seqs, FreeSeq(s)
    PROVE  IInv'
<1>1. /\ call = NoCall /\ todo = << >> /\ GiveUp(s)
      /\ UNCHANGED <<poolVars, call, built>>
  BY DEF FreeSeq, Idle
<1>2. /\ PoolOK' /\ TablesOK' /\ ListsOK' /\ RefsExact'
      /\ built' = << >>
  BY <1>1, GivenUp
<1>3. CallOK'
  BY <1>1, <1>2 DEF CallOK, NoCall
<1> QED BY <1>2, <1>3 DEF IInv

LEMMA AllocateStep ==
    ASSUME IInv, NEW s \in Seqs, NEW toks \in SeqOf(Words, MaxTokens),
           NEW limit \in 0..WholeBlocks(Len(toks)), Allocate(s, toks, limit)
    PROVE  IInv'
<1>1. /\ call = NoCall /\ todo = << >> /\ GiveUp(s)
      /\ UNCHANGED <<poolVars, built>>
      /\ call' = CallOf("share", s, s, toks, Len(toks), limit)
  BY DEF Allocate, Idle
<1>2. /\ PoolOK' /\ TablesOK' /\ ListsOK' /\ RefsExact'
      /\ built' = << >> /\ DOMAIN tables' = DOMAIN tables \ {s}
  BY <1>1, GivenUp
<1>3. Len(toks) \in 0..MaxTokens
  BY ShortSequences, PagedAssumption, LenProperties
<1>4. /\ WholeBlocks(Len(toks)) \in Nat /\ WholeBlocks(Len(toks)) <= Len(toks)
      /\ BlocksToHold(Len(toks)) \in Nat
  BY <1>3, Division, HoldingBlocks
<1>5. /\ limit \in 0..MaxTokens /\ limit <= WholeBlocks(Len(toks))
      /\ Len(built') = 0
  BY <1>2, <1>3, <1>4, PagedAssumption, EmptySeq
<1>6. /\ call' \in CallRecords
      /\ call'.op = "share" /\ call'.seq = s /\ call'.toks = toks
      /\ call'.n = Len(toks) /\ call'.limit = limit
  BY <1>1, <1>3, <1>5 DEF CallOf, CallRecords
<1>7. InCall'
  <2>1. Allocating'
    BY <1>2, <1>4, <1>5, <1>6 DEF Allocating, WholeBlocks, BlocksToHold
  <2> QED BY <2>1, <1>6 DEF InCall, CallRecords
<1> QED BY <1>2, <1>7 DEF IInv, CallOK

(* share_prefix and fork, which differ in how much they may share. *)
LEMMA CopyStep ==
    ASSUME IInv, NEW s \in Seqs, NEW from \in Seqs, from # s, from \in DOMAIN tables,
           NEW n \in 0..MaxTokens, n <= lens[from],
           NEW limit \in {WholeBlocks(n), BlocksToHold(n)},
           Idle, GiveUp(s), UNCHANGED <<poolVars, built>>,
           call' = CallOf("copy", s, from, << >>, n, limit)
    PROVE  IInv'
<1>1. /\ PoolOK' /\ TablesOK' /\ ListsOK' /\ RefsExact'
      /\ built' = << >> /\ DOMAIN tables' = DOMAIN tables \ {s}
      /\ \A r \in DOMAIN tables' : tables'[r] = tables[r] /\ lens'[r] = lens[r]
  BY GivenUp DEF Idle
<1>2. /\ WholeBlocks(n) \in Nat /\ WholeBlocks(n) <= BlocksToHold(n)
      /\ BlocksToHold(n) \in Nat /\ BlocksToHold(n) <= n
  BY PagedAssumption, Division, HoldingBlocks
<1>3. limit \in 0..MaxTokens /\ << >> \in SeqOf(Words, MaxTokens) /\ Len(built') = 0
  <2>1. << >> \in SeqOf(Words, MaxTokens)
    <3>1. << >> \in Seq(Words) /\ Len(<< >>) <= MaxTokens
      BY EmptySeq, PagedAssumption
    <3>2. MaxTokens \in Nat
      BY PagedAssumption
    <3> QED BY <3>1, <3>2, ShortSequences, Zenon
  <2>2. limit \in Nat /\ limit <= n
    BY <1>2, PagedAssumption
  <2> QED BY <2>1, <2>2, <1>1, EmptySeq, PagedAssumption
<1>4. /\ call' \in CallRecords
      /\ call'.op = "copy" /\ call'.seq = s /\ call'.from = from
      /\ call'.n = n /\ call'.limit = limit
  BY <1>3 DEF CallOf, CallRecords
<1>5. InCall'
  <2>1. call'.from \in DOMAIN tables' /\ call'.n <= lens'[call'.from]
    BY <1>1, <1>4
  <2>2. Copying'
    BY <1>1, <1>2, <1>3, <1>4, <2>1 DEF Copying, WholeBlocks, BlocksToHold
  <2> QED BY <2>2, <1>4 DEF InCall, CallRecords
<1> QED BY <1>1, <1>5 DEF IInv, CallOK

LEMMA SharePrefixStep ==
    ASSUME IInv, NEW s \in Seqs, NEW from \in Seqs, NEW n \in 1..MaxTokens,
           SharePrefix(from, s, n)
    PROVE  IInv'
<1>1. /\ Idle /\ from # s /\ from \in DOMAIN tables
      /\ GiveUp(s)
      /\ call' = CallOf("copy", s, from, << >>, n, WholeBlocks(n))
      /\ UNCHANGED <<poolVars, built>>
  BY DEF SharePrefix
<1>2. n \in 0..MaxTokens /\ n <= lens[from]
  BY PagedAssumption DEF SharePrefix, LenOf, IInv, TablesOK
<1> QED BY <1>1, <1>2, CopyStep

LEMMA ForkStep ==
    ASSUME IInv, NEW s \in Seqs, NEW from \in Seqs, Fork(from, s)
    PROVE  IInv'
<1>1. /\ Idle /\ from # s /\ from \in DOMAIN tables
      /\ GiveUp(s)
      /\ call' = CallOf("copy", s, from, << >>, lens[from], Len(tables[from]))
      /\ UNCHANGED <<poolVars, built>>
  BY DEF Fork
<1>2. lens[from] \in 0..MaxTokens /\ Len(tables[from]) = BlocksToHold(lens[from])
  BY <1>1 DEF IInv, TablesOK
<1>3. PICK n \in 0..MaxTokens : n = lens[from]
  BY <1>2
<1>4. n <= lens[from] /\ call' = CallOf("copy", s, from, << >>, n, BlocksToHold(n))
  BY <1>1, <1>2, <1>3, PagedAssumption
<1> QED BY <1>1, <1>4, CopyStep

LEMMA TruncateStep ==
    ASSUME IInv, NEW s \in Seqs, NEW n \in 0..MaxTokens, Truncate(s, n)
    PROVE  IInv'
<1> DEFINE k == BlocksToHold(n)
           keep == SubSeq(tables[s], 1, k)
           rest == SubSeq(tables[s], k + 1, Len(tables[s]))
<1>1. /\ call = NoCall /\ todo = << >> /\ s \in DOMAIN tables
      /\ n <= lens[s] /\ n \in Nat
      /\ todo' = rest
      /\ tables' = IF keep = << >> THEN Pop(tables, s) ELSE Put(tables, s, keep)
      /\ lens' = IF keep = << >> THEN Pop(lens, s) ELSE Put(lens, s, n)
      /\ UNCHANGED <<poolVars, call, built>>
  BY PagedAssumption DEF Truncate, Idle, LenOf, IInv, TablesOK
<1>2. PoolOK' /\ refs' = refs /\ built' = built /\ call' = call
  BY <1>1, PoolUnchanged DEF IInv, poolVars
<1>3. /\ tables[s] \in Seq(Blocks) /\ Len(tables[s]) \in Nat
      /\ Len(tables[s]) = BlocksToHold(lens[s])
      /\ lens[s] \in Nat
  BY <1>1, LenProperties, PagedAssumption DEF IInv, TablesOK
<1>4. k \in 0..Len(tables[s])
  <2>1. k \in Nat
    BY <1>1, HoldingBlocks
  <2>2. BlocksToHold(n) <= BlocksToHold(lens[s])
    BY <1>1, <1>3, HoldingMonotone
  <2> QED BY <2>1, <2>2, <1>3
<1>5. keep \in Seq(Blocks) /\ rest \in Seq(Blocks) /\ Len(keep) = k
  <2>1. \A i \in 1..Len(tables[s]) : tables[s][i] \in Blocks
    BY <1>3, ElementOfSeq
  <2>2. \A i \in 1..k : tables[s][i] \in Blocks
    BY <2>1, <1>3, <1>4
  <2>3. \A i \in (k + 1)..Len(tables[s]) : tables[s][i] \in Blocks
    BY <2>1, <1>3, <1>4
  <2>4. keep \in Seq(Blocks) /\ Len(keep) = IF 1 <= k THEN k - 1 + 1 ELSE 0
    BY <2>2, <1>4, SubSeqProperties
  <2>5. rest \in Seq(Blocks)
    BY <2>3, <1>3, <1>4, SubSeqProperties
  <2> QED BY <2>4, <2>5, <1>3, <1>4
<1>6. \A b : Count(tables[s], b) = Count(keep, b) + Count(rest, b)
  BY <1>3, <1>4, CountCut, Zenon
<1> HIDE DEF k, keep, rest
<1>7. /\ TablesOK'
      /\ \A b : Cardinality(EntriesIn(tables', b)) + Count(tables[s], b)
                = Cardinality(EntriesIn(tables, b)) + Count(keep, b)
  <2>0. ListOf(tables, s) = tables[s]
    BY <1>1 DEF ListOf
  <2>1. CASE keep = << >>
    <3>1. /\ TablesOK'
          /\ \A b : Cardinality(EntriesIn(tables', b)) + Count(ListOf(tables, s), b)
                    = Cardinality(EntriesIn(tables, b))
      BY <1>1, <2>1, TableDropped DEF IInv
    <3>2. ASSUME NEW b
          PROVE  Cardinality(EntriesIn(tables, b)) + Count(keep, b)
                 = Cardinality(EntriesIn(tables, b))
      BY <2>1, CountEmpty, HeldType DEF IInv
    <3> QED BY <2>0, <3>1, <3>2
  <2>2. CASE keep # << >>
    <3>1. tables' = Put(tables, s, keep) /\ lens' = Put(lens, s, n)
      BY <2>2, <1>1
    <3>2. DOMAIN lens = DOMAIN tables
      BY DEF IInv, TablesOK
    <3>3. /\ DOMAIN tables' = DOMAIN tables \cup {s}
          /\ DOMAIN lens' = DOMAIN tables \cup {s}
          /\ \A r \in DOMAIN tables' : tables'[r] = IF r = s THEN keep ELSE tables[r]
          /\ \A r \in DOMAIN tables' : lens'[r] = IF r = s THEN n ELSE lens[r]
      BY <3>1, <3>2 DEF Put
    <3>4. PICK t \in Seq(Blocks) : t = keep
      BY <1>5
    <3>5. /\ TablesOK'
          /\ \A b : Cardinality(EntriesIn(tables', b)) + Count(ListOf(tables, s), b)
                    = Cardinality(EntriesIn(tables, b)) + Count(t, b)
      BY <1>5, <3>3, <3>4, TableStored DEF k, IInv
    <3> QED BY <2>0, <3>4, <3>5
  <2> QED BY <2>1, <2>2
<1>8. built = << >>
  BY <1>1, NotInCall DEF IInv
<1>9. ListsOK'
  BY <1>1, <1>2, <1>5 DEF IInv, ListsOK
<1>10. CallOK'
  BY <1>1, <1>2, <1>8 DEF CallOK, NoCall
<1>11. RefsExact'
  <2> SUFFICES ASSUME NEW b \in Blocks
               PROVE  refs'[b] = Cardinality(EntriesIn(tables', b))
                                 + Count(built', b) + Count(todo', b)
    BY RefsHeldNext
  <2>1. refs[b] = Cardinality(EntriesIn(tables, b)) + Count(built, b) + Count(todo, b)
    BY RefsHeld DEF IInv
  <2>2. /\ Cardinality(EntriesIn(tables', b)) + Count(tables[s], b)
           = Cardinality(EntriesIn(tables, b)) + Count(keep, b)
        /\ Count(tables[s], b) = Count(keep, b) + Count(rest, b)
        /\ Count(todo, b) = 0 /\ Count(built, b) = 0 /\ Count(built', b) = 0
    BY <1>1, <1>2, <1>6, <1>7, <1>8, CountEmpty
  <2>3. /\ Cardinality(EntriesIn(tables, b)) \in Nat
        /\ Count(keep, b) \in Nat /\ Count(rest, b) \in Nat
    BY <1>5, HeldType, CountType DEF IInv
  <2>4. Cardinality(EntriesIn(tables', b)) \in Nat
    BY <1>7, EntriesTypeNext
  <2> QED BY <2>1, <2>2, <2>3, <2>4, <1>1, <1>2
<1> QED BY <1>2, <1>7, <1>9, <1>10, <1>11 DEF IInv

LEMMA WriteStep ==
    ASSUME IInv, NEW s \in Seqs, NEW p \in 0..MaxTokens, NEW w \in Words, Write(s, p, w)
    PROVE  IInv'
<1>1. /\ call = NoCall /\ todo = << >>
      /\ p < MaxTokens
      /\ tables' = Put(tables, s, TableOf(s))
      /\ lens' = Put(lens, s, LenOf(s))
      /\ call' = CallOf("write", s, s, <<w>>, p, 0)
      /\ UNCHANGED <<poolVars, built, todo>>
  BY PagedAssumption DEF Write, Idle, LenOf, IInv, TablesOK
<1>2. PoolOK' /\ refs' = refs /\ built' = built /\ todo' = todo
  BY <1>1, PoolUnchanged DEF IInv, poolVars
<1>3. /\ TableOf(s) \in Seq(Blocks) /\ LenOf(s) \in 0..MaxTokens
      /\ Len(TableOf(s)) = BlocksToHold(LenOf(s))
      /\ TableOf(s) = ListOf(tables, s)
  <2>1. CASE s \in DOMAIN tables
    BY <2>1 DEF IInv, TablesOK, TableOf, LenOf, ListOf
  <2>2. CASE s \notin DOMAIN tables
    <3>1. TableOf(s) = << >> /\ LenOf(s) = 0 /\ ListOf(tables, s) = << >>
      BY <2>2 DEF IInv, TablesOK, TableOf, LenOf, ListOf
    <3>2. BlocksToHold(0) = 0
      BY HoldingBlocks
    <3> QED BY <3>1, <3>2, EmptySeq, PagedAssumption
  <2> QED BY <2>1, <2>2
<1>4. DOMAIN lens = DOMAIN tables
  BY DEF IInv, TablesOK
<1>5. PICK t \in Seq(Blocks) : t = TableOf(s)
  BY <1>3
<1>6. PICK n \in 0..MaxTokens : n = LenOf(s)
  BY <1>3
<1>7. /\ DOMAIN tables' = DOMAIN tables \cup {s}
      /\ DOMAIN lens' = DOMAIN tables \cup {s}
      /\ \A r \in DOMAIN tables' : tables'[r] = IF r = s THEN t ELSE tables[r]
      /\ \A r \in DOMAIN tables' : lens'[r] = IF r = s THEN n ELSE lens[r]
      /\ Len(t) = BlocksToHold(n)
  BY <1>1, <1>3, <1>4, <1>5, <1>6 DEF Put
<1>8. /\ TablesOK'
      /\ \A b : Cardinality(EntriesIn(tables', b)) + Count(t, b)
                = Cardinality(EntriesIn(tables, b)) + Count(t, b)
  BY <1>3, <1>5, <1>7, TableStored DEF IInv
<1>9. built = << >>
  BY <1>1, NotInCall DEF IInv
<1>10. ListsOK'
  BY <1>2 DEF IInv, ListsOK
<1>11. CallOK'
  <2>1. 1 <= MaxTokens
    BY <1>1, PagedAssumption
  <2>2. <<w>> \in SeqOf(Words, MaxTokens)
    <3>1. <<w>> \in Seq(Words) /\ Len(<<w>>) <= MaxTokens
      BY <2>1
    <3>2. MaxTokens \in Nat
      BY PagedAssumption
    <3> QED BY <3>1, <3>2, ShortSequences, Zenon
  <2>3. /\ call' \in CallRecords
        /\ call'.op = "write" /\ call'.seq = s /\ call'.n = p
        /\ Len(call'.toks) = 1
    BY <1>1, <2>2, PagedAssumption DEF CallOf, CallRecords
  <2>4. Writing'
    BY <2>3, <1>1, <1>2, <1>7, <1>9 DEF Writing
  <2> QED BY <2>3, <2>4 DEF CallOK, InCall
<1>12. RefsExact'
  <2> SUFFICES ASSUME NEW b \in Blocks
               PROVE  refs'[b] = Cardinality(EntriesIn(tables', b))
                                 + Count(built', b) + Count(todo', b)
    BY RefsHeldNext
  <2>1. refs[b] = Cardinality(EntriesIn(tables, b)) + Count(built, b) + Count(todo, b)
    BY RefsHeld DEF IInv
  <2>2. Count(t, b) \in Nat /\ Cardinality(EntriesIn(tables, b)) \in Nat
    BY HeldType, CountType DEF IInv
  <2>3. Cardinality(EntriesIn(tables', b)) \in Nat
    BY <1>8, EntriesTypeNext
  <2>4. Cardinality(EntriesIn(tables', b)) = Cardinality(EntriesIn(tables, b))
    BY <1>8, <2>2, <2>3
  <2> QED BY <2>1, <2>4, <1>2
<1> QED BY <1>2, <1>8, <1>10, <1>11, <1>12 DEF IInv

-----------------------------------------------------------------------------
(* Then the steps of the calls. *)

LEMMA CellsOfType ==
    ASSUME NEW toks \in Seq(Words), NEW i \in Nat \ {0}
    PROVE  CellsOf(toks, i) \in CellsType
<1>1. Len(toks) \in Nat /\ \A j \in 1..Len(toks) : toks[j] \in Words
  BY LenProperties, ElementOfSeq
<1>2. ASSUME NEW k \in 1..BlockSize, (i - 1) * BlockSize + k <= Len(toks)
      PROVE  toks[(i - 1) * BlockSize + k] \in Words
  <2>1. BlockSize \in Nat /\ (i - 1) * BlockSize \in Nat
    BY PagedAssumption
  <2>2. (i - 1) * BlockSize + k \in 1..Len(toks)
    BY <1>2, <2>1, <1>1
  <2> QED BY <2>2, <1>1
<1> QED BY <1>2 DEF CellsOf, CellsType

(* The blocks of a sequence that are whole: what they are published under
   ends in what they hold. *)
LEMMA WholeBlockTokens ==
    ASSUME NEW toks \in SeqOf(Words, MaxTokens), NEW i \in 1..WholeBlocks(Len(toks))
    PROVE  /\ UpToBlock(toks, i) \in HashedPrefixes /\ UpToBlock(toks, i) # << >>
           /\ LastBlock(UpToBlock(toks, i)) = CellsOf(toks, i)
           /\ Len(UpToBlock(toks, i)) = i * BlockSize
<1> DEFINE n == Len(toks)
           B == BlockSize
           m == i * BlockSize
           prefix == UpToBlock(toks, i)
<1>0. toks \in Seq(Words) /\ n \in Nat /\ n <= MaxTokens /\ MaxTokens \in Nat
      /\ \A j \in 1..n : toks[j] \in Words
  <2>1. toks \in Seq(Words) /\ n <= MaxTokens /\ MaxTokens \in Nat
    BY ShortSequences, PagedAssumption
  <2> QED BY <2>1, LenProperties, ElementOfSeq
<1>1. /\ B \in Nat /\ B > 0 /\ i \in Nat /\ i > 0
      /\ WholeBlocks(n) \in Nat /\ WholeBlocks(n) * B <= n
      /\ i <= WholeBlocks(n)
  BY <1>0, PagedAssumption, Division
<1>2. m \in Nat /\ B <= m /\ m <= n /\ m - B = (i - 1) * B /\ m - B \in Nat
  <2> HIDE DEF n
  <2>1. i * B <= WholeBlocks(n) * B
    BY <1>1
  <2>2. 1 * B <= i * B
    BY <1>1
  <2>3. i * B - B = (i - 1) * B
    BY <1>1
  <2> QED BY <2>1, <2>2, <2>3, <1>0, <1>1
<1>3. m % B = 0
  BY <1>1
<1> HIDE DEF m, n, B
<1>4. /\ prefix \in Seq(Words) /\ Len(prefix) = m
      /\ \A j \in 1..m : prefix[j] = toks[j]
  <2>1. \A j \in 1..m : toks[j] \in Words
    BY <1>0, <1>2
  <2>2. /\ SubSeq(toks, 1, m) \in Seq(Words)
        /\ Len(SubSeq(toks, 1, m)) = IF 1 <= m THEN m - 1 + 1 ELSE 0
        /\ \A j \in 1..(m - 1 + 1) : SubSeq(toks, 1, m)[j] = toks[1 + j - 1]
    BY <2>1, <1>2, SubSeqProperties
  <2>3. prefix = SubSeq(toks, 1, m)
    BY DEF UpToBlock, m
  <2> HIDE DEF prefix
  <2>4. \A j \in 1..m : prefix[j] = toks[j]
    BY <2>2, <2>3, <1>2
  <2>5. Len(prefix) = m
    BY <2>2, <2>3, <1>1, <1>2
  <2> QED BY <2>2, <2>3, <2>4, <2>5
<1>5. prefix \in HashedPrefixes
  <2>1. prefix \in SeqOf(Words, MaxTokens)
    <3>1. prefix \in Seq(Words) /\ Len(prefix) <= MaxTokens /\ MaxTokens \in Nat
      BY <1>0, <1>2, <1>4
    <3> QED BY <3>1, ShortSequences, Zenon
  <2> QED BY <2>1, <1>3, <1>4 DEF HashedPrefixes, B
<1>6. prefix # << >>
  BY <1>1, <1>2, <1>4, EmptySeq
<1> HIDE DEF prefix
<1>7. LastBlock(prefix) = CellsOf(toks, i)
  <2> DEFINE last == SubSeq(prefix, m - B + 1, m)
  <2>1. LastBlock(prefix) = last
    BY <1>4 DEF LastBlock, B
  <2>2. /\ last \in Seq(Words) /\ Len(last) = B
        /\ \A k \in 1..B : last[k] = prefix[(m - B) + k]
    <3> DEFINE a == (m - B) + 1
    <3>0. B \in Nat /\ B > 0 /\ m \in Nat /\ n \in Nat /\ m <= n /\ m >= B
      BY <1>0, <1>1, <1>2
    <3>1. \A j \in a..m : prefix[j] \in Words
      <4> SUFFICES ASSUME NEW j \in a..m PROVE prefix[j] \in Words
        OBVIOUS
      <4>1. j \in 1..m /\ j \in 1..n
        BY <3>0
      <4> QED BY <4>1, <1>4, <1>0
    <3>2. a \in Int /\ m \in Int /\ a <= m /\ m - a + 1 = B /\ a = m - B + 1
      BY <3>0
    <3> HIDE DEF a, last
    <3>3. /\ SubSeq(prefix, a, m) \in Seq(Words)
          /\ Len(SubSeq(prefix, a, m)) = IF a <= m THEN m - a + 1 ELSE 0
          /\ \A k \in 1..(m - a + 1) : SubSeq(prefix, a, m)[k] = prefix[a + k - 1]
      BY <3>1, <3>2, SubSeqProperties
    <3>4. last = SubSeq(prefix, a, m)
      BY <3>2 DEF last
    <3>5. \A k \in 1..B : a + k - 1 = (m - B) + k
      BY <1>1, <1>2 DEF a
    <3> QED BY <3>2, <3>3, <3>4, <3>5
  <2> HIDE DEF last
  <2>3. /\ CellsOf(toks, i) \in [1..B -> Words]
        /\ \A k \in 1..B : CellsOf(toks, i)[k] = toks[(m - B) + k]
    <3>1. \A k \in 1..B : (m - B) + k <= n /\ (m - B) + k \in 1..n
      BY <1>0, <1>1, <1>2
    <3>2. CellsOf(toks, i) = [k \in 1..B |-> IF (m - B) + k <= n
                                             THEN toks[(m - B) + k] ELSE EMPTY]
      BY <1>2 DEF CellsOf, n, B
    <3> QED BY <3>1, <3>2, <1>0
  <2>4. CellsOf(toks, i) \in Seq(Words) /\ Len(CellsOf(toks, i)) = B
    <3>1. CellsOf(toks, i) \in Seq(Words)
      BY <2>3, <1>1, SeqDef
    <3>2. DOMAIN CellsOf(toks, i) = 1..B /\ Len(CellsOf(toks, i)) \in Nat
          /\ DOMAIN CellsOf(toks, i) = 1..Len(CellsOf(toks, i))
      BY <3>1, <2>3, LenProperties
    <3> QED BY <3>1, <3>2, <1>1
  <2>5. \A k \in 1..B : last[k] = CellsOf(toks, i)[k]
    <3>1. \A k \in 1..B : (m - B) + k \in 1..m
      BY <1>1, <1>2
    <3> QED BY <3>1, <2>2, <2>3, <1>4
  <2>6. last = CellsOf(toks, i)
    BY <2>2, <2>4, <2>5, SeqEqual
  <2> QED BY <2>1, <2>6
<1> QED BY <1>4, <1>5, <1>6, <1>7 DEF prefix, m

(* A block that a call gathers has one reference more than before. *)
LEMMA Gathered ==
    ASSUME IInv, NEW b \in Blocks,
           refs' = [refs EXCEPT ![b] = @ + 1],
           built' = Append(built, b), UNCHANGED <<tables, lens, todo>>
    PROVE  /\ RefsExact' /\ ListsOK' /\ TablesOK'
           /\ Len(built') = Len(built) + 1 /\ Len(built) \in Nat
<1>1. /\ built \in Seq(Blocks) /\ built' \in Seq(Blocks)
      /\ Len(built') = Len(built) + 1 /\ Len(built) \in Nat
  BY AppendProperties, LenProperties DEF IInv, ListsOK
<1>2. ListsOK' /\ TablesOK'
  BY <1>1 DEF IInv, ListsOK, TablesOK, BlocksToHold
<1>3. RefsExact'
  <2> SUFFICES ASSUME NEW a \in Blocks
               PROVE  refs'[a] = Cardinality(EntriesIn(tables', a))
                                 + Count(built', a) + Count(todo', a)
    BY RefsHeldNext
  <2>1. refs[a] = Cardinality(EntriesIn(tables, a)) + Count(built, a) + Count(todo, a)
    BY RefsHeld DEF IInv
  <2>2. Count(Append(built, b), a) = Count(built, a) + (IF b = a THEN 1 ELSE 0)
    BY <1>1, CountAppend
  <2>3. refs'[a] = IF b = a THEN refs[a] + 1 ELSE refs[a]
    BY DEF IInv, PoolOK, PoolType
  <2>4. /\ Cardinality(EntriesIn(tables, a)) \in Nat
        /\ Count(built, a) \in Nat /\ Count(todo, a) \in Nat
    BY HeldType DEF IInv
  <2>5. Count(built', a) = Count(built, a) + (IF b = a THEN 1 ELSE 0)
    BY <2>2
  <2> QED BY <2>1, <2>3, <2>4, <2>5
<1> QED BY <1>1, <1>2, <1>3

LEMMA TookBlock ==
    ASSUME IInv, NEW contents \in CellsType, NEW prefix \in HashedPrefixes,
           prefix # << >> => contents = LastBlock(prefix),
           TakeBlock(contents, prefix), refs' = [refs EXCEPT ![Taken] = 1],
           built' = Append(built, Taken), UNCHANGED <<tables, lens, todo>>
    PROVE  /\ PoolOK' /\ RefsExact' /\ ListsOK' /\ TablesOK'
           /\ Len(built') = Len(built) + 1 /\ Len(built) \in Nat
<1>1. PICK t : t = Taken
  OBVIOUS
<1>2. t \in Blocks /\ refs[t] = 0
  BY <1>1, TakenFacts DEF IInv, TakeBlock
<1>3. refs \in [Blocks -> Nat]
  BY DEF IInv, PoolOK, PoolType
<1>4. refs' = [refs EXCEPT ![t] = @ + 1]
  BY <1>1, <1>2, <1>3
<1>5. PoolOK'
  <2>1. /\ refs' \in [Blocks -> Nat] /\ refs'[Taken] # 0
        /\ \A b \in Blocks \ {Taken} : refs'[b] = 0 <=> refs[b] = 0
    BY <1>1, <1>2, <1>3
  <2> QED BY <2>1, TakeBlockPool DEF IInv
<1> QED BY <1>1, <1>2, <1>4, <1>5, Gathered

LEMMA ReleaseStep ==
    ASSUME IInv, Release
    PROVE  IInv'
<1>1. /\ todo # << >> /\ todo' = Tail(todo)
      /\ UNCHANGED <<tables, lens, call, built>>
  BY DEF Release
<1>2. todo \in Seq(Blocks) /\ Len(todo) \in Nat \ {0}
  BY <1>1, EmptySeq DEF IInv, ListsOK
<1>3. PICK b \in Blocks : b = Head(todo)
  BY <1>1, <1>2, HeadTailProperties
<1>4. refs[b] > 0
  <2>1. 1 \in 1..Len(todo) /\ todo[1] = b
    BY <1>2, <1>3
  <2> QED BY <2>1, NamedIsReferenced DEF IInv, PoolOK
<1>5. PoolOK' /\ refs' = [refs EXCEPT ![b] = @ - 1]
  BY <1>3, <1>4, ReleasePool DEF IInv
<1>6. TablesOK' /\ CallOK'
  BY <1>1 DEF IInv, TablesOK, BlocksToHold, CallOK, InCall, Allocating, Copying, Writing,
              WholeBlocks
<1>7. ListsOK'
  BY <1>1, <1>2, HeadTailProperties DEF IInv, ListsOK
<1>8. RefsExact'
  <2> SUFFICES ASSUME NEW a \in Blocks
               PROVE  refs'[a] = Cardinality(EntriesIn(tables', a))
                                 + Count(built', a) + Count(todo', a)
    BY RefsHeldNext
  <2>1. refs[a] = Cardinality(EntriesIn(tables, a)) + Count(built, a) + Count(todo, a)
    BY RefsHeld DEF IInv
  <2>2. Count(todo, a) = Count(Tail(todo), a) + (IF b = a THEN 1 ELSE 0)
    BY <1>1, <1>2, <1>3, CountTail
  <2>3. refs'[a] = IF b = a THEN refs[a] - 1 ELSE refs[a]
    BY <1>5 DEF IInv, PoolOK, PoolType
  <2>4. /\ Cardinality(EntriesIn(tables, a)) \in Nat
        /\ Count(built, a) \in Nat /\ Count(Tail(todo), a) \in Nat
    <3>1. Tail(todo) \in Seq(Blocks)
      BY <1>1, <1>2, HeadTailProperties
    <3> QED BY <3>1, HeldType, CountType DEF IInv
  <2> QED BY <2>1, <2>2, <2>3, <2>4, <1>1
<1> QED BY <1>5, <1>6, <1>7, <1>8 DEF IInv

LEMMA ShareBlockStep ==
    ASSUME IInv, ShareBlock
    PROVE  IInv'
<1> DEFINE key == Key(UpToBlock(call.toks, NextBlock))
<1>1. /\ call.op = "share" /\ NextBlock <= call.limit
      /\ key \in DOMAIN index /\ published[index[key]] # << >>
      /\ Acquire(index[key])
  BY DEF ShareBlock, In, Shareable, Resident
<1>2. PICK b \in Blocks : b = index[key]
  BY <1>1 DEF IInv, PoolOK, PoolType
<1>3. Acquire(b) /\ published[b] # << >>
  BY <1>1, <1>2
<1>4. /\ refs' = [refs EXCEPT ![b] = @ + 1] /\ built' = Append(built, b)
      /\ UNCHANGED <<tables, lens, call, todo>>
  BY <1>3 DEF Acquire, Referenced
<1>5. PoolOK'
  BY <1>3, AcquirePool DEF IInv
<1>6. /\ RefsExact' /\ ListsOK' /\ TablesOK'
      /\ Len(built') = Len(built) + 1 /\ Len(built) \in Nat
  BY <1>4, Gathered
<1>7. InCall /\ Allocating
  BY <1>1, InCallFacts DEF IInv, InCall
<1>8. /\ call.n \in Nat /\ WholeBlocks(call.n) \in Nat
      /\ WholeBlocks(call.n) <= BlocksToHold(call.n)
      /\ BlocksToHold(call.n) \in Nat /\ call.limit \in Nat
  BY <1>7, PagedAssumption, Division, HoldingBlocks DEF InCall, CallRecords
<1>9. Len(built') <= call.limit
  BY <1>1, <1>6 DEF NextBlock
<1>10. Allocating'
  BY <1>4, <1>6, <1>7, <1>8, <1>9 DEF Allocating, WholeBlocks, BlocksToHold
<1>11. InCall'
  BY <1>1, <1>4, <1>7, <1>10 DEF InCall
<1> QED BY <1>5, <1>6, <1>11 DEF IInv, CallOK

LEMMA ShareDoneStep ==
    ASSUME IInv, ShareDone
    PROVE  IInv'
<1>1. /\ call.op = "share"
      /\ call' = [call EXCEPT !.op = "fill", !.limit = Len(built)]
      /\ UNCHANGED <<poolVars, tables, lens, built, todo>>
  BY DEF ShareDone, In
<1>2. InCall /\ Allocating
  BY <1>1, InCallFacts DEF IInv, InCall
<1>3. PoolOK' /\ refs' = refs
  BY <1>1, PoolUnchanged DEF IInv, poolVars
<1>4. TablesOK' /\ ListsOK' /\ RefsExact'
  BY <1>1, <1>3 DEF IInv, TablesOK, ListsOK, RefsExact, Entries, Places, BlocksToHold
<1>5. Len(built) \in 0..MaxTokens /\ Len(built) <= WholeBlocks(call.n)
  <2>1. Len(built) \in Nat /\ Len(built) <= call.limit
    BY <1>1, <1>2, LenProperties DEF IInv, ListsOK, Allocating
  <2>2. call.n \in Nat /\ call.limit \in Nat /\ call.limit <= MaxTokens
        /\ WholeBlocks(call.n) \in Nat /\ call.limit <= WholeBlocks(call.n)
    BY <1>2, PagedAssumption, Division DEF InCall, CallRecords, Allocating
  <2> QED BY <2>1, <2>2, PagedAssumption
<1>6. /\ call' \in CallRecords /\ call'.op = "fill"
      /\ call'.seq = call.seq /\ call'.toks = call.toks /\ call'.n = call.n
      /\ call'.limit = Len(built)
  BY <1>1, <1>2, <1>5 DEF InCall, CallRecords
<1>7. Allocating'
  BY <1>1, <1>2, <1>5, <1>6 DEF Allocating, WholeBlocks, BlocksToHold
<1>8. InCall'
  BY <1>6, <1>7 DEF InCall
<1> QED BY <1>3, <1>4, <1>8 DEF IInv, CallOK

(* What a block that is not published is published under. *)
LEMMA NoPrefix == << >> \in HashedPrefixes
<1>1. << >> \in Seq(Words) /\ Len(<< >>) <= MaxTokens
  BY EmptySeq, PagedAssumption
<1>2. MaxTokens \in Nat
  BY PagedAssumption
<1>3. << >> \in SeqOf(Words, MaxTokens)
  BY <1>1, <1>2, ShortSequences, Zenon
<1>4. Len(<< >>) % BlockSize = 0
  BY EmptySeq, PagedAssumption
<1> QED BY <1>3, <1>4 DEF HashedPrefixes

LEMMA FillBlockStep ==
    ASSUME IInv, FillBlock
    PROVE  IInv'
<1>1. /\ call.op = "fill" /\ Unfilled
      /\ refs' = [refs EXCEPT ![Taken] = 1]
      /\ built' = Append(built, Taken)
      /\ UNCHANGED <<tables, lens, call, todo>>
  BY DEF FillBlock, In
<1>2. InCall /\ Allocating
  BY <1>1, InCallFacts DEF IInv, InCall
<1>3. PICK toks \in SeqOf(Words, MaxTokens) : toks = call.toks
  BY <1>2 DEF InCall, CallRecords
<1>4. toks \in Seq(Words) /\ Len(toks) \in Nat /\ call.n = Len(toks)
  <2>1. toks \in Seq(Words) /\ MaxTokens \in Nat
    BY ShortSequences, PagedAssumption
  <2> QED BY <2>1, <1>2, <1>3, LenProperties DEF Allocating
<1>5. PICK i \in Nat \ {0} : i = NextBlock
  BY LenProperties DEF NextBlock, IInv, ListsOK
<1>6. PICK contents \in CellsType : contents = CellsOf(toks, i)
  BY <1>4, CellsOfType
<1>7. WholeBlocks(Len(toks)) \in Nat
  BY <1>4, Division
<1>8. PICK prefix \in HashedPrefixes :
         /\ prefix = IF i <= WholeBlocks(call.n) THEN UpToBlock(toks, i) ELSE << >>
         /\ prefix # << >> => contents = LastBlock(prefix)
  <2>1. CASE i <= WholeBlocks(call.n)
    <3>1. i \in 1..WholeBlocks(Len(toks))
      BY <2>1, <1>4, <1>7
    <3>2. /\ UpToBlock(toks, i) \in HashedPrefixes
          /\ LastBlock(UpToBlock(toks, i)) = CellsOf(toks, i)
      BY <3>1, WholeBlockTokens
    <3> QED BY <3>2, <2>1, <1>6
  <2>2. CASE ~ (i <= WholeBlocks(call.n))
    <3>1. << >> \in HashedPrefixes
      BY NoPrefix
    <3> QED BY <3>1, <2>2
  <2> QED BY <2>1, <2>2
<1>9. TakeBlock(contents, prefix)
  BY <1>3, <1>5, <1>6, <1>8 DEF FillBlock
<1>10. /\ PoolOK' /\ RefsExact' /\ ListsOK' /\ TablesOK'
       /\ Len(built') = Len(built) + 1 /\ Len(built) \in Nat
  BY <1>1, <1>8, <1>9, TookBlock
<1>11. /\ Len(built) < BlocksToHold(call.n) /\ BlocksToHold(call.n) \in Nat
  BY <1>1, <1>4, HoldingBlocks DEF Unfilled
<1>12. Allocating'
  BY <1>1, <1>2, <1>10, <1>11 DEF Allocating, WholeBlocks, BlocksToHold
<1>13. InCall'
  BY <1>1, <1>2, <1>12 DEF InCall
<1> QED BY <1>10, <1>13 DEF IInv, CallOK

(* A copy is never longer than what it copies. *)
LEMMA CopyFacts ==
    ASSUME IInv, call.op = "copy"
    PROVE  /\ InCall /\ Copying
           /\ tables[call.from] \in Seq(Blocks)
           /\ BlocksToHold(call.n) <= Len(tables[call.from])
           /\ Len(tables[call.from]) \in Nat
           /\ call.n \in Nat /\ WholeBlocks(call.n) \in Nat
           /\ BlocksToHold(call.n) \in Nat
           /\ call.limit \in Nat /\ call.limit <= BlocksToHold(call.n)
           /\ BlocksToHold(call.n) <= WholeBlocks(call.n) + 1
           /\ Len(built) \in Nat /\ Len(built) <= BlocksToHold(call.n)
<1>1. InCall /\ Copying
  BY InCallFacts DEF IInv, InCall
<1>2. /\ tables[call.from] \in Seq(Blocks) /\ lens[call.from] \in Nat
      /\ Len(tables[call.from]) = BlocksToHold(lens[call.from])
  BY <1>1, PagedAssumption DEF IInv, TablesOK, Copying
<1>3. call.n \in Nat /\ call.n <= lens[call.from]
      /\ call.limit \in {WholeBlocks(call.n), BlocksToHold(call.n)}
      /\ Len(built) <= BlocksToHold(call.n)
  BY <1>1, PagedAssumption DEF InCall, CallRecords, Copying
<1>4. /\ WholeBlocks(call.n) \in Nat /\ BlocksToHold(call.n) \in Nat
      /\ WholeBlocks(call.n) <= BlocksToHold(call.n)
      /\ BlocksToHold(call.n) <= WholeBlocks(call.n) + 1
      /\ BlocksToHold(call.n) <= BlocksToHold(lens[call.from])
  BY <1>2, <1>3, Division, HoldingBlocks, HoldingMonotone
<1>5. Len(built) \in Nat /\ Len(tables[call.from]) \in Nat
  BY <1>2, LenProperties DEF IInv, ListsOK
<1> QED BY <1>1, <1>2, <1>3, <1>4, <1>5

(* A call that copies has gathered one block more. *)
LEMMA CopyContinues ==
    ASSUME IInv, call.op = "copy", Len(built) < BlocksToHold(call.n),
           PoolOK', RefsExact', ListsOK', TablesOK',
           Len(built') = Len(built) + 1, UNCHANGED <<tables, lens, call>>
    PROVE  IInv'
<1>1. /\ InCall /\ Copying
      /\ BlocksToHold(call.n) \in Nat /\ Len(built) \in Nat
  BY CopyFacts
<1>2. Copying'
  BY <1>1 DEF Copying, WholeBlocks, BlocksToHold
<1>3. InCall'
  BY <1>1, <1>2 DEF InCall
<1> QED BY <1>3 DEF IInv, CallOK

LEMMA CopyReferenceStep ==
    ASSUME IInv, CopyReference
    PROVE  IInv'
<1>1. /\ call.op = "copy" /\ Len(built) < call.limit
      /\ Acquire(tables[call.from][NextBlock])
  BY DEF CopyReference, In
<1>2. /\ InCall /\ Copying
      /\ tables[call.from] \in Seq(Blocks)
      /\ BlocksToHold(call.n) <= Len(tables[call.from])
      /\ Len(tables[call.from]) \in Nat
      /\ BlocksToHold(call.n) \in Nat
      /\ call.limit \in Nat /\ call.limit <= BlocksToHold(call.n)
      /\ Len(built) \in Nat
  BY <1>1, CopyFacts
<1>3. NextBlock \in 1..Len(tables[call.from]) /\ Len(built) < BlocksToHold(call.n)
  BY <1>1, <1>2 DEF NextBlock
<1>4. PICK b \in Blocks : b = tables[call.from][NextBlock]
  BY <1>2, <1>3, ElementOfSeq
<1>5. Acquire(b)
  BY <1>1, <1>4
<1>6. refs[b] > 0
  <2>1. call.from \in DOMAIN tables
    BY <1>2 DEF Copying
  <2> QED BY <2>1, <1>3, <1>4, NamedIsReferenced DEF IInv, PoolOK
<1>7. PoolOK'
  BY <1>5, <1>6, AcquirePool DEF IInv
<1>8. /\ refs' = [refs EXCEPT ![b] = @ + 1] /\ built' = Append(built, b)
      /\ UNCHANGED <<tables, lens, call, todo>>
  BY <1>5 DEF Acquire, Referenced
<1>9. /\ RefsExact' /\ ListsOK' /\ TablesOK'
      /\ Len(built') = Len(built) + 1
  BY <1>8, Gathered
<1> QED BY <1>1, <1>3, <1>7, <1>8, <1>9, CopyContinues

LEMMA CopyTailStep ==
    ASSUME IInv, CopyTail
    PROVE  IInv'
<1>1. /\ call.op = "copy" /\ Len(built) = call.limit /\ Len(built) < BlocksToHold(call.n)
      /\ TakeBlock(TailCells, << >>)
      /\ refs' = [refs EXCEPT ![Taken] = 1]
      /\ built' = Append(built, Taken)
      /\ UNCHANGED <<tables, lens, call, todo>>
  BY DEF CopyTail, In, Unfilled
<1>2. /\ tables[call.from] \in Seq(Blocks)
      /\ BlocksToHold(call.n) <= Len(tables[call.from])
      /\ Len(tables[call.from]) \in Nat
      /\ BlocksToHold(call.n) \in Nat
      /\ Len(built) \in Nat
  BY <1>1, CopyFacts
<1>3. NextBlock \in 1..Len(tables[call.from])
  BY <1>1, <1>2 DEF NextBlock
<1>4. tables[call.from][NextBlock] \in Blocks
  BY <1>2, <1>3, ElementOfSeq
<1>5. PICK contents \in CellsType : contents = TailCells
  <2>1. cells[tables[call.from][NextBlock]] \in CellsType
    BY <1>4 DEF IInv, PoolOK, PoolType
  <2>2. TailCells \in CellsType
    BY <2>1 DEF TailCells, CellsType
  <2> QED BY <2>2
<1>6. PICK prefix \in HashedPrefixes : prefix = << >>
  BY NoPrefix
<1>7. TakeBlock(contents, prefix)
  BY <1>1, <1>5, <1>6
<1>8. /\ PoolOK' /\ RefsExact' /\ ListsOK' /\ TablesOK'
      /\ Len(built') = Len(built) + 1
  BY <1>1, <1>6, <1>7, TookBlock
<1> QED BY <1>1, <1>8, CopyContinues

LEMMA InstallStep ==
    ASSUME IInv, Install
    PROVE  IInv'
<1>1. /\ call.op \in {"fill", "copy"} /\ todo = << >> /\ ~ (Len(built) < BlocksToHold(call.n))
      /\ tables' = Put(tables, call.seq, built)
      /\ lens' = Put(lens, call.seq, call.n)
      /\ call' = NoCall /\ built' = << >>
      /\ UNCHANGED <<poolVars, todo>>
  BY DEF Install, In, Unfilled
<1>2. PoolOK' /\ refs' = refs
  BY <1>1, PoolUnchanged DEF IInv, poolVars
<1>3. /\ call \in CallRecords /\ call.seq \notin DOMAIN tables
      /\ Len(built) <= BlocksToHold(call.n)
  BY <1>1, InCallFacts DEF IInv, InCall, Allocating, Copying
<1>4. PICK s \in Seqs : s = call.seq
  BY <1>3 DEF CallRecords
<1>5. PICK n \in 0..MaxTokens : n = call.n
  BY <1>3 DEF CallRecords
<1>6. PICK t \in Seq(Blocks) : t = built
  BY DEF IInv, ListsOK
<1>7. Len(t) = BlocksToHold(n)
  <2>0. Len(t) \in Nat /\ n \in Nat
    BY LenProperties, PagedAssumption
  <2>1. BlocksToHold(n) \in Nat
    BY <2>0, HoldingBlocks
  <2> QED BY <2>0, <2>1, <1>1, <1>3, <1>5, <1>6
<1>8. /\ DOMAIN tables' = DOMAIN tables \cup {s}
      /\ DOMAIN lens' = DOMAIN tables \cup {s}
      /\ \A r \in DOMAIN tables' : tables'[r] = IF r = s THEN t ELSE tables[r]
      /\ \A r \in DOMAIN tables' : lens'[r] = IF r = s THEN n ELSE lens[r]
  BY <1>1, <1>4, <1>5, <1>6 DEF Put, IInv, TablesOK
<1>9. /\ TablesOK'
      /\ \A b : Cardinality(EntriesIn(tables', b)) + Count(ListOf(tables, s), b)
                = Cardinality(EntriesIn(tables, b)) + Count(t, b)
  BY <1>7, <1>8, TableStored DEF IInv
<1>10. ListOf(tables, s) = << >>
  BY <1>3, <1>4 DEF ListOf
<1>11. ListsOK' /\ CallOK'
  BY <1>1, EmptySeq DEF IInv, ListsOK, CallOK, NoCall
<1>12. RefsExact'
  <2> SUFFICES ASSUME NEW b \in Blocks
               PROVE  refs'[b] = Cardinality(EntriesIn(tables', b))
                                 + Count(built', b) + Count(todo', b)
    BY RefsHeldNext
  <2>1. refs[b] = Cardinality(EntriesIn(tables, b)) + Count(t, b) + Count(todo, b)
    BY <1>6, RefsHeld DEF IInv
  <2>2. /\ Cardinality(EntriesIn(tables', b)) + 0
           = Cardinality(EntriesIn(tables, b)) + Count(t, b)
        /\ Count(built', b) = 0 /\ Count(todo, b) = 0
    BY <1>1, <1>9, <1>10, CountEmpty
  <2>3. Cardinality(EntriesIn(tables', b)) \in Nat
    BY <1>9, EntriesTypeNext
  <2>4. Cardinality(EntriesIn(tables, b)) \in Nat /\ Count(t, b) \in Nat
    BY HeldType, CountType DEF IInv
  <2> QED BY <2>1, <2>2, <2>3, <2>4, <1>1, <1>2
<1> QED BY <1>2, <1>9, <1>11, <1>12 DEF IInv

LEMMA OutOfBlocksStep ==
    ASSUME IInv, OutOfBlocks
    PROVE  IInv'
<1>1. /\ todo = << >> /\ todo' = built
      /\ call' = NoCall /\ built' = << >>
      /\ UNCHANGED <<poolVars, tables, lens>>
  BY DEF OutOfBlocks, NeedsBlock, In
<1>2. PoolOK' /\ refs' = refs
  BY <1>1, PoolUnchanged DEF IInv, poolVars
<1>3. TablesOK' /\ ListsOK' /\ CallOK'
  BY <1>1, EmptySeq DEF IInv, TablesOK, BlocksToHold, ListsOK, CallOK, NoCall
<1>4. RefsExact'
  <2> SUFFICES ASSUME NEW b \in Blocks
               PROVE  refs'[b] = Cardinality(EntriesIn(tables', b))
                                 + Count(built', b) + Count(todo', b)
    BY RefsHeldNext
  <2>1. refs[b] = Cardinality(EntriesIn(tables, b)) + Count(built, b) + Count(todo, b)
    BY RefsHeld DEF IInv
  <2>2. Count(todo, b) = 0 /\ Count(built', b) = 0
    BY <1>1, CountEmpty
  <2>3. Cardinality(EntriesIn(tables, b)) \in Nat /\ Count(built, b) \in Nat
    BY HeldType DEF IInv
  <2> QED BY <2>1, <2>2, <2>3, <1>1, <1>2
<1> QED BY <1>2, <1>3, <1>4 DEF IInv

(* A write grows the table until it reaches the cell, and not further. *)
LEMMA WriteFacts ==
    ASSUME IInv, call.op = "write"
    PROVE  /\ InCall /\ Writing
           /\ tables[call.seq] \in Seq(Blocks) /\ built \in Seq(Blocks)
           /\ Len(tables[call.seq]) \in Nat /\ Len(built) \in Nat
           /\ lens[call.seq] \in Nat /\ lens[call.seq] <= MaxTokens
           /\ Len(tables[call.seq]) = BlocksToHold(lens[call.seq])
           /\ call.n \in Nat /\ call.n < MaxTokens
           /\ WholeBlocks(call.n) \in Nat /\ Place \in Nat \ {0}
           /\ BlocksToHold(lens[call.seq]) \in Nat
           /\ call.n < lens[call.seq] => Place <= BlocksToHold(lens[call.seq])
           /\ BlocksToHold(call.n + 1) = Place
           /\ lens[call.seq] <= call.n => BlocksToHold(lens[call.seq]) <= Place
           /\ GrownTable \in Seq(Blocks)
           /\ Len(GrownTable) = Len(tables[call.seq]) + Len(built)
<1>1. InCall /\ Writing
  BY InCallFacts DEF IInv, InCall
<1>2. /\ tables[call.seq] \in Seq(Blocks)
      /\ lens[call.seq] \in Nat /\ lens[call.seq] <= MaxTokens
      /\ Len(tables[call.seq]) = BlocksToHold(lens[call.seq])
      /\ built \in Seq(Blocks)
  BY <1>1, PagedAssumption DEF IInv, TablesOK, Writing, ListsOK
<1>3. Len(tables[call.seq]) \in Nat /\ Len(built) \in Nat
  BY <1>2, LenProperties
<1>4. call.n \in Nat /\ call.n < MaxTokens
  BY <1>1, PagedAssumption DEF InCall, CallRecords, Writing
<1>5. /\ WholeBlocks(call.n) \in Nat /\ BlocksToHold(lens[call.seq]) \in Nat
      /\ BlocksToHold(call.n + 1) = WholeBlocks(call.n) + 1
      /\ BlocksToHold(call.n) <= WholeBlocks(call.n) + 1 /\ BlocksToHold(call.n) \in Nat
  BY <1>2, <1>4, Division, HoldingBlocks
<1>8. lens[call.seq] <= call.n => BlocksToHold(lens[call.seq]) <= WholeBlocks(call.n) + 1
  <2>1. lens[call.seq] <= call.n => BlocksToHold(lens[call.seq]) <= BlocksToHold(call.n)
    BY <1>2, <1>4, HoldingMonotone
  <2> QED BY <2>1, <1>5
<1>6. call.n < lens[call.seq] => WholeBlocks(call.n) + 1 <= BlocksToHold(lens[call.seq])
  BY <1>2, <1>4, HoldingMonotone
<1>7. /\ GrownTable \in Seq(Blocks)
      /\ Len(GrownTable) = Len(tables[call.seq]) + Len(built)
  <2>1. /\ tables[call.seq] \o built \in Seq(Blocks)
        /\ Len(tables[call.seq] \o built) = Len(tables[call.seq]) + Len(built)
    BY <1>2, ConcatProperties, Zenon
  <2> QED BY <2>1 DEF GrownTable
<1> QED BY <1>1, <1>2, <1>3, <1>4, <1>5, <1>6, <1>7, <1>8 DEF Place

LEMMA TargetFacts ==
    ASSUME IInv, call.op = "write", ~ MissingBlock
    PROVE  /\ Place \in 1..Len(GrownTable) /\ Target \in Blocks
           /\ refs[Target] > 0
           /\ call.n < lens[call.seq] => Len(GrownTable) = BlocksToHold(lens[call.seq])
           /\ ~ (call.n < lens[call.seq]) => Len(GrownTable) = BlocksToHold(call.n + 1)
<1>1. /\ tables[call.seq] \in Seq(Blocks) /\ built \in Seq(Blocks)
      /\ Len(tables[call.seq]) \in Nat /\ Len(built) \in Nat
      /\ GrownTable \in Seq(Blocks)
      /\ Len(GrownTable) = Len(tables[call.seq]) + Len(built)
      /\ Place \in Nat \ {0} /\ Writing
  BY WriteFacts
<1>2. Place \in 1..Len(GrownTable)
  BY <1>1 DEF MissingBlock
<1>3. PICK b \in Blocks : b = GrownTable[Place]
  BY <1>1, <1>2, ElementOfSeq
<1>4. \/ Place \in 1..Len(tables[call.seq]) /\ b = tables[call.seq][Place]
      \/ /\ Place - Len(tables[call.seq]) \in 1..Len(built)
         /\ b = built[Place - Len(tables[call.seq])]
  <2>1. \A i \in 1..(Len(tables[call.seq]) + Len(built)) :
           (tables[call.seq] \o built)[i] =
              IF i <= Len(tables[call.seq]) THEN tables[call.seq][i]
              ELSE built[i - Len(tables[call.seq])]
    BY <1>1, ConcatProperties, Zenon
  <2>2. b = IF Place <= Len(tables[call.seq]) THEN tables[call.seq][Place]
            ELSE built[Place - Len(tables[call.seq])]
    BY <1>1, <1>2, <1>3, <2>1 DEF GrownTable
  <2> QED BY <1>1, <1>2, <2>2
<1>5. refs[b] > 0
  <2>1. call.seq \in DOMAIN tables
    BY <1>1 DEF Writing
  <2> QED BY <2>1, <1>4, NamedIsReferenced DEF IInv, PoolOK
<1>6. /\ call.n < lens[call.seq] => Len(GrownTable) = BlocksToHold(lens[call.seq])
      /\ ~ (call.n < lens[call.seq]) => Len(GrownTable) = BlocksToHold(call.n + 1)
  <2>1. /\ Len(tables[call.seq]) = BlocksToHold(lens[call.seq])
        /\ call.n \in Nat /\ lens[call.seq] \in Nat
        /\ call.n < lens[call.seq] => Place <= BlocksToHold(lens[call.seq])
        /\ BlocksToHold(call.n + 1) = Place
        /\ lens[call.seq] <= call.n => BlocksToHold(lens[call.seq]) <= Place
        /\ BlocksToHold(lens[call.seq]) \in Nat
    BY WriteFacts
  <2>2. Len(built) = 0 \/ Len(GrownTable) = Place
    <3>1. built = << >> \/ Len(tables[call.seq]) + Len(built) <= Place
      BY <1>1 DEF Writing, Place
    <3>2. ASSUME Len(tables[call.seq]) + Len(built) <= Place
          PROVE  Len(GrownTable) = Place
      <4>1. PICK n \in Nat : n = Len(GrownTable)
        BY <1>1
      <4>2. PICK p \in Nat : p = Place
        BY <1>1
      <4>3. n <= p /\ p <= n
        BY <3>2, <1>1, <1>2, <4>1, <4>2
      <4> QED BY <4>1, <4>2, <4>3
    <3> QED BY <3>1, <3>2, EmptySeq
  <2>3. CASE call.n < lens[call.seq]
    BY <2>1, <2>2, <2>3, <1>1, <1>2
  <2>4. CASE ~ (call.n < lens[call.seq])
    <3>1. lens[call.seq] <= call.n
      BY <2>1, <2>4
    <3>2. BlocksToHold(lens[call.seq]) <= Place
      BY <2>1, <3>1
    <3> QED BY <3>2, <2>1, <2>2, <2>4, <1>1, <1>2
  <2> QED BY <2>3, <2>4
<1> QED BY <1>2, <1>3, <1>5, <1>6 DEF Target

(* The write ends: its sequence has a table of the length its tokens need. *)
LEMMA WriteEnds ==
    ASSUME IInv, call.op = "write", todo = << >>, ~ MissingBlock,
           NEW t \in Seq(Blocks), Len(t) = Len(GrownTable),
           DOMAIN tables' = DOMAIN tables,
           \A r \in DOMAIN tables : tables'[r] = IF r = call.seq THEN t ELSE tables[r],
           EndWrite
    PROVE  /\ TablesOK' /\ ListsOK' /\ CallOK'
           /\ \A b : Cardinality(EntriesIn(tables', b)) + Count(tables[call.seq], b)
                     = Cardinality(EntriesIn(tables, b)) + Count(t, b)
           /\ built' = << >> /\ todo' = << >>
<1>1. /\ InCall /\ Writing
      /\ lens[call.seq] \in Nat /\ lens[call.seq] <= MaxTokens
      /\ call.n \in Nat /\ call.n < MaxTokens
  BY WriteFacts
<1>2. PICK s \in Seqs : s = call.seq
  BY <1>1 DEF InCall, CallRecords
<1>3. s \in DOMAIN tables /\ DOMAIN lens = DOMAIN tables
  BY <1>1, <1>2 DEF Writing, IInv, TablesOK
<1>4. PICK n \in 0..MaxTokens : n = IF call.n < lens[s] THEN lens[s] ELSE call.n + 1
  BY <1>1, <1>2, PagedAssumption
<1>5. Len(t) = BlocksToHold(n)
  BY <1>2, <1>4, TargetFacts
<1>6. /\ DOMAIN tables' = DOMAIN tables \cup {s}
      /\ \A r \in DOMAIN tables' : tables'[r] = IF r = s THEN t ELSE tables[r]
  BY <1>2, <1>3
<1>7. /\ DOMAIN lens' = DOMAIN tables \cup {s}
      /\ \A r \in DOMAIN tables' : lens'[r] = IF r = s THEN n ELSE lens[r]
  BY <1>2, <1>3, <1>4, <1>6 DEF EndWrite
<1>8. /\ TablesOK'
      /\ \A b : Cardinality(EntriesIn(tables', b)) + Count(ListOf(tables, s), b)
                = Cardinality(EntriesIn(tables, b)) + Count(t, b)
  <2>1. TablesOK
    BY DEF IInv
  <2> QED BY <2>1, <1>2, <1>4, <1>5, <1>6, <1>7, TableStored
<1>9. ListOf(tables, s) = tables[s]
  BY <1>3 DEF ListOf
<1>10. call' = NoCall /\ built' = << >> /\ todo' = << >>
  BY DEF EndWrite
<1>11. ListsOK' /\ CallOK'
  BY <1>10, EmptySeq DEF ListsOK, CallOK, NoCall
<1> QED BY <1>2, <1>8, <1>9, <1>10, <1>11

LEMMA GrowStep ==
    ASSUME IInv, Grow
    PROVE  IInv'
<1>1. /\ call.op = "write" /\ MissingBlock
      /\ TakeBlock(NoTokens, << >>)
      /\ refs' = [refs EXCEPT ![Taken] = 1]
      /\ built' = Append(built, Taken)
      /\ UNCHANGED <<tables, lens, call, todo>>
  BY DEF Grow, In
<1>2. PICK contents \in CellsType : contents = NoTokens
  BY DEF NoTokens, CellsType
<1>3. PICK prefix \in HashedPrefixes : prefix = << >>
  BY NoPrefix
<1>4. TakeBlock(contents, prefix)
  BY <1>1, <1>2, <1>3
<1>5. /\ PoolOK' /\ RefsExact' /\ ListsOK' /\ TablesOK'
      /\ Len(built') = Len(built) + 1 /\ Len(built) \in Nat
  BY <1>1, <1>3, <1>4, TookBlock
<1>6. /\ InCall /\ Writing
      /\ Len(tables[call.seq]) \in Nat /\ WholeBlocks(call.n) \in Nat
  BY <1>1, WriteFacts
<1>7. Len(tables[call.seq]) + Len(built') <= WholeBlocks(call.n) + 1
  <2>1. Len(tables[call.seq]) + Len(built) < WholeBlocks(call.n) + 1
    BY <1>1 DEF MissingBlock, Place
  <2>2. Len(built') = Len(built) + 1 /\ Len(built) \in Nat
    BY <1>5
  <2>3. ASSUME NEW a \in Nat, NEW b \in Nat, NEW w \in Nat, a + b < w + 1
        PROVE  a + (b + 1) <= w + 1
    BY <2>3
  <2>4. Len(tables[call.seq]) + (Len(built) + 1) <= WholeBlocks(call.n) + 1
    BY <2>1, <2>2, <2>3, <1>6
  <2> QED BY <2>2, <2>4
<1>8. Writing'
  BY <1>1, <1>6, <1>7 DEF Writing, WholeBlocks
<1>9. InCall'
  BY <1>1, <1>6, <1>8 DEF InCall
<1> QED BY <1>5, <1>9 DEF IInv, CallOK

(* Nobody but the writer holds the block: it is written where it is, and
   leaves the index if it was in there. *)
LEMMA WriteInPlaceStep ==
    ASSUME IInv, WriteInPlace
    PROVE  IInv'
<1>1. /\ call.op = "write" /\ todo = << >> /\ ~ MissingBlock
      /\ cells' = [cells EXCEPT ![Target][Offset] = call.toks[1]]
      /\ published' = [published EXCEPT ![Target] = << >>]
      /\ index' = IF published[Target] = << >> THEN index
                  ELSE Pop(index, Key(published[Target]))
      /\ tables' = [tables EXCEPT ![call.seq] = GrownTable]
      /\ EndWrite
      /\ UNCHANGED <<refs, free, evictable>>
  BY DEF WriteInPlace, In, Unpublished
<1>2. PICK t \in Blocks : t = Target
  BY <1>1, TargetFacts
<1>3. refs[t] > 0
  BY <1>1, <1>2, TargetFacts
<1>4. PICK g \in Seq(Blocks) : g = GrownTable
  BY <1>1, WriteFacts
<1>5. /\ TablesOK' /\ ListsOK' /\ CallOK'
      /\ \A b : Cardinality(EntriesIn(tables', b)) + Count(tables[call.seq], b)
                = Cardinality(EntriesIn(tables, b)) + Count(g, b)
      /\ built' = << >> /\ todo' = << >>
  <2>1. call.seq \in DOMAIN tables
    BY <1>1, WriteFacts DEF Writing
  <2>2. /\ DOMAIN tables' = DOMAIN tables
        /\ \A r \in DOMAIN tables : tables'[r] = IF r = call.seq THEN g ELSE tables[r]
    BY <1>1, <1>4, <2>1
  <2> QED BY <2>2, <1>1, <1>4, WriteEnds
<1>6. RefsExact'
  <2> SUFFICES ASSUME NEW b \in Blocks
               PROVE  refs'[b] = Cardinality(EntriesIn(tables', b))
                                 + Count(built', b) + Count(todo', b)
    BY RefsHeldNext
  <2>1. refs[b] = Cardinality(EntriesIn(tables, b)) + Count(built, b) + Count(todo, b)
    BY RefsHeld DEF IInv
  <2>2. Count(g, b) = Count(tables[call.seq], b) + Count(built, b)
    <3>1. tables[call.seq] \in Seq(Blocks) /\ built \in Seq(Blocks)
      BY <1>1, WriteFacts
    <3>2. Count(tables[call.seq] \o built, b) = Count(tables[call.seq], b) + Count(built, b)
      BY <3>1, CountConcat, Zenon
    <3> QED BY <3>2, <1>4 DEF GrownTable
  <2>3. /\ Cardinality(EntriesIn(tables, b)) \in Nat /\ Count(built, b) \in Nat
        /\ Count(tables[call.seq], b) \in Nat
    <3>1. tables[call.seq] \in Seq(Blocks)
      BY <1>1, WriteFacts
    <3> QED BY <3>1, HeldType, CountType DEF IInv
  <2>4. Cardinality(EntriesIn(tables', b)) \in Nat
    BY <1>5, EntriesTypeNext
  <2>5. Count(built', b) = 0 /\ Count(todo', b) = 0 /\ Count(todo, b) = 0
    BY <1>1, <1>5, CountEmpty
  <2>6. /\ Cardinality(EntriesIn(tables', b)) + Count(tables[call.seq], b)
           = Cardinality(EntriesIn(tables, b)) + Count(g, b)
        /\ refs'[b] = refs[b]
    BY <1>1, <1>5
  <2> QED BY <2>1, <2>2, <2>3, <2>4, <2>5, <2>6
<1>7. PoolOK'
  <2>1. /\ cells \in [Blocks -> CellsType]
        /\ published \in [Blocks -> HashedPrefixes]
        /\ \A h \in DOMAIN index : /\ index[h] \in Blocks
                                   /\ published[index[h]] # << >>
                                   /\ Key(published[index[h]]) = h
    BY DEF IInv, PoolOK, PoolType, IndexSound
  <2>2. /\ cells' \in [Blocks -> CellsType]
        /\ \A b \in Blocks \ {t} : cells'[b] = cells[b]
    <3>1. Offset \in 1..BlockSize
      <4>1. call.n \in Nat
        BY <1>1, WriteFacts
      <4>2. call.n % BlockSize \in 0..(BlockSize - 1)
        BY <4>1, Division
      <4> QED BY <4>2, PagedAssumption DEF Offset
    <3>2. call.toks[1] \in Words
      <4>1. call.toks \in SeqOf(Words, MaxTokens) /\ Len(call.toks) = 1
        BY <1>1, WriteFacts DEF InCall, CallRecords, Writing
      <4>2. call.toks \in Seq(Words)
        BY <4>1, ShortSequences, PagedAssumption
      <4> QED BY <4>1, <4>2, ElementOfSeq
    <3>3. cells' = [cells EXCEPT ![t][Offset] = call.toks[1]]
      BY <1>1, <1>2
    <3> QED BY <3>1, <3>2, <3>3, <2>1 DEF CellsType
  <2>3. /\ published' \in [Blocks -> HashedPrefixes]
        /\ published'[t] = << >>
        /\ \A b \in Blocks \ {t} : published'[b] = published[b]
    BY <1>1, <1>2, <2>1, NoPrefix
  <2>4. \A h \in DOMAIN index' : h \in DOMAIN index /\ index'[h] = index[h] /\ index[h] # t
    <3>1. CASE published[t] = << >>
      BY <3>1, <1>1, <1>2, <2>1
    <3>2. CASE published[t] # << >>
      <4>1. index' = [h \in DOMAIN index \ {Key(published[t])} |-> index[h]]
        BY <3>2, <1>1, <1>2 DEF Pop
      <4> QED BY <4>1, <2>1
    <3> QED BY <3>1, <3>2
  <2>5. PoolType'
    BY <1>1, <2>1, <2>2, <2>3, <2>4 DEF IInv, PoolOK, PoolType
  <2>6. Listed'
    <3>1. t \notin ToSet(free) /\ t \notin ToSet(evictable)
      BY <1>3 DEF IInv, PoolOK, Listed
    <3>2. ToSet(free) \subseteq Blocks /\ ToSet(evictable) \subseteq Blocks
      BY LenProperties DEF IInv, PoolOK, PoolType, ToSet
    <3>3. /\ \A b \in ToSet(evictable) : published'[b] # << >>
          /\ \A b \in ToSet(free) : published'[b] = << >>
      BY <3>1, <3>2, <2>3 DEF IInv, PoolOK, Listed
    <3> QED BY <3>3, <1>1 DEF IInv, PoolOK, Listed
  <2>7. IndexSound'
    <3> SUFFICES ASSUME NEW h \in DOMAIN index'
                 PROVE  published'[index'[h]] # << >> /\ Key(published'[index'[h]]) = h
      BY DEF IndexSound, Key
    <3> QED BY <2>1, <2>3, <2>4
  <2>8. PublishedImmutable'
    <3> SUFFICES ASSUME NEW b \in Blocks, published'[b] # << >>
                 PROVE  cells'[b] = LastBlock(published'[b])
      BY DEF PublishedImmutable, LastBlock
    <3>1. b # t /\ published'[b] = published[b] /\ cells'[b] = cells[b]
      BY <2>2, <2>3
    <3> QED BY <3>1 DEF IInv, PoolOK, PublishedImmutable
  <2> QED BY <2>5, <2>6, <2>7, <2>8 DEF PoolOK
<1> QED BY <1>5, <1>6, <1>7 DEF IInv

(* The counts of a block when one table is exchanged for another: e and f are
   the entries before and after, t and c those of the two tables, and h those
   of the blocks just gathered. *)
LEMMA CountsExchanged ==
    ASSUME NEW e \in Nat, NEW f \in Nat, NEW t \in Nat, NEW c \in Nat, NEW h \in Nat,
           f + t = e + c
    PROVE  /\ c = t + h => f = e + h
           /\ c + 1 = t + h => f + 1 = e + h
           /\ c = t + h + 1 => f = e + h + 1
  OBVIOUS

(* Somebody else holds the block too: a copy takes its place in the table. *)
LEMMA WriteCopyStep ==
    ASSUME IInv, WriteCopy
    PROVE  IInv'
<1>1. /\ call.op = "write" /\ todo = << >> /\ ~ MissingBlock /\ refs[Target] > 1
      /\ TakeBlock([cells[Target] EXCEPT ![Offset] = call.toks[1]], << >>)
      /\ refs' = [refs EXCEPT ![Taken] = 1, ![Target] = @ - 1]
      /\ tables' = [tables EXCEPT ![call.seq] = [GrownTable EXCEPT ![Place] = Taken]]
      /\ EndWrite
  BY DEF WriteCopy, In, MustCopy
<1>2. PICK t \in Blocks : t = Target
  BY <1>1, TargetFacts
<1>3. PICK u \in Blocks : u = Taken
  BY <1>1, TakenFacts DEF IInv, TakeBlock
<1>4. refs[u] = 0 /\ refs[t] > 1 /\ u # t /\ refs \in [Blocks -> Nat]
  BY <1>1, <1>2, <1>3, TakenFacts DEF IInv, TakeBlock, PoolOK, PoolType
<1>5. PICK g \in Seq(Blocks) : g = GrownTable
  BY <1>1, WriteFacts
<1>6. Place \in 1..Len(g) /\ g[Place] = t
  BY <1>1, <1>2, <1>5, TargetFacts DEF Target
<1>p. PICK k \in 1..Len(g) : k = Place
  BY <1>6
<1>7. PICK c \in Seq(Blocks) :
         /\ c = [g EXCEPT ![k] = u] /\ Len(c) = Len(g)
         /\ \A i \in 1..Len(g) : c[i] = IF i = k THEN u ELSE g[i]
  <2>1. /\ [g EXCEPT ![k] = u] \in Seq(Blocks)
        /\ Len([g EXCEPT ![k] = u]) = Len(g)
        /\ \A i \in 1..Len(g) : [g EXCEPT ![k] = u][i] = IF i = k THEN u ELSE g[i]
    BY ExceptSeq
  <2> QED BY <2>1
<1>8. /\ TablesOK' /\ ListsOK' /\ CallOK'
      /\ \A b : Cardinality(EntriesIn(tables', b)) + Count(tables[call.seq], b)
                = Cardinality(EntriesIn(tables, b)) + Count(c, b)
      /\ built' = << >> /\ todo' = << >>
  <2>1. call.seq \in DOMAIN tables
    BY <1>1, WriteFacts DEF Writing
  <2>2. /\ DOMAIN tables' = DOMAIN tables
        /\ \A r \in DOMAIN tables : tables'[r] = IF r = call.seq THEN c ELSE tables[r]
    BY <1>1, <1>3, <1>5, <1>p, <1>7, <2>1
  <2>3. Len(c) = Len(GrownTable)
    BY <1>5, <1>7
  <2> QED BY <2>2, <2>3, <1>1, WriteEnds
<1>9. refs' = [refs EXCEPT ![u] = 1, ![t] = @ - 1]
  BY <1>1, <1>2, <1>3
<1>10. PoolOK'
  <2>1. PICK contents \in CellsType :
           contents = [cells[Target] EXCEPT ![Offset] = call.toks[1]]
    <3>1. cells[Target] \in CellsType
      BY <1>2 DEF IInv, PoolOK, PoolType
    <3>2. call.toks[1] \in Words
      <4>1. call.toks \in SeqOf(Words, MaxTokens) /\ Len(call.toks) = 1
        BY <1>1, WriteFacts DEF InCall, CallRecords, Writing
      <4>2. call.toks \in Seq(Words)
        BY <4>1, ShortSequences, PagedAssumption
      <4> QED BY <4>1, <4>2, ElementOfSeq
    <3> QED BY <3>1, <3>2 DEF CellsType
  <2>2. PICK prefix \in HashedPrefixes : prefix = << >>
    BY NoPrefix
  <2>3. TakeBlock(contents, prefix)
    BY <1>1, <2>1, <2>2
  <2>4. /\ refs' \in [Blocks -> Nat] /\ refs'[Taken] # 0
        /\ \A b \in Blocks \ {Taken} : refs'[b] = 0 <=> refs[b] = 0
    <3>1. \A b \in Blocks : refs'[b] = IF b = u THEN 1
                                      ELSE IF b = t THEN refs[b] - 1 ELSE refs[b]
      BY <1>4, <1>9
    <3>2. refs[t] - 1 \in Nat /\ refs[t] - 1 # 0 /\ refs[t] # 0
      BY <1>4
    <3>3. refs' \in [Blocks -> Nat]
      <4>1. /\ refs' = [b \in Blocks |-> refs'[b]]
            /\ \A b \in Blocks : refs[b] \in Nat
        BY <1>4, <1>9
      <4>2. \A b \in Blocks : refs'[b] \in Nat
        BY <3>1, <3>2, <4>1
      <4> QED BY <4>1, <4>2
    <3>4. ASSUME NEW b \in Blocks \ {u} PROVE refs'[b] = 0 <=> refs[b] = 0
      BY <3>1, <3>2
    <3>5. refs'[u] # 0
      BY <3>1
    <3> QED BY <3>3, <3>4, <3>5, <1>3
  <2> QED BY <2>2, <2>3, <2>4, TakeBlockPool DEF IInv
<1>11. RefsExact'
  <2> SUFFICES ASSUME NEW b \in Blocks
               PROVE  refs'[b] = Cardinality(EntriesIn(tables', b))
                                 + Count(built', b) + Count(todo', b)
    BY RefsHeldNext
  <2>1. refs[b] = Cardinality(EntriesIn(tables, b)) + Count(built, b) + Count(todo, b)
    BY RefsHeld DEF IInv
  <2>2. tables[call.seq] \in Seq(Blocks) /\ built \in Seq(Blocks)
    BY <1>1, WriteFacts
  <2>3. Count(g, b) = Count(tables[call.seq], b) + Count(built, b)
    <3>1. Count(tables[call.seq] \o built, b) = Count(tables[call.seq], b) + Count(built, b)
      BY <2>2, CountConcat, Zenon
    <3> QED BY <3>1, <1>5 DEF GrownTable
  <2>4. /\ Cardinality(EntriesIn(tables, b)) \in Nat /\ Count(built, b) \in Nat
        /\ Count(tables[call.seq], b) \in Nat /\ Count(c, b) \in Nat
    BY <2>2, HeldType, CountType DEF IInv
  <2>5. /\ t = b /\ u # b => Count(c, b) + 1 = Count(g, b)
        /\ t # b /\ u = b => Count(c, b) = Count(g, b) + 1
        /\ t # b /\ u # b => Count(c, b) = Count(g, b)
    <3>1. /\ g[k] = b /\ u # b => Count(c, b) + 1 = Count(g, b)
          /\ g[k] # b /\ u = b => Count(c, b) = Count(g, b) + 1
          /\ (g[k] = b <=> u = b) => Count(c, b) = Count(g, b)
      <4>1. c \in Seq(Blocks) /\ g \in Seq(Blocks) /\ k \in 1..Len(g) /\ u \in Blocks
        OBVIOUS
      <4>2. Len(c) = Len(g) /\ \A i \in 1..Len(g) : c[i] = IF i = k THEN u ELSE g[i]
        BY <1>7
      <4> QED BY <4>1, <4>2, CountExcept, SMTT(30)
    <3> QED BY <3>1, <1>6, <1>p
  <2>6. Cardinality(EntriesIn(tables', b)) \in Nat
    BY <1>8, EntriesTypeNext
  <2>7. Count(built', b) = 0 /\ Count(todo', b) = 0 /\ Count(todo, b) = 0
    BY <1>1, <1>8, CountEmpty
  <2>8. refs'[b] = IF b = u THEN 1 ELSE IF b = t THEN refs[b] - 1 ELSE refs[b]
    BY <1>4, <1>9
  <2>9. Cardinality(EntriesIn(tables', b)) + Count(tables[call.seq], b)
        = Cardinality(EntriesIn(tables, b)) + Count(c, b)
    BY <1>8
  <2>0. u # t /\ refs[b] \in Nat /\ refs[u] = 0
    BY <1>4
  <2> DEFINE e == Cardinality(EntriesIn(tables, b))
             f == Cardinality(EntriesIn(tables', b))
             h == Count(built, b)
             old == Count(tables[call.seq], b)
             new == Count(c, b)
  <2>10. /\ e \in Nat /\ f \in Nat /\ h \in Nat /\ old \in Nat /\ new \in Nat
         /\ f + old = e + new
    BY <2>4, <2>6, <2>9
  <2>11. refs[b] = e + h /\ Count(g, b) = old + h
    BY <2>1, <2>3, <2>4, <2>7
  <2>12. refs'[b] = f
    <3> HIDE DEF e, f, h, old, new
    <3>0. /\ new = old + h => f = e + h
          /\ new + 1 = old + h => f + 1 = e + h
          /\ new = old + h + 1 => f = e + h + 1
      BY <2>10, CountsExchanged
    <3>1. CASE b = u
      <4>1. refs[b] = 0 /\ t # b /\ refs'[b] = 1
        BY <3>1, <2>0, <2>8
      <4>2. e + h = 0
        BY <4>1, <2>11
      <4>3. Count(c, b) = Count(g, b) + 1
        BY <4>1, <3>1, <2>5
      <4>4. f = e + h + 1
        BY <4>3, <3>0, <2>11 DEF new
      <4> QED BY <4>1, <4>2, <4>4
    <3>2. CASE b = t
      <4>1. u # b /\ refs'[b] = refs[b] - 1
        BY <3>2, <2>0, <2>8
      <4>2. Count(c, b) + 1 = Count(g, b)
        BY <4>1, <3>2, <2>5
      <4>3. f + 1 = e + h
        BY <4>2, <3>0, <2>11 DEF new
      <4> QED BY <4>1, <4>3, <2>10, <2>11
    <3>3. CASE b # u /\ b # t
      <4>1. refs'[b] = refs[b]
        BY <3>3, <2>8
      <4>2. Count(c, b) = Count(g, b)
        BY <3>3, <2>5
      <4>3. f = e + h
        BY <4>2, <3>0, <2>11 DEF new
      <4> QED BY <4>1, <4>3, <2>11
    <3> QED BY <3>1, <3>2, <3>3
  <2> QED BY <2>6, <2>7, <2>12
<1> QED BY <1>8, <1>10, <1>11 DEF IInv
-----------------------------------------------------------------------------
LEMMA InitStep ==
    ASSUME Init
    PROVE  IInv
<1>1. /\ refs = [b \in Blocks |-> 0] /\ cells = [b \in Blocks |-> NoTokens]
      /\ published = [b \in Blocks |-> << >>]
      /\ evictable = << >> /\ index = << >> /\ tables = << >> /\ lens = << >>
      /\ call = NoCall /\ built = << >> /\ todo = << >>
  BY DEF Init
<1>2. free \in SetToSeqs(Blocks)
  BY DEF Init
<1>3. Cardinality(Blocks) \in Nat /\ IsFiniteSet(Blocks)
  BY FS_CardinalityType, PagedAssumption
<1>4. free \in Seq(Blocks) /\ IsInjective(free) /\ ToSet(free) = Blocks
  BY <1>2, <1>3, EachElementOnce
<1>7. ToSet(evictable) = {} /\ IsInjective(evictable) /\ evictable \in Seq(Blocks)
  BY <1>1, EmptySeq DEF ToSet, IsInjective
<1>8. DOMAIN index = {} /\ DOMAIN tables = {} /\ DOMAIN lens = {}
  BY <1>1
<1>9. PoolOK
  <2>1. PoolType
    <3>1. NoTokens \in CellsType
      BY DEF NoTokens, CellsType
    <3> QED BY <3>1, <1>1, <1>4, <1>7, <1>8, NoPrefix DEF PoolType
  <2>2. Listed
    BY <1>1, <1>4, <1>7 DEF Listed
  <2>3. IndexSound /\ PublishedImmutable
    BY <1>1, <1>8 DEF IndexSound, PublishedImmutable
  <2> QED BY <2>1, <2>2, <2>3 DEF PoolOK
<1>10. TablesOK
  BY <1>8, FS_EmptySet DEF TablesOK
<1>11. ListsOK /\ CallOK
  BY <1>1, EmptySeq DEF ListsOK, CallOK
<1>12. RefsExact
  <2> SUFFICES ASSUME NEW b \in Blocks
               PROVE  refs[b] = Cardinality(EntriesIn(tables, b))
                                + Count(built, b) + Count(todo, b)
    BY RefsHeld
  <2>1. EntriesIn(tables, b) = {}
    BY <1>8 DEF EntriesIn
  <2>2. Cardinality(EntriesIn(tables, b)) = 0
    BY <2>1, FS_EmptySet
  <2>3. Count(built, b) = 0 /\ Count(todo, b) = 0
    BY <1>1, CountEmpty
  <2> QED BY <2>2, <2>3, <1>1
<1> QED BY <1>9, <1>10, <1>11, <1>12 DEF IInv

LEMMA StutterStep ==
    ASSUME IInv, UNCHANGED vars
    PROVE  IInv'
<1>1. /\ refs' = refs /\ cells' = cells /\ published' = published /\ free' = free
      /\ evictable' = evictable /\ index' = index /\ tables' = tables /\ lens' = lens
      /\ call' = call /\ built' = built /\ todo' = todo
  BY DEF vars, poolVars
<1>2. PoolOK'
  BY <1>1, PoolUnchanged DEF IInv, poolVars
<1>3. TablesOK'
  BY <1>1 DEF IInv, TablesOK, BlocksToHold
<1>4. ListsOK' /\ CallOK'
  BY <1>1 DEF IInv, ListsOK, CallOK, InCall, Allocating, Copying, Writing,
              BlocksToHold, WholeBlocks
<1>5. RefsExact'
  BY <1>1, RefsHeld, RefsHeldNext DEF IInv
<1> QED BY <1>2, <1>3, <1>4, <1>5 DEF IInv

LEMMA Inductive ==
    ASSUME IInv, [Next]_vars
    PROVE  IInv'
<1>1. ASSUME NEW s \in Seqs, FreeSeq(s) PROVE IInv'
  BY <1>1, FreeSeqStep
<1>2. ASSUME NEW s \in Seqs, NEW n \in 0..MaxTokens, Truncate(s, n) PROVE IInv'
  BY <1>2, TruncateStep
<1>3. ASSUME NEW s \in Seqs, NEW toks \in SeqOf(Words, MaxTokens),
             NEW limit \in 0..WholeBlocks(Len(toks)), Allocate(s, toks, limit)
      PROVE  IInv'
  BY <1>3, AllocateStep
<1>4. ASSUME NEW s \in Seqs, NEW from \in Seqs, NEW n \in 1..MaxTokens,
             SharePrefix(from, s, n)
      PROVE  IInv'
  BY <1>4, SharePrefixStep
<1>5. ASSUME NEW s \in Seqs, NEW from \in Seqs, Fork(from, s) PROVE IInv'
  BY <1>5, ForkStep
<1>6. ASSUME NEW s \in Seqs, NEW p \in 0..MaxTokens, NEW w \in Words, Write(s, p, w)
      PROVE  IInv'
  BY <1>6, WriteStep
<1>7. CASE Release
  BY <1>7, ReleaseStep
<1>8. CASE ShareBlock
  BY <1>8, ShareBlockStep
<1>9. CASE ShareDone
  BY <1>9, ShareDoneStep
<1>10. CASE FillBlock
  BY <1>10, FillBlockStep
<1>11. CASE CopyReference
  BY <1>11, CopyReferenceStep
<1>12. CASE CopyTail
  BY <1>12, CopyTailStep
<1>13. CASE Install
  BY <1>13, InstallStep
<1>14. CASE Grow
  BY <1>14, GrowStep
<1>15. CASE WriteInPlace
  BY <1>15, WriteInPlaceStep
<1>16. CASE WriteCopy
  BY <1>16, WriteCopyStep
<1>17. CASE OutOfBlocks
  BY <1>17, OutOfBlocksStep
<1>18. CASE UNCHANGED vars
  BY <1>18, StutterStep
<1>19. CASE Begin
  BY <1>19, <1>1, <1>2, <1>3, <1>4, <1>5, <1>6 DEF Begin
<1>20. CASE Continue
  BY <1>20, <1>7, <1>8, <1>9, <1>10, <1>11, <1>12, <1>13, <1>14, <1>15, <1>16,
     <1>17 DEF Continue
<1> QED BY <1>18, <1>19, <1>20 DEF Next

LEMMA PagedInvariance == Spec => []IInv
<1>1. Init => IInv
  BY InitStep
<1>2. IInv /\ [Next]_vars => IInv'
  BY Inductive
<1> QED BY <1>1, <1>2, PTL DEF Spec
-----------------------------------------------------------------------------
(***************************************************************************)
(* Whatever calls are made in whatever order, and whether or not they run  *)
(* out of blocks, a table has exactly the blocks that its tokens need, and *)
(* no reference count falls below zero (the release paths of paged_kv.py). *)
(***************************************************************************)
THEOREM PagedTypes == Spec => []TypeOK
<1>1. ASSUME IInv PROVE TypeOK
  <2>1. /\ \A s \in DOMAIN lens : /\ lens[s] \in 0..MaxTokens
                                  /\ Len(tables[s]) = BlocksToHold(lens[s])
        /\ DOMAIN tables \subseteq Seqs /\ DOMAIN lens = DOMAIN tables
        /\ \A s \in DOMAIN tables : tables[s] \in Seq(Blocks)
    BY <1>1 DEF IInv, TablesOK
  <2>2. call.op \in {"none", "share", "fill", "copy", "write"}
    BY <1>1 DEF IInv, CallOK, InCall, CallRecords, NoCall
  <2>3. built \in Seq(Blocks) /\ todo \in Seq(Blocks)
    BY <1>1 DEF IInv, ListsOK
  <2>4. PoolType
    BY <1>1 DEF IInv, PoolOK
  <2> QED BY <2>1, <2>2, <2>3, <2>4 DEF TypeOK, PoolType, CellsType
<1> QED BY <1>1, PagedInvariance, PTL

(***************************************************************************)
(* What check_invariants asserts (paged_kv.py:410-442) is true in every    *)
(* state, also within a call: the reference counts are the table entries   *)
(* and the blocks on the way in and out, and each block is free, evictable *)
(* or referenced, in exactly one of the three.                             *)
(***************************************************************************)
THEOREM BlocksAreAccounted == Spec => []BlocksAccounted
<1>1. ASSUME IInv PROVE BlocksAccounted
  BY <1>1 DEF IInv, PoolOK, Listed, BlocksAccounted
<1> QED BY <1>1, PagedInvariance, PTL

(***************************************************************************)
(* The index of _publish_locked and _evict_one_locked has no stale entry,  *)
(* whatever the hash function and however it collides.                     *)
(***************************************************************************)
THEOREM IndexIsSound == Spec => []IndexSound
<1>1. ASSUME IInv PROVE IndexSound
  BY <1>1 DEF IInv, PoolOK
<1> QED BY <1>1, PagedInvariance, PTL

(***************************************************************************)
(* Nothing that allocate, write, share_prefix or an eviction does changes  *)
(* the cells of a block that carries a hash.                               *)
(***************************************************************************)
THEOREM PublishedAreImmutable == Spec => []PublishedImmutable
<1>1. ASSUME IInv PROVE PublishedImmutable
  BY <1>1 DEF IInv, PoolOK
<1> QED BY <1>1, PagedInvariance, PTL
-----------------------------------------------------------------------------
(***************************************************************************)
(* The paged allocator implements the store of KVStore, for every value of *)
(* its constants: sharing, copy-on-write and eviction are invisible.       *)
(***************************************************************************)

(* What the refinement mapping makes of the call in progress. *)
PromiseView == IF call = NoCall THEN << >> ELSE <<call.seq, Promised>>

(* Token i of a sequence is in block BlockOf(i) of its table, in this cell. *)
BlockOf(i) == WholeBlocks(i - 1) + 1
CellOf(i)  == ((i - 1) % BlockSize) + 1

(***************************************************************************)
(* What the refinement rests on besides the invariant of the allocator:    *)
(* the blocks a call has gathered hold what it promised: those that a      *)
(* table is to grow by hold nothing.                                       *)
(***************************************************************************)
Gathering ==
    /\ call.op \in {"share", "fill"} =>
          \A j \in 1..Len(built) : cells[built[j]] = CellsOf(call.toks, j)
    /\ call.op = "copy" =>
          \A j \in 1..Len(built) : \A k \in 1..BlockSize :
             (j - 1) * BlockSize + k <= call.n =>
                cells[built[j]][k] = cells[tables[call.from][j]][k]
    /\ call.op = "write" =>
          \A j \in 1..Len(built) : cells[built[j]] = NoTokens

(* What a cell may hold. *)
Cell == Words \cup {EMPTY}

StoreTyped ==
    /\ \A s \in Seqs : Contents[s] \in Seq(Cell)
    /\ call # NoCall => Promised \in Seq(Cell)

SInv == Gathering /\ StoreTyped
-----------------------------------------------------------------------------
(* Where the tokens are. *)

LEMMA Positions ==
    ASSUME NEW n \in Nat, NEW i \in 1..n
    PROVE  /\ BlockOf(i) \in 1..BlocksToHold(n) /\ CellOf(i) \in 1..BlockSize
           /\ (BlockOf(i) - 1) * BlockSize + CellOf(i) = i
<1>1. PICK m \in Nat : m = i - 1 /\ m < n /\ i = m + 1
  OBVIOUS
<1>2. /\ WholeBlocks(m) \in Nat /\ m % BlockSize \in 0..(BlockSize - 1)
      /\ m = WholeBlocks(m) * BlockSize + (m % BlockSize)
  BY Division
<1>3. BlocksToHold(n) \in Nat /\ WholeBlocks(m) + 1 <= BlocksToHold(n)
  BY <1>1, HoldingBlocks, HoldingMonotone
<1>4. BlockOf(i) = WholeBlocks(m) + 1 /\ CellOf(i) = (m % BlockSize) + 1
  BY <1>1 DEF BlockOf, CellOf
<1>5. BlockOf(i) \in 1..BlocksToHold(n)
  BY <1>2, <1>3, <1>4
<1>6. CellOf(i) \in 1..BlockSize
  BY <1>2, <1>4, PagedAssumption
<1>7. (BlockOf(i) - 1) * BlockSize + CellOf(i) = i
  <2>1. BlockOf(i) - 1 = WholeBlocks(m)
    BY <1>2, <1>4
  <2>2. PICK q \in Nat : q = WholeBlocks(m) * BlockSize
    BY <1>2, PagedAssumption
  <2>3. PICK r \in Nat : r = m % BlockSize
    BY <1>2, PagedAssumption
  <2>4. q + (r + 1) = i
    BY <1>1, <1>2, <2>2, <2>3
  <2> QED BY <2>1, <2>2, <2>3, <2>4, <1>4
<1> QED BY <1>5, <1>6, <1>7

(* The blocks of a table are in reach of its tokens. *)
LEMMA TokenBlock ==
    ASSUME TablesOK, NEW s \in DOMAIN tables, NEW i \in 1..lens[s]
    PROVE  /\ BlockOf(i) \in 1..Len(tables[s]) /\ CellOf(i) \in 1..BlockSize
           /\ tables[s][BlockOf(i)] \in Blocks
           /\ (BlockOf(i) - 1) * BlockSize + CellOf(i) = i
<1>1. lens[s] \in Nat /\ Len(tables[s]) = BlocksToHold(lens[s]) /\ tables[s] \in Seq(Blocks)
  BY PagedAssumption DEF TablesOK
<1>2. /\ BlockOf(i) \in 1..Len(tables[s]) /\ CellOf(i) \in 1..BlockSize
      /\ (BlockOf(i) - 1) * BlockSize + CellOf(i) = i
  BY <1>1, Positions
<1>3. tables[s][BlockOf(i)] \in Blocks
  BY <1>1, <1>2, ElementOfSeq
<1> QED BY <1>2, <1>3

LEMMA AllContents ==
    /\ Contents = [s \in Seqs |-> Contents[s]]
    /\ Contents' = [s \in Seqs |-> Contents'[s]]
  BY DEF Contents

LEMMA ContentsAre ==
    ASSUME TablesOK, NEW s \in Seqs
    PROVE  /\ s \in DOMAIN tables =>
                 /\ LenOf(s) = lens[s]
                 /\ Contents[s] = [i \in 1..lens[s] |-> cells[tables[s][BlockOf(i)]][CellOf(i)]]
           /\ s \notin DOMAIN tables => LenOf(s) = 0 /\ Contents[s] = << >>
           /\ LenOf(s) \in Nat
<1>1. DOMAIN lens = DOMAIN tables
  BY DEF TablesOK
<1>2. ASSUME s \in DOMAIN tables
      PROVE  /\ LenOf(s) = lens[s] /\ lens[s] \in Nat
             /\ Contents[s] = [i \in 1..lens[s] |-> cells[tables[s][BlockOf(i)]][CellOf(i)]]
  <2>1. LenOf(s) = lens[s] /\ lens[s] \in Nat
    BY <1>1, <1>2, PagedAssumption DEF LenOf, TablesOK
  <2> QED BY <2>1 DEF Contents, BlockOf, CellOf
<1>3. ASSUME s \notin DOMAIN tables
      PROVE  LenOf(s) = 0 /\ Contents[s] = << >>
  <2>1. LenOf(s) = 0
    BY <1>1, <1>3 DEF LenOf
  <2> QED BY <2>1 DEF Contents
<1> QED BY <1>2, <1>3

LEMMA ContentsAreNext ==
    ASSUME TablesOK', NEW s \in Seqs
    PROVE  /\ s \in DOMAIN tables' =>
                 Contents'[s] = [i \in 1..lens'[s] |->
                                   cells'[tables'[s][BlockOf(i)]][CellOf(i)]]
           /\ s \notin DOMAIN tables' => Contents'[s] = << >>
<1>1. DOMAIN lens' = DOMAIN tables'
  BY DEF TablesOK
<1>2. ASSUME s \in DOMAIN tables'
      PROVE  Contents'[s] = [i \in 1..lens'[s] |->
                                cells'[tables'[s][BlockOf(i)]][CellOf(i)]]
  <2>1. LenOf(s)' = lens'[s]
    BY <1>1, <1>2 DEF LenOf
  <2> QED BY <2>1 DEF Contents, BlockOf, CellOf, WholeBlocks
<1>3. ASSUME s \notin DOMAIN tables'
      PROVE  Contents'[s] = << >>
  <2>1. LenOf(s)' = 0
    BY <1>1, <1>3 DEF LenOf
  <2> QED BY <2>1 DEF Contents
<1> QED BY <1>2, <1>3

(* The store sees a sequence unchanged whose table and blocks are. *)
LEMMA ContentsKept ==
    ASSUME TablesOK, TablesOK', NEW s \in Seqs,
           s \in DOMAIN tables' <=> s \in DOMAIN tables,
           s \in DOMAIN tables =>
              /\ lens'[s] = lens[s] /\ tables'[s] = tables[s]
              /\ \A i \in 1..Len(tables[s]) : cells'[tables[s][i]] = cells[tables[s][i]]
    PROVE  Contents'[s] = Contents[s]
<1>1. CASE s \in DOMAIN tables
  <2>1. \A i \in 1..lens[s] : cells'[tables[s][BlockOf(i)]] = cells[tables[s][BlockOf(i)]]
    BY <1>1, TokenBlock
  <2>2. Contents'[s] = [i \in 1..lens[s] |-> cells'[tables[s][BlockOf(i)]][CellOf(i)]]
    BY <1>1, ContentsAreNext
  <2>3. Contents[s] = [i \in 1..lens[s] |-> cells[tables[s][BlockOf(i)]][CellOf(i)]]
    BY <1>1, ContentsAre
  <2> QED BY <2>1, <2>2, <2>3
<1>2. CASE s \notin DOMAIN tables
  BY <1>2, ContentsAre, ContentsAreNext
<1> QED BY <1>1, <1>2
-----------------------------------------------------------------------------
(* The sequences of the store stay sequences. *)

LEMMA TypedView ==
    StoreTyped <=> /\ Contents \in [Seqs -> Seq(Cell)]
                   /\ PromiseView # << >> => PromiseView[2] \in Seq(Cell)
  BY AllContents DEF StoreTyped, PromiseView

LEMMA TypedViewNext ==
    StoreTyped' <=> /\ Contents' \in [Seqs -> Seq(Cell)]
                    /\ PromiseView' # << >> => PromiseView'[2] \in Seq(Cell)
  BY AllContents DEF StoreTyped, PromiseView, Cell

LEMMA StoreStepTyped ==
    ASSUME StoreTyped, [Store!Next]_(Store!vars)
    PROVE  StoreTyped'
<1>1. PICK v : v = Contents
  OBVIOUS
<1>2. PICK p : p = PromiseView
  OBVIOUS
<1>3. v \in [Seqs -> Seq(Cell)] /\ (p # << >> => p[2] \in Seq(Cell))
  BY <1>1, <1>2, TypedView
<1> DEFINE Typed == /\ Contents' \in [Seqs -> Seq(Cell)]
                    /\ PromiseView' # << >> => PromiseView'[2] \in Seq(Cell)
<1> SUFFICES Typed
  BY TypedViewNext
<1>4. ASSUME NEW s \in Seqs, NEW content \in Seq(Cell), Store!Replace(s, content)
      PROVE  Typed
  <2>1. PromiseView' = <<s, content>> /\ Contents' = [v EXCEPT ![s] = << >>]
    BY <1>1, <1>4 DEF Store!Replace, PromiseView
  <2>2. << >> \in Seq(Cell)
    BY EmptySeq
  <2> QED BY <2>1, <2>2, <1>3
<1>5. ASSUME NEW s \in Seqs, NEW from \in Seqs, NEW n \in 1..Len(Contents[from]),
             Store!Copy(from, s, n)
      PROVE  Typed
  <2>1. v[from] \in Seq(Cell) /\ Len(v[from]) \in Nat /\ n \in 1..Len(v[from])
    BY <1>1, <1>3, LenProperties
  <2>2. SubSeq(v[from], 1, n) \in Seq(Cell)
    <3>1. \A i \in 1..n : v[from][i] \in Cell
      BY <2>1, ElementOfSeq
    <3> QED BY <3>1, <2>1, SubSeqProperties
  <2>3. Store!Replace(s, SubSeq(v[from], 1, n))
    BY <1>1, <1>5 DEF Store!Copy
  <2> QED BY <2>2, <2>3, <1>4
<1>6. ASSUME NEW s \in Seqs, NEW content, NEW i, NEW w, Store!Write(s, content, i, w)
      PROVE  Typed
  <2>1. /\ PromiseView' = <<s, content>> /\ Contents' = v
        /\ content \in Seq(Cell)
    BY <1>1, <1>6 DEF Store!Write, PromiseView, Cell
  <2> QED BY <2>1, <1>3
<1>7. ASSUME NEW s \in Seqs, NEW n \in 0..Len(Contents[s]), Store!Truncate(s, n)
      PROVE  Typed
  <2>1. PromiseView' = p /\ Contents' = [v EXCEPT ![s] = SubSeq(v[s], 1, n)]
    BY <1>1, <1>2, <1>7 DEF Store!Truncate, PromiseView
  <2>2. v[s] \in Seq(Cell) /\ Len(v[s]) \in Nat /\ n \in 0..Len(v[s])
    BY <1>1, <1>3, LenProperties
  <2>3. SubSeq(v[s], 1, n) \in Seq(Cell)
    <3>1. \A i \in 1..n : v[s][i] \in Cell
      BY <2>2, ElementOfSeq
    <3> QED BY <3>1, <2>2, SubSeqProperties
  <2> QED BY <2>1, <2>3, <1>3
<1>8. CASE Store!Finish
  <2>1. /\ p # << >> /\ Contents' = [v EXCEPT ![p[1]] = p[2]] /\ PromiseView' = << >>
    BY <1>1, <1>2, <1>8 DEF Store!Finish, PromiseView
  <2> QED BY <2>1, <1>3
<1>9. CASE Store!Fail
  <2>1. Contents' = v /\ PromiseView' = << >>
    BY <1>1, <1>9 DEF Store!Fail, PromiseView
  <2> QED BY <2>1, <1>3
<1>10. CASE UNCHANGED Store!vars
  <2>1. Contents' = v /\ PromiseView' = p
    BY <1>1, <1>2, <1>10 DEF Store!vars, PromiseView
  <2> QED BY <2>1, <1>3
<1>11. CASE Store!Begin
  <2>1. ASSUME NEW c \in Seq(Words) PROVE c \in Seq(Cell)
    <3>1. Words \subseteq Cell
      BY DEF Cell
    <3> QED BY <3>1, SeqDef
  <2> HIDE DEF Typed
  <2> QED BY <1>11, <1>4, <1>5, <1>6, <1>7, <2>1 DEF Store!Begin, PromiseView
<1> HIDE DEF Typed
<1> QED BY <1>8, <1>9, <1>10, <1>11 DEF Store!Next
-----------------------------------------------------------------------------
(***************************************************************************)
(* Which blocks a step may touch: none that a table or the call in         *)
(* progress names.                                                         *)
(***************************************************************************)
InTables(b) == \E s \in DOMAIN tables : \E i \in 1..Len(tables[s]) : tables[s][i] = b
InBuilt(b)  == \E i \in 1..Len(built) : built[i] = b

Undisturbed == \A b \in Blocks : InTables(b) \/ InBuilt(b) => cells'[b] = cells[b]

LEMMA NamedHasCount ==
    ASSUME IInv, NEW b \in Blocks
    PROVE  /\ refs[b] = Cardinality(EntriesIn(tables, b)) + Count(built, b) + Count(todo, b)
           /\ Cardinality(EntriesIn(tables, b)) \in Nat
           /\ Count(built, b) \in Nat /\ Count(todo, b) \in Nat
           /\ InTables(b) => Cardinality(EntriesIn(tables, b)) # 0
           /\ InBuilt(b) => Count(built, b) # 0
<1>1. /\ refs[b] = Cardinality(EntriesIn(tables, b)) + Count(built, b) + Count(todo, b)
      /\ Cardinality(EntriesIn(tables, b)) \in Nat
      /\ Count(built, b) \in Nat /\ Count(todo, b) \in Nat
  BY RefsHeld, HeldType DEF IInv
<1>2. ASSUME NEW s \in DOMAIN tables, NEW i \in 1..Len(tables[s]), tables[s][i] = b
      PROVE  Cardinality(EntriesIn(tables, b)) # 0
  <2>1. s \in Seqs /\ tables[s] \in Seq(Blocks) /\ ListOf(tables, s) = tables[s]
    BY DEF IInv, TablesOK, ListOf
  <2>2. Count(tables[s], b) # 0
    BY <2>1, <1>2, CountType
  <2>3. /\ Cardinality(EntriesOfOthers(tables, s, b)) \in Nat
        /\ Count(tables[s], b) \in Nat
        /\ Cardinality(EntriesIn(tables, b))
           = Cardinality(EntriesOfOthers(tables, s, b)) + Count(tables[s], b)
    BY <2>1, TablesFacts, EntriesSplit DEF IInv
  <2> QED BY <2>2, <2>3
<1>3. ASSUME NEW i \in 1..Len(built), built[i] = b PROVE Count(built, b) # 0
  BY <1>3, CountType DEF IInv, ListsOK
<1> QED BY <1>1, <1>2, <1>3 DEF InTables, InBuilt

LEMMA NamedIsHeld ==
    ASSUME IInv, NEW b \in Blocks, InTables(b) \/ InBuilt(b)
    PROVE  refs[b] > 0
  BY NamedHasCount

(* The block that is taken from the pool is nobody's. *)
LEMMA TakingDisturbsNobody ==
    ASSUME IInv, NEW contents, NEW prefix, TakeBlock(contents, prefix)
    PROVE  /\ Undisturbed
           /\ Taken \in Blocks /\ cells'[Taken] = contents
<1>1. PICK t : t = Taken
  OBVIOUS
<1>2. t \in Blocks /\ refs[t] = 0
  BY <1>1, TakenFacts DEF IInv, TakeBlock
<1>3. cells' = [cells EXCEPT ![t] = contents] /\ cells \in [Blocks -> CellsType]
  BY <1>1 DEF TakeBlock, IInv, PoolOK, PoolType
<1>4. ASSUME NEW b \in Blocks, InTables(b) \/ InBuilt(b) PROVE cells'[b] = cells[b]
  <2>1. refs[b] > 0
    BY <1>4, NamedIsHeld
  <2>2. b # t
    BY <1>2, <2>1
  <2> QED BY <2>2, <1>3
<1> QED BY <1>1, <1>2, <1>3, <1>4 DEF Undisturbed

(* A block is cleared when its last reference is released. *)
LEMMA ReleaseDisturbsNobody ==
    ASSUME IInv, Release
    PROVE  Undisturbed
<1>1. PICK a : a = Head(todo)
  OBVIOUS
<1>2. /\ todo # << >> /\ todo \in Seq(Blocks)
      /\ IF refs[a] = 1 /\ published[a] = << >> THEN cells' = [cells EXCEPT ![a] = NoTokens]
         ELSE cells' = cells
  BY <1>1 DEF Release, IInv, ListsOK
<1>3. ASSUME NEW b \in Blocks, InTables(b) \/ InBuilt(b), b = a PROVE refs[a] # 1
  <2>1. Count(todo, b) # 0
    <3>1. 1 \in 1..Len(todo) /\ todo[1] = b
      BY <1>1, <1>2, <1>3, LenProperties, EmptySeq, HeadTailProperties
    <3> QED BY <3>1, <1>2, CountType
  <2> QED BY <2>1, <1>3, NamedHasCount
<1>4. ASSUME NEW b \in Blocks, InTables(b) \/ InBuilt(b) PROVE cells'[b] = cells[b]
  <2>1. CASE b = a
    BY <2>1, <1>2, <1>3, <1>4
  <2>2. CASE b # a
    BY <2>2, <1>2 DEF IInv, PoolOK, PoolType
  <2> QED BY <2>1, <2>2
<1> QED BY <1>4 DEF Undisturbed
-----------------------------------------------------------------------------
(***************************************************************************)
(* The steps between the first and the last of a call are invisible.       *)
(***************************************************************************)
LEMMA SequencesKept ==
    ASSUME IInv, IInv', Undisturbed, UNCHANGED <<tables, lens>>
    PROVE  \A s \in Seqs : Contents'[s] = Contents[s]
<1> SUFFICES ASSUME NEW s \in Seqs PROVE Contents'[s] = Contents[s]
  OBVIOUS
<1>1. TablesOK /\ TablesOK'
  BY DEF IInv
<1>2. ASSUME s \in DOMAIN tables, NEW i \in 1..Len(tables[s])
      PROVE  cells'[tables[s][i]] = cells[tables[s][i]]
  <2>1. tables[s][i] \in Blocks
    BY <1>1, <1>2, ElementOfSeq DEF TablesOK
  <2>2. InTables(tables[s][i])
    BY <1>2 DEF InTables
  <2> QED BY <2>1, <2>2 DEF Undisturbed
<1>3. tables' = tables /\ lens' = lens
  OBVIOUS
<1> QED BY <1>1, <1>2, <1>3, ContentsKept

LEMMA TableBlocksKept ==
    ASSUME IInv, Undisturbed, NEW s \in DOMAIN tables, NEW i \in 1..Len(tables[s])
    PROVE  cells'[tables[s][i]] = cells[tables[s][i]]
<1>1. tables[s][i] \in Blocks
  BY ElementOfSeq DEF IInv, TablesOK
<1>2. InTables(tables[s][i])
  BY DEF InTables
<1> QED BY <1>1, <1>2 DEF Undisturbed

(* The call still promises the same. *)
SamePromise ==
    \/ call = NoCall /\ call' = NoCall
    \/ /\ call # NoCall /\ call' # NoCall
       /\ call'.seq = call.seq /\ call'.from = call.from
       /\ call'.toks = call.toks /\ call'.n = call.n
       /\ \/ call'.op = call.op
          \/ call.op = "share" /\ call'.op = "fill"

LEMMA Invisible ==
    ASSUME IInv, IInv', Undisturbed, UNCHANGED <<tables, lens>>, SamePromise
    PROVE  UNCHANGED Store!vars
<1>1. \A s \in Seqs : Contents'[s] = Contents[s]
  BY SequencesKept
<1>2. Contents' = Contents
  BY <1>1 DEF Contents
<1>3. PromiseView' = PromiseView
  <2>1. CASE call = NoCall
    BY <2>1 DEF SamePromise, PromiseView
  <2>2. CASE call # NoCall
    <3>1. call.seq \in Seqs /\ call.from \in Seqs
      BY <2>2 DEF IInv, CallOK, InCall, CallRecords
    <3>2. PICK s \in Seqs : s = call.seq /\ s = call'.seq
      BY <2>2, <3>1 DEF SamePromise
    <3>3. PICK f \in Seqs : f = call.from /\ f = call'.from
      BY <2>2, <3>1 DEF SamePromise
    <3>5. Contents'[s] = Contents[s] /\ Contents'[f] = Contents[f]
      BY <1>1
    <3>6. /\ call' # NoCall
          /\ call'.toks = call.toks /\ call'.n = call.n
          /\ \/ call'.op = call.op
             \/ call.op = "share" /\ call'.op = "fill"
      BY <2>2 DEF SamePromise
    <3>4. call.op \in {"share", "fill", "copy", "write"}
      BY <2>2 DEF IInv, CallOK, InCall, CallRecords
    <3>7. ASSUME call.op # "write" PROVE Promised' = Promised
      <4>1. CASE call.op \in {"share", "fill"}
        <5>1. Promised = call.toks /\ Promised' = call'.toks
          BY <3>6, <4>1 DEF Promised
        <5> QED BY <3>6, <5>1
      <4>2. CASE call.op = "copy"
        <5>1. /\ Promised = SubSeq(Contents[call.from], 1, call.n)
              /\ Promised' = SubSeq(Contents'[call'.from], 1, call'.n)
          BY <3>6, <4>2 DEF Promised
        <5> QED BY <3>3, <3>5, <3>6, <5>1
      <4> QED BY <3>4, <3>7, <4>1, <4>2
    <3>8. ASSUME call.op = "write" PROVE Promised' = Promised
      <4>1. /\ s \in DOMAIN tables /\ tables' = tables /\ lens' = lens
            /\ Len(tables[s]) \in Nat /\ lens[s] \in Nat /\ call.n \in Nat
        BY <3>2, <3>8, WriteFacts DEF Writing
      <4>2. PICK m \in Nat : m = IF call.n < lens[s] THEN lens[s] ELSE call.n + 1
        BY <4>1
      <4>3. ASSUME NEW i \in 1..m PROVE LeftAt(i)' = LeftAt(i)
        <5>1. WholeBlocks(i - 1) \in Nat
          <6>1. i - 1 \in Nat
            OBVIOUS
          <6> QED BY <6>1, Division
        <5>2. ASSUME WholeBlocks(i - 1) < Len(tables[s])
              PROVE  cells'[tables[s][WholeBlocks(i - 1) + 1]]
                     = cells[tables[s][WholeBlocks(i - 1) + 1]]
          <6>1. WholeBlocks(i - 1) + 1 \in 1..Len(tables[s])
            BY <5>1, <5>2, <4>1
          <6> QED BY <6>1, <4>1, TableBlocksKept
        <5>3. LeftAt(i) = IF i = call.n + 1 THEN call.toks[1]
                          ELSE IF WholeBlocks(i - 1) < Len(tables[s])
                          THEN cells[tables[s][WholeBlocks(i - 1) + 1]][((i - 1) % BlockSize) + 1]
                          ELSE EMPTY
          BY <3>2 DEF LeftAt
        <5>4. LeftAt(i)' = IF i = call.n + 1 THEN call.toks[1]
                          ELSE IF WholeBlocks(i - 1) < Len(tables[s])
                          THEN cells'[tables[s][WholeBlocks(i - 1) + 1]][((i - 1) % BlockSize) + 1]
                          ELSE EMPTY
          BY <3>2, <3>6, <4>1 DEF LeftAt, WholeBlocks
        <5> QED BY <5>2, <5>3, <5>4
      <4>4. Promised = [i \in 1..m |-> LeftAt(i)]
        BY <3>2, <3>8, <4>2 DEF Promised
      <4>5. Promised' = [i \in 1..m |-> LeftAt(i)']
        BY <3>2, <3>6, <3>8, <4>1, <4>2 DEF Promised
      <4> QED BY <4>3, <4>4, <4>5
    <3>9. Promised' = Promised
      BY <3>7, <3>8
    <3> QED BY <3>2, <3>6, <3>9, <2>2 DEF PromiseView
  <2> QED BY <2>1, <2>2
<1> QED BY <1>2, <1>3 DEF Store!vars, PromiseView
-----------------------------------------------------------------------------
(***************************************************************************)
(* What a call has gathered stays what it promised, and each block that is *)
(* added to it holds its part.                                             *)
(***************************************************************************)
Fits(j, x) ==
    /\ call.op \in {"share", "fill"} => cells'[x] = CellsOf(call.toks, j)
    /\ call.op = "copy" =>
          \A k \in 1..BlockSize :
             (j - 1) * BlockSize + k <= call.n =>
                cells'[x][k] = cells[tables[call.from][j]][k]
    /\ call.op = "write" => cells'[x] = NoTokens

LEMMA FitsStill ==
    ASSUME IInv, Gathering, Undisturbed, NEW j \in 1..Len(built)
    PROVE  Fits(j, built[j])
<1>1. built[j] \in Blocks /\ InBuilt(built[j])
  BY ElementOfSeq DEF IInv, ListsOK, InBuilt
<1>2. cells'[built[j]] = cells[built[j]]
  BY <1>1 DEF Undisturbed
<1> QED BY <1>2 DEF Gathering, Fits

LEMMA GatheringKept ==
    ASSUME IInv, IInv', Undisturbed, UNCHANGED <<tables, lens>>,
           SamePromise, call # NoCall,
           \A j \in 1..Len(built') : Fits(j, built'[j])
    PROVE  Gathering'
<1>1. /\ call'.toks = call.toks /\ call'.n = call.n /\ call'.from = call.from
      /\ call'.op = call.op \/ (call.op = "share" /\ call'.op = "fill")
  BY DEF SamePromise
<1>2. CASE call.op \in {"share", "fill"}
  <2>1. call'.op \in {"share", "fill"} /\ call'.op # "copy"
    BY <1>1, <1>2
  <2>2. \A j \in 1..Len(built') : cells'[built'[j]] = CellsOf(call.toks, j)
    BY <1>2 DEF Fits
  <2>3. \A j : CellsOf(call.toks, j)' = CellsOf(call.toks, j)
    BY <1>1 DEF CellsOf
  <2>4. \A j \in 1..Len(built') : cells'[built'[j]] = CellsOf(call.toks, j)'
    BY <2>2, <2>3
  <2> QED BY <2>1, <2>4 DEF Gathering, CellsOf
<1>3. CASE call.op = "copy"
  <2>1. call'.op = "copy"
    BY <1>1, <1>3
  <2>2. /\ Len(built') \in Nat /\ Len(built') <= BlocksToHold(call.n)
        /\ BlocksToHold(call.n) <= Len(tables[call.from])
        /\ BlocksToHold(call.n) \in Nat /\ Len(tables[call.from]) \in Nat
        /\ tables[call.from] \in Seq(Blocks) /\ call.from \in DOMAIN tables
    <3>1. call' # NoCall /\ built' \in Seq(Blocks)
      BY DEF SamePromise, IInv, ListsOK
    <3>2. Copying'
      BY <3>1, <2>1 DEF IInv, CallOK, InCall
    <3>3. Len(built') <= BlocksToHold(call.n)
      BY <3>2, <1>1 DEF Copying, BlocksToHold
    <3> QED BY <3>1, <3>3, <1>3, CopyFacts, LenProperties DEF Copying
  <2>3. ASSUME NEW j \in 1..Len(built')
        PROVE  cells'[tables[call.from][j]] = cells[tables[call.from][j]]
    <3>1. j \in 1..Len(tables[call.from])
      BY <2>2
    <3>2. tables[call.from][j] \in Blocks /\ InTables(tables[call.from][j])
      BY <3>1, <2>2, ElementOfSeq DEF InTables
    <3> QED BY <3>2 DEF Undisturbed
  <2>4. ASSUME NEW j \in 1..Len(built'), NEW k \in 1..BlockSize,
               (j - 1) * BlockSize + k <= call.n
        PROVE  cells'[built'[j]][k] = cells'[tables[call.from][j]][k]
    BY <1>3, <2>3, <2>4 DEF Fits
  <2>5. \A j \in 1..Len(built') : \A k \in 1..BlockSize :
           (j - 1) * BlockSize + k <= call'.n =>
              cells'[built'[j]][k] = cells'[tables'[call'.from][j]][k]
    BY <2>4, <1>1
  <2> QED BY <2>1, <2>5 DEF Gathering
<1>4. CASE call.op = "write"
  <2>1. call'.op = "write"
    BY <1>1, <1>4
  <2>2. \A j \in 1..Len(built') : cells'[built'[j]] = NoTokens
    BY <1>4 DEF Fits
  <2> QED BY <2>1, <2>2 DEF Gathering, NoTokens
<1>5. CASE call.op \notin {"share", "fill", "copy", "write"}
  BY <1>1, <1>5 DEF Gathering
<1> QED BY <1>2, <1>3, <1>4, <1>5

LEMMA GatheringGrows ==
    ASSUME IInv, IInv', Gathering, Undisturbed, UNCHANGED <<tables, lens>>,
           call' = call, call # NoCall,
           NEW x \in Blocks, built' = Append(built, x), Fits(NextBlock, x)
    PROVE  Gathering' /\ UNCHANGED Store!vars
<1>1. /\ built \in Seq(Blocks) /\ Len(built) \in Nat
      /\ Len(built') = Len(built) + 1
      /\ \A j \in 1..Len(built) : built'[j] = built[j]
      /\ built'[Len(built) + 1] = x
  BY AppendProperties, LenProperties DEF IInv, ListsOK
<1>2. ASSUME NEW j \in 1..Len(built') PROVE Fits(j, built'[j])
  <2>1. CASE j \in 1..Len(built)
    BY <2>1, <1>1, FitsStill
  <2>2. CASE j \notin 1..Len(built)
    <3>1. j = Len(built) + 1
      BY <2>2, <1>1
    <3> QED BY <3>1, <1>1 DEF NextBlock
  <2> QED BY <2>1, <2>2
<1>3. SamePromise
  BY DEF SamePromise
<1> QED BY <1>2, <1>3, GatheringKept, Invisible
-----------------------------------------------------------------------------
(* The steps that no caller can see. *)

LEMMA ReleaseInvisible ==
    ASSUME IInv, IInv', SInv, Release
    PROVE  Gathering' /\ UNCHANGED Store!vars
<1>1. /\ tables' = tables /\ lens' = lens /\ call' = call /\ built' = built
      /\ Undisturbed
  BY ReleaseDisturbsNobody DEF Release
<1>2. SamePromise
  BY <1>1 DEF SamePromise
<1>3. ASSUME call = NoCall PROVE Gathering'
  BY <1>1, <1>3 DEF Gathering, NoCall
<1>4. ASSUME call # NoCall PROVE Gathering'
  <2>1. \A j \in 1..Len(built') : Fits(j, built'[j])
    BY <1>1, FitsStill DEF SInv
  <2> QED BY <1>1, <1>2, <1>4, <2>1, GatheringKept
<1> QED BY <1>1, <1>2, <1>3, <1>4, Invisible

LEMMA ShareDoneInvisible ==
    ASSUME IInv, IInv', SInv, ShareDone
    PROVE  Gathering' /\ UNCHANGED Store!vars
<1>1. /\ call.op = "share" /\ UNCHANGED <<poolVars, tables, lens, built, todo>>
      /\ call' = [call EXCEPT !.op = "fill", !.limit = Len(built)]
  BY DEF ShareDone, In
<1>2. Undisturbed /\ UNCHANGED <<tables, lens, built>>
  BY <1>1 DEF Undisturbed, poolVars
<1>3. call # NoCall /\ call \in CallRecords
  BY <1>1, InCallFacts DEF NoCall, IInv, InCall
<1>4. /\ call'.op = "fill" /\ call'.seq = call.seq /\ call'.from = call.from
      /\ call'.toks = call.toks /\ call'.n = call.n /\ call' # NoCall
  BY <1>1, <1>3 DEF CallRecords, NoCall
<1>5. SamePromise
  BY <1>1, <1>3, <1>4 DEF SamePromise
<1>6. \A j \in 1..Len(built') : Fits(j, built'[j])
  BY <1>2, FitsStill DEF SInv
<1> QED BY <1>2, <1>3, <1>5, <1>6, GatheringKept, Invisible

LEMMA ShareBlockInvisible ==
    ASSUME IInv, IInv', SInv, ShareBlock
    PROVE  Gathering' /\ UNCHANGED Store!vars
<1> DEFINE prefix == UpToBlock(call.toks, NextBlock)
<1>1. /\ call.op = "share" /\ NextBlock <= call.limit
      /\ Key(prefix) \in DOMAIN index /\ published[index[Key(prefix)]] # << >>
      /\ LastBlock(published[index[Key(prefix)]]) = LastBlock(prefix)
      /\ Acquire(index[Key(prefix)])
  BY DEF ShareBlock, In, Shareable, Resident
<1>2. PICK b \in Blocks : b = index[Key(prefix)]
  BY <1>1 DEF IInv, PoolOK, PoolType
<1>3. /\ built' = Append(built, b) /\ cells' = cells
      /\ UNCHANGED <<tables, lens, call>>
  BY <1>1, <1>2 DEF Acquire
<1>4. InCall /\ Allocating /\ call # NoCall
  BY <1>1, InCallFacts DEF IInv, InCall, NoCall
<1>5. PICK i \in 1..WholeBlocks(Len(call.toks)) : i = NextBlock
  <2>1. call.n \in Nat /\ call.limit \in Nat
    BY <1>4, PagedAssumption DEF InCall, CallRecords
  <2>2. built \in Seq(Blocks)
    BY DEF IInv, ListsOK
  <2>3. WholeBlocks(call.n) \in Nat /\ Len(built) \in Nat
    BY <2>1, <2>2, Division, LenProperties
  <2> QED BY <1>1, <1>4, <2>1, <2>3 DEF Allocating, NextBlock
<1>6. LastBlock(UpToBlock(call.toks, i)) = CellsOf(call.toks, i)
  BY <1>4, WholeBlockTokens DEF InCall, CallRecords
<1>7. cells[b] = LastBlock(published[b])
  BY <1>1, <1>2 DEF IInv, PoolOK, PublishedImmutable
<1>8. cells'[b] = CellsOf(call.toks, NextBlock)
  BY <1>1, <1>2, <1>3, <1>5, <1>6, <1>7
<1>9. Fits(NextBlock, b)
  BY <1>1, <1>8 DEF Fits
<1>10. Undisturbed
  BY <1>3 DEF Undisturbed
<1> QED BY <1>3, <1>4, <1>9, <1>10, GatheringGrows DEF SInv

LEMMA FillBlockInvisible ==
    ASSUME IInv, IInv', SInv, FillBlock
    PROVE  Gathering' /\ UNCHANGED Store!vars
<1>1. PICK contents : contents = CellsOf(call.toks, NextBlock)
  OBVIOUS
<1>2. PICK prefix : prefix = IF NextBlock <= WholeBlocks(call.n)
                             THEN UpToBlock(call.toks, NextBlock) ELSE << >>
  OBVIOUS
<1>3. /\ call.op = "fill" /\ TakeBlock(contents, prefix)
      /\ built' = Append(built, Taken) /\ UNCHANGED <<tables, lens, call>>
  BY <1>1, <1>2 DEF FillBlock, In
<1>4. Undisturbed /\ Taken \in Blocks /\ cells'[Taken] = contents
  BY <1>3, TakingDisturbsNobody
<1>5. Fits(NextBlock, Taken) /\ call # NoCall
  BY <1>1, <1>3, <1>4 DEF Fits, NoCall
<1> QED BY <1>3, <1>4, <1>5, GatheringGrows DEF SInv

LEMMA CopyReferenceInvisible ==
    ASSUME IInv, IInv', SInv, CopyReference
    PROVE  Gathering' /\ UNCHANGED Store!vars
<1>1. /\ call.op = "copy" /\ Len(built) < call.limit
      /\ Acquire(tables[call.from][NextBlock])
  BY DEF CopyReference, In
<1>2. /\ tables[call.from] \in Seq(Blocks)
      /\ BlocksToHold(call.n) <= Len(tables[call.from])
      /\ Len(tables[call.from]) \in Nat /\ BlocksToHold(call.n) \in Nat
      /\ call.limit \in Nat /\ call.limit <= BlocksToHold(call.n)
      /\ Len(built) \in Nat
  BY <1>1, CopyFacts
<1>3. NextBlock \in 1..Len(tables[call.from])
  BY <1>1, <1>2 DEF NextBlock
<1>4. PICK b \in Blocks : b = tables[call.from][NextBlock]
  BY <1>2, <1>3, ElementOfSeq
<1>5. /\ built' = Append(built, b) /\ cells' = cells /\ UNCHANGED <<tables, lens, call>>
  BY <1>1, <1>4 DEF Acquire
<1>6. Fits(NextBlock, b) /\ Undisturbed /\ call # NoCall
  BY <1>1, <1>4, <1>5 DEF Fits, Undisturbed, NoCall
<1> QED BY <1>5, <1>6, GatheringGrows DEF SInv

LEMMA CopyTailInvisible ==
    ASSUME IInv, IInv', SInv, CopyTail
    PROVE  Gathering' /\ UNCHANGED Store!vars
<1>1. /\ call.op = "copy" /\ Len(built) = call.limit /\ Len(built) < BlocksToHold(call.n)
      /\ TakeBlock(TailCells, << >>)
      /\ built' = Append(built, Taken)
      /\ UNCHANGED <<tables, lens, call>>
  BY DEF CopyTail, In, Unfilled
<1>2. /\ Copying /\ BlocksToHold(call.n) \in Nat /\ Len(built) \in Nat
      /\ WholeBlocks(call.n) \in Nat
  BY <1>1, CopyFacts
<1>3. Len(built) = WholeBlocks(call.n) /\ NextBlock - 1 = WholeBlocks(call.n)
  BY <1>1, <1>2 DEF Copying, NextBlock
<1>4. Undisturbed /\ Taken \in Blocks /\ cells'[Taken] = TailCells
  BY <1>1, TakingDisturbsNobody
<1>5. ASSUME NEW k \in 1..BlockSize, (NextBlock - 1) * BlockSize + k <= call.n
      PROVE  cells'[Taken][k] = cells[tables[call.from][NextBlock]][k]
  BY <1>3, <1>4, <1>5 DEF TailCells
<1>6. Fits(NextBlock, Taken) /\ call # NoCall
  BY <1>1, <1>5 DEF Fits, NoCall
<1> QED BY <1>1, <1>4, <1>6, GatheringGrows DEF SInv

LEMMA GrowInvisible ==
    ASSUME IInv, IInv', SInv, Grow
    PROVE  Gathering' /\ UNCHANGED Store!vars
<1>1. /\ call.op = "write" /\ TakeBlock(NoTokens, << >>)
      /\ built' = Append(built, Taken) /\ UNCHANGED <<tables, lens, call>>
  BY DEF Grow, In
<1>2. Undisturbed /\ Taken \in Blocks /\ cells'[Taken] = NoTokens
  BY <1>1, TakingDisturbsNobody
<1>3. Fits(NextBlock, Taken) /\ call # NoCall
  BY <1>1, <1>2 DEF Fits, NoCall
<1> QED BY <1>1, <1>2, <1>3, GatheringGrows DEF SInv
-----------------------------------------------------------------------------
(***************************************************************************)
(* The first step of a call.                                               *)
(***************************************************************************)
LEMMA ContentsLength ==
    ASSUME IInv, StoreTyped, NEW s \in Seqs
    PROVE  /\ Contents[s] \in Seq(Cell) /\ LenOf(s) \in Nat
           /\ Len(Contents[s]) = LenOf(s)
<1>1. Contents[s] \in Seq(Cell)
  BY DEF StoreTyped
<1>2. DOMAIN Contents[s] = 1..LenOf(s)
  BY DEF Contents
<1>3. LenOf(s) \in Nat
  BY ContentsAre DEF IInv
<1>4. DOMAIN Contents[s] = 1..Len(Contents[s]) /\ Len(Contents[s]) \in Nat
  BY <1>1, LenProperties
<1> QED BY <1>1, <1>2, <1>3, <1>4

LEMMA NothingGathered ==
    ASSUME built' = << >> \/ call' = NoCall
    PROVE  Gathering'
<1>1. CASE built' = << >>
  <2>1. 1..Len(built') = {}
    BY <1>1, EmptySeq
  <2> QED BY <2>1 DEF Gathering
<1>2. CASE call' = NoCall
  BY <1>2 DEF Gathering, NoCall
<1> QED BY <1>1, <1>2

LEMMA GivenUpView ==
    ASSUME IInv, IInv', call = NoCall, todo = << >>, NEW s \in Seqs, GiveUp(s),
           UNCHANGED <<poolVars, built>>
    PROVE  /\ Contents' = [Contents EXCEPT ![s] = << >>]
           /\ built' = << >>
<1>1. /\ built' = << >> /\ cells' = cells
      /\ DOMAIN tables' = DOMAIN tables \ {s}
      /\ \A r \in DOMAIN tables' : tables'[r] = tables[r] /\ lens'[r] = lens[r]
  BY GivenUp DEF poolVars
<1>2. TablesOK /\ TablesOK'
  BY DEF IInv
<1>3. ASSUME NEW r \in Seqs, r # s PROVE Contents'[r] = Contents[r]
  BY <1>1, <1>2, <1>3, ContentsKept
<1>4. Contents'[s] = << >>
  BY <1>1, <1>2, ContentsAreNext
<1>5. Contents = [r \in Seqs |-> Contents[r]] /\ Contents' = [r \in Seqs |-> Contents'[r]]
  BY AllContents
<1>6. ASSUME NEW v, v = Contents, NEW w, w = Contents'
      PROVE  w = [v EXCEPT ![s] = << >>]
  BY <1>3, <1>4, <1>5, <1>6
<1>7. Contents' = [Contents EXCEPT ![s] = << >>]
  BY <1>6
<1> QED BY <1>1, <1>7

LEMMA FreeSeqIsTruncate ==
    ASSUME IInv, IInv', SInv, NEW s \in Seqs, FreeSeq(s)
    PROVE  Gathering' /\ Store!Next
<1>1. /\ call = NoCall /\ todo = << >> /\ GiveUp(s) /\ call' = NoCall
      /\ UNCHANGED <<poolVars, built>>
  BY DEF FreeSeq, Idle
<1>2. Contents' = [Contents EXCEPT ![s] = << >>]
  BY <1>1, GivenUpView
<1>3. Contents[s] \in Seq(Cell) /\ Len(Contents[s]) \in Nat
  BY LenProperties DEF SInv, StoreTyped
<1>4. SubSeq(Contents[s], 1, 0) = << >>
  BY SubSeqEmpty
<1>5. Contents' = [Contents EXCEPT ![s] = SubSeq(Contents[s], 1, 0)]
  BY <1>2, <1>4
<1>6. PromiseView = << >> /\ PromiseView' = << >>
  BY <1>1 DEF PromiseView
<1>7. 0 \in 0..Len(Contents[s])
  BY <1>3
<1>8. Store!Truncate(s, 0)
  BY <1>5, <1>6, <1>7 DEF Store!Truncate, PromiseView
<1>9. Store!Begin
  BY <1>6, <1>7, <1>8 DEF Store!Begin, PromiseView
<1> QED BY <1>1, <1>9, NothingGathered DEF Store!Next

LEMMA Replaced ==
    ASSUME IInv, IInv', call = NoCall, todo = << >>, NEW s \in Seqs, GiveUp(s),
           UNCHANGED <<poolVars, built>>,
           call' # NoCall, call'.seq = s, Promised' \in Seq(Words)
    PROVE  Gathering' /\ Store!Next
<1>1. Contents' = [Contents EXCEPT ![s] = << >>] /\ built' = << >>
  BY GivenUpView
<1>2. PromiseView = << >> /\ PromiseView' = <<s, Promised'>>
  BY DEF PromiseView
<1>3. PromiseView' # << >> /\ PromiseView'[2] \in Seq(Words)
      /\ PromiseView' = <<s, PromiseView'[2]>>
  BY <1>2
<1>4. Store!Replace(s, PromiseView'[2])
  BY <1>1, <1>2, <1>3 DEF Store!Replace, PromiseView
<1>5. Store!Begin
  BY <1>2, <1>3, <1>4 DEF Store!Begin, PromiseView
<1> QED BY <1>1, <1>5, NothingGathered DEF Store!Next

LEMMA AllocateIsReplace ==
    ASSUME IInv, IInv', SInv, NEW s \in Seqs, NEW toks \in SeqOf(Words, MaxTokens),
           NEW limit, Allocate(s, toks, limit)
    PROVE  Gathering' /\ Store!Next
<1>1. /\ call = NoCall /\ todo = << >> /\ GiveUp(s)
      /\ call' = CallOf("share", s, s, toks, Len(toks), limit)
      /\ UNCHANGED <<poolVars, built>>
  BY DEF Allocate, Idle
<1>2. call' # NoCall /\ call'.seq = s /\ call'.op = "share" /\ call'.toks = toks
  BY <1>1 DEF CallOf, NoCall
<1>3. Promised' = toks
  BY <1>2 DEF Promised
<1>4. toks \in Seq(Words)
  BY ShortSequences, PagedAssumption
<1> QED BY <1>1, <1>2, <1>3, <1>4, Replaced

LEMMA CopyIsReplace ==
    ASSUME IInv, IInv', SInv, call = NoCall, todo = << >>, NEW s \in Seqs,
           NEW from \in Seqs, from # s, NEW n \in 0..LenOf(from), NEW limit,
           GiveUp(s), call' = CallOf("copy", s, from, << >>, n, limit),
           UNCHANGED <<poolVars, built>>
    PROVE  Gathering' /\ Store!Next
<1>2. /\ call' # NoCall /\ call'.seq = s /\ call'.op = "copy"
      /\ call'.from = from /\ call'.n = n
  BY DEF CallOf, NoCall
<1>3. Promised' = SubSeq(Contents'[from], 1, n)
  BY <1>2 DEF Promised
<1>4. Contents'[from] = Contents[from]
  <2>1. Contents' = [Contents EXCEPT ![s] = << >>]
    BY GivenUpView
  <2> QED BY <2>1
<1>5. Contents[from] \in Seq(Cell) /\ Len(Contents[from]) = LenOf(from)
      /\ LenOf(from) \in Nat
  BY ContentsLength DEF SInv
<1>6. CASE n = 0
  <2>1. Promised' = << >>
    BY <1>3, <1>6, SubSeqEmpty
  <2>2. Promised' \in Seq(Words)
    BY <2>1, EmptySeq
  <2> QED BY <1>2, <2>2, Replaced
<1>7. CASE n # 0
  <2>1. n \in 1..Len(Contents[from])
    BY <1>5, <1>7
  <2>2. Contents' = [Contents EXCEPT ![s] = << >>] /\ built' = << >>
    BY GivenUpView
  <2>3. PromiseView = << >> /\ PromiseView' = <<s, SubSeq(Contents[from], 1, n)>>
    BY <1>2, <1>3, <1>4 DEF PromiseView
  <2>4. Store!Replace(s, SubSeq(Contents[from], 1, n))
    BY <2>2, <2>3 DEF Store!Replace, PromiseView
  <2>5. Store!Copy(from, s, n)
    BY <2>1, <2>4 DEF Store!Copy
  <2>6. Store!Begin
    BY <2>1, <2>3, <2>5 DEF Store!Begin, PromiseView
  <2> QED BY <2>2, <2>6, NothingGathered DEF Store!Next
<1> QED BY <1>6, <1>7

LEMMA SharePrefixIsReplace ==
    ASSUME IInv, IInv', SInv, NEW s \in Seqs, NEW from \in Seqs, NEW n, SharePrefix(from, s, n)
    PROVE  Gathering' /\ Store!Next
<1>1. /\ call = NoCall /\ todo = << >> /\ GiveUp(s) /\ from # s
      /\ n \in 1..LenOf(from)
      /\ call' = CallOf("copy", s, from, << >>, n, WholeBlocks(n))
      /\ UNCHANGED <<poolVars, built>>
  BY DEF SharePrefix, Idle
<1>2. n \in 0..LenOf(from)
  BY <1>1
<1> QED BY <1>1, <1>2, CopyIsReplace

LEMMA ForkIsReplace ==
    ASSUME IInv, IInv', SInv, NEW s \in Seqs, NEW from \in Seqs, Fork(from, s)
    PROVE  Gathering' /\ Store!Next
<1>1. /\ call = NoCall /\ todo = << >> /\ GiveUp(s) /\ from # s
      /\ from \in DOMAIN tables
      /\ call' = CallOf("copy", s, from, << >>, lens[from], Len(tables[from]))
      /\ UNCHANGED <<poolVars, built>>
  BY DEF Fork, Idle
<1>2. LenOf(from) = lens[from] /\ LenOf(from) \in Nat
  BY <1>1, ContentsAre DEF IInv
<1>3. lens[from] \in 0..LenOf(from)
  BY <1>2
<1> QED BY <1>1, <1>3, CopyIsReplace

(* The first n elements, as a function. *)
LEMMA StartOfSeq ==
    ASSUME NEW S, NEW t, NEW n \in Nat, \A i \in 1..n : t[i] \in S
    PROVE  SubSeq(t, 1, n) = [i \in 1..n |-> t[i]]
<1>1. /\ SubSeq(t, 1, n) \in Seq(S)
      /\ Len(SubSeq(t, 1, n)) = IF 1 <= n THEN n - 1 + 1 ELSE 0
      /\ \A i \in 1..(n - 1 + 1) : SubSeq(t, 1, n)[i] = t[1 + i - 1]
  BY SubSeqProperties
<1>2. Len(SubSeq(t, 1, n)) = n
  BY <1>1
<1>3. ASSUME NEW i \in 1..n PROVE SubSeq(t, 1, n)[i] = t[i]
  <2>1. i \in 1..(n - 1 + 1) /\ 1 + i - 1 = i
    OBVIOUS
  <2> QED BY <2>1, <1>1
<1>4. SubSeq(t, 1, n) = [i \in 1..n |-> SubSeq(t, 1, n)[i]]
  BY <1>1, <1>2, LenProperties
<1> QED BY <1>3, <1>4

(* One sequence changes. *)
LEMMA OneChanged ==
    ASSUME NEW s \in Seqs, NEW c, Contents'[s] = c,
           \A r \in Seqs : r # s => Contents'[r] = Contents[r]
    PROVE  Contents' = [Contents EXCEPT ![s] = c]
<1>1. Contents = [r \in Seqs |-> Contents[r]] /\ Contents' = [r \in Seqs |-> Contents'[r]]
  BY AllContents
<1>2. ASSUME NEW v, v = Contents, NEW w, w = Contents'
      PROVE  w = [v EXCEPT ![s] = c]
  BY <1>1, <1>2
<1> QED BY <1>2

LEMMA TruncateIsTruncate ==
    ASSUME IInv, IInv', SInv, NEW s \in Seqs, NEW n \in 0..MaxTokens, Truncate(s, n)
    PROVE  Gathering' /\ Store!Next
<1> DEFINE k == BlocksToHold(n)
           keep == SubSeq(tables[s], 1, k)
<1>1. /\ call = NoCall /\ todo = << >> /\ s \in DOMAIN tables
      /\ n \in 0..LenOf(s) /\ n \in Nat
      /\ tables' = IF keep = << >> THEN Pop(tables, s) ELSE Put(tables, s, keep)
      /\ lens' = IF keep = << >> THEN Pop(lens, s) ELSE Put(lens, s, n)
      /\ UNCHANGED <<poolVars, call, built>>
  BY PagedAssumption DEF Truncate, Idle
<1>2. TablesOK /\ TablesOK' /\ DOMAIN lens = DOMAIN tables
  BY DEF IInv, TablesOK
<1>3. /\ tables[s] \in Seq(Blocks) /\ Len(tables[s]) \in Nat
      /\ Len(tables[s]) = BlocksToHold(lens[s])
      /\ lens[s] \in Nat /\ LenOf(s) = lens[s] /\ n <= lens[s]
  <2>1. tables[s] \in Seq(Blocks) /\ Len(tables[s]) = BlocksToHold(lens[s]) /\ lens[s] \in Nat
    BY <1>1, <1>2, PagedAssumption DEF TablesOK
  <2>2. LenOf(s) = lens[s]
    BY <1>1, <1>2, ContentsAre
  <2> QED BY <2>1, <2>2, <1>1, LenProperties
<1>4. k \in 0..Len(tables[s]) /\ (k = 0 <=> n = 0)
  <2>1. k \in Nat /\ (k = 0 <=> n = 0)
    BY <1>1, HoldingBlocks
  <2>2. BlocksToHold(n) <= BlocksToHold(lens[s])
    BY <1>1, <1>3, HoldingMonotone
  <2> QED BY <2>1, <2>2, <1>3
<1>5. /\ keep \in Seq(Blocks) /\ Len(keep) = k
      /\ \A j \in 1..k : keep[j] = tables[s][j]
      /\ keep = << >> <=> n = 0
  <2>1. \A i \in 1..k : tables[s][i] \in Blocks
    BY <1>3, <1>4, ElementOfSeq
  <2>2. /\ keep \in Seq(Blocks) /\ Len(keep) = IF 1 <= k THEN k - 1 + 1 ELSE 0
        /\ \A i \in 1..(k - 1 + 1) : keep[i] = tables[s][1 + i - 1]
    BY <2>1, <1>4, SubSeqProperties
  <2>3. Len(keep) = k
    BY <2>2, <1>4
  <2>4. ASSUME NEW j \in 1..k PROVE keep[j] = tables[s][j]
    <3>1. j \in 1..(k - 1 + 1) /\ 1 + j - 1 = j
      BY <1>4
    <3> QED BY <3>1, <2>2
  <2>5. keep = << >> <=> k = 0
    BY <2>2, <2>3, EmptySeq
  <2> QED BY <2>2, <2>3, <2>4, <2>5, <1>4
<1>6. cells' = cells
  BY <1>1 DEF poolVars
<1> HIDE DEF k, keep
<1>7. ASSUME NEW r \in Seqs, r # s PROVE Contents'[r] = Contents[r]
  <2>1. /\ r \in DOMAIN tables' <=> r \in DOMAIN tables
        /\ r \in DOMAIN tables => lens'[r] = lens[r] /\ tables'[r] = tables[r]
    BY <1>1, <1>2, <1>7 DEF Put, Pop
  <2> QED BY <2>1, <1>2, <1>6, ContentsKept
<1>8. Contents'[s] = SubSeq(Contents[s], 1, n)
  <2>1. CASE n = 0
    <3>1. s \notin DOMAIN tables'
      BY <2>1, <1>1, <1>5 DEF Pop
    <3>2. Contents'[s] = << >>
      BY <3>1, <1>2, ContentsAreNext
    <3> QED BY <3>2, <2>1, SubSeqEmpty
  <2>2. CASE n # 0
    <3>1. /\ s \in DOMAIN tables' /\ tables'[s] = keep /\ lens'[s] = n
      BY <2>2, <1>1, <1>5 DEF Put
    <3>2. Contents'[s] = [i \in 1..n |-> cells[keep[BlockOf(i)]][CellOf(i)]]
      BY <3>1, <1>2, <1>6, ContentsAreNext
    <3>3. Contents[s] = [i \in 1..lens[s] |-> cells[tables[s][BlockOf(i)]][CellOf(i)]]
      BY <1>1, <1>2, ContentsAre
    <3>4. ASSUME NEW i \in 1..n
          PROVE  Contents'[s][i] = Contents[s][i] /\ Contents[s][i] \in Cell
      <4>1. BlockOf(i) \in 1..k
        BY <1>1, Positions DEF k
      <4>2. i \in 1..lens[s]
        BY <1>1, <1>3
      <4>3. Contents[s] \in Seq(Cell) /\ Len(Contents[s]) = lens[s]
        BY <1>3, ContentsLength DEF SInv
      <4>4. Contents[s][i] \in Cell
        BY <4>2, <4>3, ElementOfSeq
      <4>5. Contents'[s][i] = cells[keep[BlockOf(i)]][CellOf(i)]
        BY <3>2
      <4>6. Contents[s][i] = cells[tables[s][BlockOf(i)]][CellOf(i)]
        BY <3>3, <4>2
      <4> QED BY <4>1, <4>4, <4>5, <4>6, <1>5
    <3>5. SubSeq(Contents[s], 1, n) = [i \in 1..n |-> Contents[s][i]]
      <4>1. \A i \in 1..n : Contents[s][i] \in Cell
        BY <3>4
      <4> QED BY <4>1, <1>1, StartOfSeq
    <3>6. Contents'[s] = [i \in 1..n |-> Contents'[s][i]]
      BY <3>2
    <3> QED BY <3>4, <3>5, <3>6
  <2> QED BY <2>1, <2>2
<1>9. Contents' = [Contents EXCEPT ![s] = SubSeq(Contents[s], 1, n)]
  BY <1>7, <1>8, OneChanged
<1>10. PromiseView = << >> /\ PromiseView' = << >>
  BY <1>1 DEF PromiseView
<1>11. n \in 0..Len(Contents[s])
  BY <1>1, ContentsLength DEF SInv
<1>12. Store!Truncate(s, n)
  BY <1>9, <1>10, <1>11 DEF Store!Truncate, PromiseView
<1>13. Store!Begin
  BY <1>10, <1>11, <1>12 DEF Store!Begin, PromiseView
<1>14. call' = NoCall
  BY <1>1
<1> QED BY <1>13, <1>14, NothingGathered DEF Store!Next

LEMMA WriteIsWrite ==
    ASSUME IInv, IInv', SInv, NEW s \in Seqs, NEW p \in 0..MaxTokens, NEW w \in Words,
           Write(s, p, w)
    PROVE  Gathering' /\ Store!Next
<1>1. /\ call = NoCall /\ todo = << >>
      /\ tables' = Put(tables, s, TableOf(s))
      /\ lens' = Put(lens, s, LenOf(s))
      /\ call' = CallOf("write", s, s, <<w>>, p, 0)
      /\ cells' = cells /\ built' = built
  BY DEF Write, Idle, poolVars
<1>2. TablesOK /\ TablesOK' /\ DOMAIN lens = DOMAIN tables
  BY DEF IInv, TablesOK
<1>3. ASSUME NEW r \in Seqs PROVE Contents'[r] = Contents[r]
  <2>1. CASE r \in DOMAIN tables \/ r # s
    <3>1. /\ r \in DOMAIN tables' <=> r \in DOMAIN tables
          /\ r \in DOMAIN tables => lens'[r] = lens[r] /\ tables'[r] = tables[r]
      BY <2>1, <1>1, <1>2 DEF Put, TableOf, LenOf
    <3> QED BY <3>1, <1>1, <1>2, ContentsKept
  <2>2. CASE r \notin DOMAIN tables /\ r = s
    <3>1. Contents[r] = << >> /\ LenOf(s) = 0
      BY <2>2, <1>2, ContentsAre
    <3>2. r \in DOMAIN tables' /\ lens'[r] = 0
      BY <2>2, <3>1, <1>1 DEF Put
    <3>3. Contents'[r] = [i \in 1..0 |-> cells'[tables'[r][BlockOf(i)]][CellOf(i)]]
      BY <3>2, <1>2, ContentsAreNext
    <3>4. Contents'[r] = << >>
      BY <3>3
    <3> QED BY <3>1, <3>4
  <2> QED BY <2>1, <2>2
<1>4. Contents' = Contents
  BY <1>3, AllContents
<1>5. /\ call' # NoCall /\ call'.seq = s /\ call'.op = "write"
      /\ call'.n = p /\ call'.toks[1] = w
  BY <1>1 DEF CallOf, NoCall
<1>6. /\ p \in Nat /\ LenOf(s) \in Nat
      /\ Contents[s] \in Seq(Cell) /\ Len(Contents[s]) = LenOf(s)
  BY PagedAssumption, ContentsLength DEF SInv
<1>7. PICK m \in Nat : m = IF p < LenOf(s) THEN LenOf(s) ELSE p + 1
  BY <1>6
<1>8. tables'[s] = TableOf(s) /\ lens'[s] = LenOf(s)
  BY <1>1 DEF Put
<1>9. PICK t \in Seq(Blocks) : t = TableOf(s) /\ Len(t) \in Nat
  <2>1. TableOf(s) \in Seq(Blocks)
    BY <1>2, EmptySeq DEF TablesOK, TableOf
  <2> QED BY <2>1, LenProperties
<1> DEFINE left(i) == IF i = p + 1 THEN w
                      ELSE IF WholeBlocks(i - 1) < Len(t)
                      THEN cells[t[WholeBlocks(i - 1) + 1]][((i - 1) % BlockSize) + 1]
                      ELSE EMPTY
<1>10. Promised' = [i \in 1..m |-> left(i)]
  BY <1>1, <1>5, <1>7, <1>8, <1>9 DEF Promised, LeftAt, WholeBlocks
<1>11. ASSUME NEW i \in 1..m PROVE left(i) \in Cell
  <2>1. WholeBlocks(i - 1) \in Nat /\ ((i - 1) % BlockSize) + 1 \in 1..BlockSize
    <3>1. i - 1 \in Nat
      OBVIOUS
    <3>2. (i - 1) % BlockSize \in 0..(BlockSize - 1) /\ WholeBlocks(i - 1) \in Nat
      BY <3>1, Division
    <3> QED BY <3>2, PagedAssumption
  <2>2. CASE WholeBlocks(i - 1) < Len(t)
    <3>1. t[WholeBlocks(i - 1) + 1] \in Blocks
      BY <2>1, <2>2, <1>9, ElementOfSeq
    <3>2. cells[t[WholeBlocks(i - 1) + 1]] \in CellsType
      BY <3>1 DEF IInv, PoolOK, PoolType
    <3>3. cells[t[WholeBlocks(i - 1) + 1]][((i - 1) % BlockSize) + 1] \in Cell
      BY <3>2, <2>1 DEF CellsType, Cell
    <3> QED BY <3>3 DEF Cell
  <2>3. CASE ~ (WholeBlocks(i - 1) < Len(t))
    BY <2>3 DEF Cell
  <2> QED BY <2>2, <2>3
<1>12. ASSUME NEW i \in 1..Len(Contents[s]), i # p + 1
       PROVE  i \in 1..m /\ left(i) = Contents[s][i]
  <2>1. i \in 1..m
    BY <1>6, <1>7
  <2>2. s \in DOMAIN tables /\ t = tables[s] /\ LenOf(s) = lens[s]
    <3>1. s \in DOMAIN tables
      <4>1. SUFFICES ASSUME s \notin DOMAIN tables PROVE FALSE
        OBVIOUS
      <4>2. LenOf(s) = 0
        BY <4>1, <1>2, ContentsAre
      <4>3. i \in 1..0
        BY <4>2, <1>6
      <4> QED BY <4>3
    <3> QED BY <3>1, <1>2, <1>9, ContentsAre DEF TableOf
  <2>3. /\ Contents[s][i] = cells[t[BlockOf(i)]][CellOf(i)]
        /\ BlockOf(i) \in 1..Len(t)
    BY <1>2, <1>6, <2>2, ContentsAre, TokenBlock
  <2>4. WholeBlocks(i - 1) \in Nat
    <3>1. i - 1 \in Nat
      BY <2>1
    <3> QED BY <3>1, Division
  <2>5. WholeBlocks(i - 1) < Len(t)
    BY <2>3, <2>4, <1>9 DEF BlockOf
  <2> QED BY <2>1, <2>3, <2>5, <1>12 DEF BlockOf, CellOf
<1>13. PICK c : c = Promised'
  OBVIOUS
<1>14. /\ c \in Seq(Cell) /\ Len(c) = m
       /\ \A i \in 1..m : c[i] = left(i)
  <2> HIDE DEF left
  <2>1. c \in [1..m -> Cell] /\ \A i \in 1..m : c[i] = left(i)
    BY <1>10, <1>11, <1>13
  <2>2. c \in Seq(Cell)
    BY <2>1, SeqDef
  <2>3. Len(c) = m
    BY <2>1, <2>2, LenProperties
  <2> QED BY <2>1, <2>2, <2>3
<1>15. p + 1 \in 1..m /\ c[p + 1] = w
  BY <1>6, <1>7, <1>14
<1>16. \A i \in 1..Len(Contents[s]) : i # p + 1 => c[i] = Contents[s][i]
  BY <1>12, <1>14
<1> HIDE DEF left
<1>17. PromiseView = << >> /\ PromiseView' = <<s, c>>
  BY <1>1, <1>5, <1>13 DEF PromiseView
<1>18. Store!Write(s, c, p, w)
  BY <1>4, <1>6, <1>7, <1>14, <1>15, <1>16, <1>17 DEF Store!Write, PromiseView, Cell
<1>19. p \in 0..(Len(PromiseView'[2]) - 1)
  BY <1>6, <1>14, <1>15, <1>17
<1>20. Store!Begin
  BY <1>17, <1>18, <1>19 DEF Store!Begin, PromiseView
<1>21. built' = << >>
  BY <1>1, NotInCall DEF IInv
<1> QED BY <1>20, <1>21, NothingGathered DEF Store!Next
-----------------------------------------------------------------------------
(***************************************************************************)
(* The last step of a call: the sequence holds what was promised.          *)
(***************************************************************************)
LEMMA Finished ==
    ASSUME call # NoCall, call' = NoCall, call.seq \in Seqs,
           \A r \in Seqs : r # call.seq => Contents'[r] = Contents[r],
           Contents'[call.seq] = Promised
    PROVE  Gathering' /\ Store!Next
<1>1. Contents' = [Contents EXCEPT ![call.seq] = Promised]
  BY OneChanged
<1>2. PromiseView = <<call.seq, Promised>> /\ PromiseView' = << >>
  BY DEF PromiseView
<1>3. PromiseView # << >> /\ PromiseView[1] = call.seq /\ PromiseView[2] = Promised
  BY <1>2
<1>4. Store!Finish
  BY <1>1, <1>2, <1>3 DEF Store!Finish, PromiseView
<1> QED BY <1>4, NothingGathered DEF Store!Next

LEMMA OutOfBlocksIsFail ==
    ASSUME IInv, IInv', SInv, OutOfBlocks
    PROVE  Gathering' /\ Store!Next
<1>1. /\ call' = NoCall /\ UNCHANGED <<poolVars, tables, lens>>
      /\ call.op \in {"fill", "copy", "write"}
  BY DEF OutOfBlocks, NeedsBlock, In
<1>2. call # NoCall
  BY <1>1 DEF NoCall
<1>3. Undisturbed /\ UNCHANGED <<tables, lens>>
  BY <1>1 DEF Undisturbed, poolVars
<1>4. Contents' = Contents
  BY <1>3, SequencesKept, AllContents
<1>5. PromiseView = <<call.seq, Promised>> /\ PromiseView' = << >>
  BY <1>1, <1>2 DEF PromiseView
<1>6. PromiseView # << >>
  BY <1>5
<1>7. Store!Fail
  BY <1>4, <1>5, <1>6 DEF Store!Fail, PromiseView
<1> QED BY <1>1, <1>7, NothingGathered DEF Store!Next

LEMMA InstallIsFinish ==
    ASSUME IInv, IInv', SInv, Install
    PROVE  Gathering' /\ Store!Next
<1>1. /\ call.op \in {"fill", "copy"} /\ ~ (Len(built) < BlocksToHold(call.n))
      /\ tables' = Put(tables, call.seq, built)
      /\ lens' = Put(lens, call.seq, call.n)
      /\ call' = NoCall /\ cells' = cells
  BY DEF Install, In, Unfilled, poolVars
<1>2. /\ call # NoCall /\ call \in CallRecords
      /\ Len(built) <= BlocksToHold(call.n)
      /\ call.op = "fill" => call.n = Len(call.toks)
  BY <1>1, InCallFacts DEF IInv, InCall, Allocating, Copying, NoCall
<1>3. PICK s \in Seqs : s = call.seq
  BY <1>2 DEF CallRecords
<1>4. PICK n \in Nat : n = call.n
  BY <1>2, PagedAssumption DEF CallRecords
<1>5. built \in Seq(Blocks) /\ Len(built) \in Nat /\ BlocksToHold(n) \in Nat
  BY <1>4, HoldingBlocks, LenProperties DEF IInv, ListsOK
<1>6. Len(built) = BlocksToHold(n)
  BY <1>1, <1>2, <1>4, <1>5
<1>7. TablesOK /\ TablesOK' /\ DOMAIN lens = DOMAIN tables
  BY DEF IInv, TablesOK
<1>8. ASSUME NEW r \in Seqs, r # s PROVE Contents'[r] = Contents[r]
  <2>1. /\ r \in DOMAIN tables' <=> r \in DOMAIN tables
        /\ r \in DOMAIN tables => lens'[r] = lens[r] /\ tables'[r] = tables[r]
    BY <1>1, <1>3, <1>7, <1>8 DEF Put
  <2> QED BY <2>1, <1>1, <1>7, ContentsKept
<1>9. Contents'[s] = [i \in 1..n |-> cells[built[BlockOf(i)]][CellOf(i)]]
  <2>1. s \in DOMAIN tables' /\ tables'[s] = built /\ lens'[s] = n
    BY <1>1, <1>3, <1>4 DEF Put
  <2> QED BY <2>1, <1>1, <1>7, ContentsAreNext
<1>10. ASSUME NEW i \in 1..n
       PROVE  /\ BlockOf(i) \in 1..Len(built) /\ CellOf(i) \in 1..BlockSize
              /\ (BlockOf(i) - 1) * BlockSize + CellOf(i) = i
  BY <1>6, Positions
<1>11. Contents'[s] = Promised
  <2>1. CASE call.op = "fill"
    <3>1. call.toks \in Seq(Words) /\ Len(call.toks) = n
      BY <1>2, <1>4, <2>1, ShortSequences, PagedAssumption DEF CallRecords
    <3>2. ASSUME NEW i \in 1..n
          PROVE  cells[built[BlockOf(i)]][CellOf(i)] = call.toks[i]
      <4>1. cells[built[BlockOf(i)]] = CellsOf(call.toks, BlockOf(i))
        BY <2>1, <1>10 DEF SInv, Gathering
      <4>2. CellsOf(call.toks, BlockOf(i))[CellOf(i)]
            = IF (BlockOf(i) - 1) * BlockSize + CellOf(i) <= Len(call.toks)
              THEN call.toks[(BlockOf(i) - 1) * BlockSize + CellOf(i)] ELSE EMPTY
        BY <1>10 DEF CellsOf
      <4>3. CellsOf(call.toks, BlockOf(i))[CellOf(i)] = call.toks[i]
        BY <4>2, <3>1, <1>10
      <4> QED BY <4>1, <4>3
    <3>3. call.toks = [i \in 1..n |-> call.toks[i]]
      BY <3>1, LenProperties
    <3>4. Contents'[s] = call.toks
      BY <3>2, <3>3, <1>9
    <3> QED BY <3>4, <2>1 DEF Promised
  <2>2. CASE call.op = "copy"
    <3>1. Copying /\ call.from \in DOMAIN tables
      BY <2>2, CopyFacts DEF Copying
    <3>2. PICK f \in Seqs : f = call.from /\ f \in DOMAIN tables
      BY <3>1, <1>2 DEF CallRecords
    <3>3. n <= lens[f] /\ lens[f] \in Nat
      BY <3>1, <3>2, <1>4, <1>7, PagedAssumption DEF Copying, TablesOK
    <3>4. /\ Contents[f] = [i \in 1..lens[f] |-> cells[tables[f][BlockOf(i)]][CellOf(i)]]
          /\ Contents[f] \in Seq(Cell) /\ Len(Contents[f]) = lens[f]
      BY <3>2, <1>7, ContentsAre, ContentsLength DEF SInv
    <3>5. ASSUME NEW i \in 1..n
          PROVE  /\ cells[built[BlockOf(i)]][CellOf(i)] = Contents[f][i]
                 /\ Contents[f][i] \in Cell
      <4>1. i \in 1..lens[f] /\ i <= n
        BY <3>3
      <4>2. cells[built[BlockOf(i)]][CellOf(i)] = cells[tables[f][BlockOf(i)]][CellOf(i)]
        <5>1. \A j \in 1..Len(built) : \A k \in 1..BlockSize :
                 (j - 1) * BlockSize + k <= n => cells[built[j]][k] = cells[tables[f][j]][k]
          BY <2>2, <3>2, <1>4 DEF SInv, Gathering
        <5> QED BY <5>1, <4>1, <1>10
      <4>3. Contents[f][i] = cells[tables[f][BlockOf(i)]][CellOf(i)]
        BY <3>4, <4>1
      <4>4. Contents[f][i] \in Cell
        BY <3>4, <4>1, ElementOfSeq
      <4> QED BY <4>2, <4>3, <4>4
    <3>6. SubSeq(Contents[f], 1, n) = [i \in 1..n |-> Contents[f][i]]
      BY <3>5, StartOfSeq
    <3>7. Contents'[s] = SubSeq(Contents[f], 1, n)
      BY <3>5, <3>6, <1>9
    <3> QED BY <3>7, <3>2, <2>2, <1>4 DEF Promised
  <2> QED BY <2>1, <2>2, <1>1
<1> QED BY <1>1, <1>2, <1>3, <1>8, <1>11, Finished

(* The table of a write that has grown: its own entries first. *)
LEMMA GrownElements ==
    ASSUME tables[call.seq] \in Seq(Blocks), built \in Seq(Blocks)
    PROVE  /\ \A j \in 1..Len(tables[call.seq]) : GrownTable[j] = tables[call.seq][j]
           /\ \A j \in 1..Len(GrownTable) :
                 \/ \E i \in 1..Len(tables[call.seq]) : GrownTable[j] = tables[call.seq][i]
                 \/ \E i \in 1..Len(built) : GrownTable[j] = built[i]
           /\ \A j \in 1..Len(GrownTable) : ~ (j <= Len(tables[call.seq])) =>
                 \E i \in 1..Len(built) : GrownTable[j] = built[i]
<1>1. /\ Len(tables[call.seq]) \in Nat /\ Len(built) \in Nat
      /\ Len(GrownTable) = Len(tables[call.seq]) + Len(built)
      /\ \A i \in 1..(Len(tables[call.seq]) + Len(built)) :
            GrownTable[i] = IF i <= Len(tables[call.seq]) THEN tables[call.seq][i]
                            ELSE built[i - Len(tables[call.seq])]
  <2>1. Len(tables[call.seq]) \in Nat /\ Len(built) \in Nat
    BY LenProperties
  <2>2. /\ Len(tables[call.seq] \o built) = Len(tables[call.seq]) + Len(built)
        /\ \A i \in 1..(Len(tables[call.seq]) + Len(built)) :
              (tables[call.seq] \o built)[i] =
                 IF i <= Len(tables[call.seq]) THEN tables[call.seq][i]
                 ELSE built[i - Len(tables[call.seq])]
    BY ConcatProperties, Zenon
  <2> QED BY <2>1, <2>2 DEF GrownTable
<1>2. PICK a \in Nat : a = Len(tables[call.seq])
  BY <1>1
<1>3. PICK c \in Nat : c = Len(built)
  BY <1>1
<1>4. ASSUME NEW j \in 1..a PROVE GrownTable[j] = tables[call.seq][j]
  <2>1. j \in 1..(a + c) /\ j <= a
    OBVIOUS
  <2> QED BY <2>1, <1>1, <1>2, <1>3
<1>5. ASSUME NEW j \in 1..(a + c), ~ (j <= a)
      PROVE  j - a \in 1..c /\ GrownTable[j] = built[j - a]
  <2>1. j - a \in 1..c
    BY <1>5
  <2> QED BY <2>1, <1>1, <1>2, <1>3, <1>5
<1>6. ASSUME NEW j \in 1..(a + c)
      PROVE  \/ \E i \in 1..a : GrownTable[j] = tables[call.seq][i]
             \/ \E i \in 1..c : GrownTable[j] = built[i]
  <2>1. CASE j <= a
    <3>1. j \in 1..a
      BY <2>1
    <3> QED BY <3>1, <1>4
  <2>2. CASE ~ (j <= a)
    BY <2>2, <1>5
  <2> QED BY <2>1, <2>2
<1>7. ASSUME NEW j \in 1..(a + c), ~ (j <= a)
      PROVE  \E i \in 1..c : GrownTable[j] = built[i]
  BY <1>5, <1>7
<1> QED BY <1>1, <1>2, <1>3, <1>4, <1>6, <1>7

(* The position that a write is for. *)
LEMMA WritePosition ==
    ASSUME NEW p \in Nat
    PROVE  /\ BlockOf(p + 1) = WholeBlocks(p) + 1 /\ CellOf(p + 1) = (p % BlockSize) + 1
           /\ \A n \in Nat : \A i \in 1..n :
                 BlockOf(i) = WholeBlocks(p) + 1 /\ CellOf(i) = (p % BlockSize) + 1
                    => i = p + 1
<1>1. p + 1 - 1 = p
  OBVIOUS
<1>2. BlockOf(p + 1) = WholeBlocks(p) + 1 /\ CellOf(p + 1) = (p % BlockSize) + 1
  BY <1>1 DEF BlockOf, CellOf
<1>3. ASSUME NEW n \in Nat, NEW i \in 1..n,
             BlockOf(i) = BlockOf(p + 1), CellOf(i) = CellOf(p + 1)
      PROVE  i = p + 1
  <2>1. (BlockOf(i) - 1) * BlockSize + CellOf(i) = i
    BY Positions
  <2>2. p + 1 \in Nat /\ p + 1 \in 1..(p + 1)
    OBVIOUS
  <2>3. (BlockOf(p + 1) - 1) * BlockSize + CellOf(p + 1) = p + 1
    BY <2>2, Positions
  <2> QED BY <2>1, <2>3, <1>3
<1> QED BY <1>2, <1>3

(* The write ends with the token in its cell and all others as they were. *)
LEMMA WriteIsFinish ==
    ASSUME IInv, IInv', SInv, call.op = "write", ~ MissingBlock, EndWrite, NEW t,
           DOMAIN tables' = DOMAIN tables,
           \A r \in DOMAIN tables : tables'[r] = IF r = call.seq THEN t ELSE tables[r],
           \A r \in DOMAIN tables : r # call.seq =>
              \A i \in 1..Len(tables[r]) : cells'[tables[r][i]] = cells[tables[r][i]],
           \A j \in 1..Len(GrownTable) : \A k \in 1..BlockSize :
              cells'[t[j]][k] = IF j = Place /\ k = Offset THEN call.toks[1]
                                ELSE cells[GrownTable[j]][k]
    PROVE  Gathering' /\ Store!Next
<1>1. /\ Writing /\ tables[call.seq] \in Seq(Blocks) /\ built \in Seq(Blocks)
      /\ Len(tables[call.seq]) \in Nat
      /\ lens[call.seq] \in Nat /\ call.n \in Nat
      /\ call \in CallRecords
  BY WriteFacts DEF InCall
<1>2. PICK s \in Seqs : s = call.seq /\ s \in DOMAIN tables
  BY <1>1 DEF CallRecords, Writing
<1>3. PICK p \in Nat : p = call.n
  BY <1>1
<1>4. PICK l \in Nat : l = lens[s]
  BY <1>1, <1>2
<1>5. PICK m \in Nat : m = IF p < l THEN l ELSE p + 1
  OBVIOUS
<1>6. TablesOK /\ TablesOK' /\ DOMAIN lens = DOMAIN tables
  BY DEF IInv, TablesOK
<1>7. /\ call' = NoCall /\ lens'[s] = m
      /\ \A r \in DOMAIN tables : r # s => lens'[r] = lens[r]
  BY <1>2, <1>3, <1>4, <1>5, <1>6 DEF EndWrite
<1>8. ASSUME NEW r \in Seqs, r # s PROVE Contents'[r] = Contents[r]
  <2>1. r \in DOMAIN tables =>
           /\ lens'[r] = lens[r] /\ tables'[r] = tables[r]
           /\ \A i \in 1..Len(tables[r]) : cells'[tables[r][i]] = cells[tables[r][i]]
    BY <1>2, <1>7, <1>8
  <2> QED BY <2>1, <1>6, ContentsKept
<1>9. Contents'[s] = [i \in 1..m |-> cells'[t[BlockOf(i)]][CellOf(i)]]
  <2>1. s \in DOMAIN tables' /\ tables'[s] = t
    BY <1>2
  <2> QED BY <2>1, <1>6, <1>7, ContentsAreNext
<1>11. Len(GrownTable) = BlocksToHold(m)
  BY <1>2, <1>3, <1>4, <1>5, TargetFacts
<1>12. ASSUME NEW i \in 1..m
       PROVE  cells'[t[BlockOf(i)]][CellOf(i)]
              = LeftAt(i)
  <2>1. BlockOf(i) \in 1..Len(GrownTable) /\ CellOf(i) \in 1..BlockSize
    BY <1>11, Positions
  <2>2. cells'[t[BlockOf(i)]][CellOf(i)]
        = IF BlockOf(i) = Place /\ CellOf(i) = Offset THEN call.toks[1]
          ELSE cells[GrownTable[BlockOf(i)]][CellOf(i)]
    BY <2>1
  <2>3. Place = WholeBlocks(p) + 1 /\ Offset = (p % BlockSize) + 1
    BY <1>3 DEF Place, Offset
  <2>4. CASE i = p + 1
    <3>1. BlockOf(i) = Place /\ CellOf(i) = Offset
      BY <2>3, <2>4, WritePosition
    <3> QED BY <3>1, <2>2, <2>4, <1>3 DEF LeftAt
  <2>5. CASE i # p + 1
    <3>1. ~ (BlockOf(i) = Place /\ CellOf(i) = Offset)
      BY <2>3, <2>5, WritePosition
    <3>2. WholeBlocks(i - 1) \in Nat /\ BlockOf(i) = WholeBlocks(i - 1) + 1
      <4>1. i - 1 \in Nat
        OBVIOUS
      <4> QED BY <4>1, Division DEF BlockOf
    <3>3. CASE WholeBlocks(i - 1) < Len(tables[s])
      <4>1. BlockOf(i) \in 1..Len(tables[s])
        BY <1>1, <1>2, <3>2, <3>3
      <4>2. GrownTable[BlockOf(i)] = tables[s][BlockOf(i)]
        BY <1>1, <1>2, <4>1, GrownElements
      <4> QED BY <4>2, <3>1, <3>2, <3>3, <2>2, <2>5, <1>2, <1>3 DEF LeftAt, CellOf
    <3>4. CASE ~ (WholeBlocks(i - 1) < Len(tables[s]))
      <4>1. ~ (BlockOf(i) <= Len(tables[call.seq]))
        BY <1>1, <1>2, <3>2, <3>4
      <4>2. PICK k \in 1..Len(built) : GrownTable[BlockOf(i)] = built[k]
        BY <1>1, <2>1, <4>1, GrownElements
      <4>3. cells[GrownTable[BlockOf(i)]][CellOf(i)] = EMPTY
        <5>1. cells[built[k]] = NoTokens
          BY DEF SInv, Gathering
        <5>2. NoTokens[CellOf(i)] = EMPTY
          BY <2>1 DEF NoTokens
        <5> QED BY <4>2, <5>1, <5>2
      <4> QED BY <4>3, <3>1, <3>4, <2>2, <2>5, <1>2, <1>3 DEF LeftAt
    <3> QED BY <3>3, <3>4
  <2> QED BY <2>4, <2>5
<1>13. Contents'[s] = [i \in 1..m |-> LeftAt(i)]
  BY <1>9, <1>12
<1>14. Promised = [i \in 1..m |-> LeftAt(i)]
  BY <1>2, <1>3, <1>4, <1>5 DEF Promised
<1>15. call # NoCall
  BY DEF NoCall
<1> QED BY <1>2, <1>7, <1>8, <1>13, <1>14, <1>15, Finished

(* A block that only the writer has is in one place of its table. *)
LEMMA TargetAlone ==
    ASSUME IInv, call.op = "write", ~ MissingBlock, ~ (refs[Target] > 1)
    PROVE  /\ \A r \in DOMAIN tables : r # call.seq =>
                 \A i \in 1..Len(tables[r]) : tables[r][i] # Target
           /\ \A j \in 1..Len(GrownTable) : j # Place => GrownTable[j] # Target
<1>1. PICK t \in Blocks : t = Target
  BY TargetFacts
<1>2. /\ tables[call.seq] \in Seq(Blocks) /\ built \in Seq(Blocks)
      /\ GrownTable \in Seq(Blocks) /\ Writing /\ call \in CallRecords
  BY WriteFacts DEF InCall
<1>3. PICK s \in Seqs : s = call.seq /\ s \in DOMAIN tables
  BY <1>2 DEF CallRecords, Writing
<1>4. PICK others \in Nat : others = Cardinality(EntriesOfOthers(tables, s, t))
  <2>1. AreTables(tables)
    BY TablesFacts DEF IInv
  <2> QED BY <2>1, EntriesSplit
<1>5. PICK mine \in Nat : mine = Count(tables[s], t)
  BY <1>2, <1>3, CountType
<1>6. PICK new \in Nat : new = Count(built, t)
  BY <1>2, CountType
<1>7. Count(GrownTable, t) = mine + new
  <2>1. GrownTable = tables[s] \o built /\ tables[s] \in Seq(Blocks)
    BY <1>2, <1>3, Zenon DEF GrownTable
  <2>2. Count(tables[s] \o built, t) = Count(tables[s], t) + Count(built, t)
    <3>1. built \in Seq(Blocks)
      BY <1>2
    <3> QED BY <2>1, <3>1, CountConcat
  <2>3. Count(GrownTable, t) = Count(tables[s], t) + Count(built, t)
    BY <2>1, <2>2, Zenon
  <2> QED BY <2>3, <1>5, <1>6, Zenon
<1>8. refs[t] >= others + (mine + new)
  <2>1. Cardinality(EntriesIn(tables, t)) = others + mine
    <3>1. ListOf(tables, s) = tables[s] /\ AreTables(tables)
      BY <1>3, TablesFacts DEF ListOf, IInv
    <3> QED BY <3>1, <1>4, <1>5, EntriesSplit
  <2>2. /\ refs[t] = Cardinality(EntriesIn(tables, t)) + Count(built, t) + Count(todo, t)
        /\ Count(todo, t) \in Nat
    BY NamedHasCount
  <2>3. PICK gone \in Nat : gone = Count(todo, t)
    BY <2>2
  <2> QED BY <2>1, <2>2, <2>3, <1>6
<1>9. Place \in 1..Len(GrownTable) /\ GrownTable[Place] = t
  BY <1>1, TargetFacts DEF Target
<1>10. mine + new # 0
  BY <1>2, <1>7, <1>9, CountType
<1>11. refs[t] \in Nat /\ refs[t] <= 1
  BY <1>1 DEF IInv, PoolOK, PoolType
<1>12. others = 0 /\ mine + new = 1
  BY <1>8, <1>10, <1>11
<1>13. ASSUME NEW r \in DOMAIN tables, r # s, NEW i \in 1..Len(tables[r]), tables[r][i] = t
       PROVE  FALSE
  <2>1. AreTables(tables) /\ tables[r] \in Seq(Blocks) /\ r \in Seqs
    BY TablesFacts DEF IInv, TablesOK
  <2>2. Len(tables[r]) \in Nat /\ Len(tables[r]) <= MaxTokens
    BY TablesFacts DEF IInv
  <2>3. i \in 1..(MaxTokens + 1) /\ i \in DOMAIN tables[r]
    BY <2>1, <2>2, LenProperties, PagedAssumption
  <2>4. <<r, i>> \in EntriesOfOthers(tables, s, t)
    BY <2>1, <2>3, <1>13 DEF EntriesOfOthers, EntriesIn
  <2>5. IsFiniteSet(EntriesIn(tables, t))
    BY <2>1, EntriesSplit
  <2>6. IsFiniteSet(EntriesOfOthers(tables, s, t))
    <3>1. EntriesOfOthers(tables, s, t) \in SUBSET EntriesIn(tables, t)
      BY DEF EntriesOfOthers
    <3> QED BY <3>1, <2>5, FS_Subset
  <2>7. EntriesOfOthers(tables, s, t) = {}
    BY <2>6, <1>4, <1>12, FS_EmptySet
  <2> QED BY <2>4, <2>7
<1>14. ASSUME NEW j \in 1..Len(GrownTable), j # Place, GrownTable[j] = t
       PROVE  FALSE
  <2>1. IsFiniteSet(Occurrences(GrownTable, t)) /\ Cardinality(Occurrences(GrownTable, t)) = 1
    BY <1>2, <1>7, <1>12, CountType DEF Count
  <2>2. PICK x : Occurrences(GrownTable, t) = {x}
    BY <2>1, FS_Singleton
  <2>3. DOMAIN GrownTable = 1..Len(GrownTable)
    BY <1>2, LenProperties
  <2>4. j \in {x} /\ Place \in {x}
    BY <2>2, <2>3, <1>9, <1>14 DEF Occurrences
  <2> QED BY <2>4, <1>14
<1> QED BY <1>1, <1>3, <1>13, <1>14

LEMMA WriteInPlaceIsFinish ==
    ASSUME IInv, IInv', SInv, WriteInPlace
    PROVE  Gathering' /\ Store!Next
<1>1. /\ call.op = "write" /\ ~ MissingBlock /\ ~ (refs[Target] > 1)
      /\ cells' = [cells EXCEPT ![Target][Offset] = call.toks[1]]
      /\ tables' = [tables EXCEPT ![call.seq] = GrownTable]
      /\ EndWrite
  BY DEF WriteInPlace, In, MustCopy
<1>2. PICK u \in Blocks : u = Target
  BY <1>1, TargetFacts
<1>3. PICK g \in Seq(Blocks) : g = GrownTable
  BY <1>1, WriteFacts
<1>4. /\ \A r \in DOMAIN tables : r # call.seq =>
            \A i \in 1..Len(tables[r]) : tables[r][i] # u
      /\ \A j \in 1..Len(g) : j # Place => g[j] # u
      /\ g[Place] = u
  BY <1>1, <1>2, <1>3, TargetAlone DEF Target
<1>5. /\ cells \in [Blocks -> CellsType]
      /\ cells' = [cells EXCEPT ![u][Offset] = call.toks[1]]
  BY <1>1, <1>2 DEF IInv, PoolOK, PoolType
<1>6. ASSUME NEW b \in Blocks, NEW k \in 1..BlockSize
      PROVE  cells'[b][k] = IF b = u /\ k = Offset THEN call.toks[1] ELSE cells[b][k]
  BY <1>5 DEF CellsType
<1>7. ASSUME NEW r \in DOMAIN tables, r # call.seq, NEW i \in 1..Len(tables[r])
      PROVE  cells'[tables[r][i]] = cells[tables[r][i]]
  <2>1. tables[r][i] \in Blocks /\ tables[r][i] # u
    BY <1>4, <1>7, ElementOfSeq DEF IInv, TablesOK
  <2> QED BY <2>1, <1>5
<1>8. ASSUME NEW j \in 1..Len(g), NEW k \in 1..BlockSize
      PROVE  cells'[g[j]][k] = IF j = Place /\ k = Offset THEN call.toks[1]
                               ELSE cells[g[j]][k]
  <2>1. g[j] \in Blocks /\ (g[j] = u <=> j = Place)
    BY <1>4, ElementOfSeq
  <2> QED BY <2>1, <1>6
<1>9. /\ DOMAIN tables' = DOMAIN tables
      /\ \A r \in DOMAIN tables : tables'[r] = IF r = call.seq THEN g ELSE tables[r]
  BY <1>1, <1>3
<1>10. /\ call.op = "write" /\ ~ MissingBlock /\ EndWrite
       /\ \A r \in DOMAIN tables : r # call.seq =>
             \A i \in 1..Len(tables[r]) : cells'[tables[r][i]] = cells[tables[r][i]]
       /\ \A j \in 1..Len(GrownTable) : \A k \in 1..BlockSize :
             cells'[g[j]][k] = IF j = Place /\ k = Offset THEN call.toks[1]
                               ELSE cells[GrownTable[j]][k]
  BY <1>1, <1>3, <1>7, <1>8
<1> QED BY <1>9, <1>10, WriteIsFinish

LEMMA WriteCopyIsFinish ==
    ASSUME IInv, IInv', SInv, WriteCopy
    PROVE  Gathering' /\ Store!Next
<1>1. /\ call.op = "write" /\ ~ MissingBlock
      /\ TakeBlock([cells[Target] EXCEPT ![Offset] = call.toks[1]], << >>)
      /\ tables' = [tables EXCEPT ![call.seq] = [GrownTable EXCEPT ![Place] = Taken]]
      /\ EndWrite
  BY DEF WriteCopy, In, MustCopy
<1>2. /\ Undisturbed /\ Taken \in Blocks
      /\ cells'[Taken] = [cells[Target] EXCEPT ![Offset] = call.toks[1]]
  BY <1>1, TakingDisturbsNobody
<1>3. PICK g \in Seq(Blocks) : g = GrownTable
  BY <1>1, WriteFacts
<1>4. PICK u \in Blocks : u = Taken
  BY <1>2
<1>5. PICK t : t = [g EXCEPT ![Place] = u]
  OBVIOUS
<1>6. /\ tables[call.seq] \in Seq(Blocks) /\ built \in Seq(Blocks)
      /\ call.seq \in DOMAIN tables
      /\ Place \in 1..Len(g) /\ g[Place] \in Blocks /\ g[Place] = Target
  BY <1>1, <1>3, WriteFacts, TargetFacts DEF Writing, Target
<1>7. \A j \in 1..Len(g) : t[j] = IF j = Place THEN u ELSE g[j]
  BY <1>5, LenProperties
<1>8. ASSUME NEW r \in DOMAIN tables, NEW i \in 1..Len(tables[r])
      PROVE  cells'[tables[r][i]] = cells[tables[r][i]]
  <2>1. tables[r][i] \in Blocks /\ InTables(tables[r][i])
    BY ElementOfSeq DEF IInv, TablesOK, InTables
  <2> QED BY <2>1, <1>2 DEF Undisturbed
<1>9. ASSUME NEW j \in 1..Len(g) PROVE cells'[g[j]] = cells[g[j]]
  <2>1. g[j] \in Blocks
    BY ElementOfSeq
  <2>2. InTables(g[j]) \/ InBuilt(g[j])
    BY <1>3, <1>6, GrownElements DEF InTables, InBuilt
  <2> QED BY <2>1, <2>2, <1>2 DEF Undisturbed
<1>10. ASSUME NEW j \in 1..Len(g), NEW k \in 1..BlockSize
       PROVE  cells'[t[j]][k] = IF j = Place /\ k = Offset THEN call.toks[1]
                                ELSE cells[g[j]][k]
  <2>1. CASE j # Place
    BY <2>1, <1>7, <1>9
  <2>2. CASE j = Place
    <3>1. t[j] = u /\ g[j] = Target /\ cells[g[j]] \in CellsType
      BY <2>2, <1>6, <1>7 DEF IInv, PoolOK, PoolType
    <3>2. PICK c \in CellsType : c = cells[Target]
      BY <3>1
    <3>3. [c EXCEPT ![Offset] = call.toks[1]][k] = IF k = Offset THEN call.toks[1] ELSE c[k]
      BY <3>2 DEF CellsType
    <3>4. cells'[t[j]] = [c EXCEPT ![Offset] = call.toks[1]]
      BY <3>1, <3>2, <1>2, <1>4
    <3> QED BY <3>1, <3>2, <3>3, <3>4, <2>2
  <2> QED BY <2>1, <2>2
<1>11. /\ DOMAIN tables' = DOMAIN tables
       /\ \A r \in DOMAIN tables : tables'[r] = IF r = call.seq THEN t ELSE tables[r]
  BY <1>1, <1>3, <1>4, <1>5
<1>12. /\ call.op = "write" /\ ~ MissingBlock /\ EndWrite
       /\ \A r \in DOMAIN tables : r # call.seq =>
             \A i \in 1..Len(tables[r]) : cells'[tables[r][i]] = cells[tables[r][i]]
       /\ \A j \in 1..Len(GrownTable) : \A k \in 1..BlockSize :
             cells'[t[j]][k] = IF j = Place /\ k = Offset THEN call.toks[1]
                               ELSE cells[GrownTable[j]][k]
  BY <1>1, <1>3, <1>8, <1>10
<1> QED BY <1>11, <1>12, WriteIsFinish
-----------------------------------------------------------------------------
(* Every step of the allocator, as the store sees it. *)

LEMMA StoreStart ==
    ASSUME Init
    PROVE  Store!Init /\ SInv
<1>1. call = NoCall /\ tables = << >> /\ lens = << >>
  BY DEF Init
<1>2. Contents = [s \in Seqs |-> << >>]
  <2>1. DOMAIN lens = {}
    BY <1>1
  <2>2. \A s \in Seqs : LenOf(s) = 0
    BY <2>1 DEF LenOf
  <2> QED BY <2>2 DEF Contents
<1>3. Store!Init
  BY <1>1, <1>2 DEF Store!Init
<1>4. StoreTyped
  BY <1>1, <1>2, EmptySeq DEF StoreTyped
<1>5. Gathering
  BY <1>1 DEF Gathering, NoCall
<1> QED BY <1>3, <1>4, <1>5 DEF SInv

LEMMA StoreStep ==
    ASSUME IInv, IInv', SInv, [Next]_vars
    PROVE  SInv' /\ [Store!Next]_(Store!vars)
<1> DEFINE Seen == Gathering' /\ [Store!Next]_(Store!vars)
<1>1. ASSUME NEW s \in Seqs, FreeSeq(s) PROVE Seen
  BY <1>1, FreeSeqIsTruncate
<1>2. ASSUME NEW s \in Seqs, NEW n \in 0..MaxTokens, Truncate(s, n) PROVE Seen
  BY <1>2, TruncateIsTruncate
<1>3. ASSUME NEW s \in Seqs, NEW toks \in SeqOf(Words, MaxTokens),
             NEW limit \in 0..WholeBlocks(Len(toks)), Allocate(s, toks, limit)
      PROVE  Seen
  BY <1>3, AllocateIsReplace
<1>4. ASSUME NEW s \in Seqs, NEW from \in Seqs, NEW n \in 1..MaxTokens,
             SharePrefix(from, s, n)
      PROVE  Seen
  BY <1>4, SharePrefixIsReplace
<1>5. ASSUME NEW s \in Seqs, NEW from \in Seqs, Fork(from, s) PROVE Seen
  BY <1>5, ForkIsReplace
<1>6. ASSUME NEW s \in Seqs, NEW p \in 0..MaxTokens, NEW w \in Words, Write(s, p, w)
      PROVE  Seen
  BY <1>6, WriteIsWrite
<1>7. ASSUME Release PROVE Seen
  BY <1>7, ReleaseInvisible
<1>8. ASSUME ShareBlock PROVE Seen
  BY <1>8, ShareBlockInvisible
<1>9. ASSUME ShareDone PROVE Seen
  BY <1>9, ShareDoneInvisible
<1>10. ASSUME FillBlock PROVE Seen
  BY <1>10, FillBlockInvisible
<1>11. ASSUME CopyReference PROVE Seen
  BY <1>11, CopyReferenceInvisible
<1>12. ASSUME CopyTail PROVE Seen
  BY <1>12, CopyTailInvisible
<1>13. ASSUME Install PROVE Seen
  BY <1>13, InstallIsFinish
<1>14. ASSUME Grow PROVE Seen
  BY <1>14, GrowInvisible
<1>15. ASSUME WriteInPlace PROVE Seen
  BY <1>15, WriteInPlaceIsFinish
<1>16. ASSUME WriteCopy PROVE Seen
  BY <1>16, WriteCopyIsFinish
<1>17. ASSUME OutOfBlocks PROVE Seen
  BY <1>17, OutOfBlocksIsFail
<1>18. ASSUME UNCHANGED vars PROVE Seen
  <2>1. /\ cells' = cells /\ tables' = tables /\ lens' = lens
        /\ call' = call /\ built' = built
    BY <1>18 DEF vars, poolVars
  <2>2. Undisturbed /\ SamePromise
    BY <2>1 DEF Undisturbed, SamePromise
  <2>3. UNCHANGED Store!vars
    BY <2>1, <2>2, Invisible
  <2>4. Gathering'
    BY <2>1 DEF SInv, Gathering, CellsOf
  <2> QED BY <2>3, <2>4
<1>19. Seen
  <2> HIDE DEF Seen
  <2>1. ASSUME Begin PROVE Seen
    BY <2>1, <1>1, <1>2, <1>3, <1>4, <1>5, <1>6 DEF Begin
  <2>2. ASSUME Continue PROVE Seen
    BY <2>2, <1>7, <1>8, <1>9, <1>10, <1>11, <1>12, <1>13, <1>14, <1>15, <1>16,
       <1>17 DEF Continue
  <2> QED BY <2>1, <2>2, <1>18 DEF Next
<1>20. StoreTyped'
  BY <1>19, StoreStepTyped DEF SInv
<1> QED BY <1>19, <1>20 DEF SInv

(***************************************************************************)
(* Sharing, copy-on-write, eviction and failure for want of blocks are     *)
(* invisible: every call of engine/paged_kv.py changes the tokens of the   *)
(* sequence it is for, to what was asked or not at all, and those of no    *)
(* other, so that a write to a shared block reaches nobody else.           *)
(***************************************************************************)
THEOREM StoreIsImplemented == Spec => StoreSafety
<1>1. Init => Store!Init /\ SInv
  BY StoreStart
<1>2. IInv /\ IInv' /\ SInv /\ [Next]_vars => SInv' /\ [Store!Next]_(Store!vars)
  BY StoreStep
<1> QED BY <1>1, <1>2, PagedInvariance, PTL DEF Spec, StoreSafety, Store!Spec
-----------------------------------------------------------------------------
(***************************************************************************)
(* Where prefixes differ whose chains of hashes end in the same hash.      *)
(***************************************************************************)

(* The hashes of the first n blocks of a prefix. *)
IsChain(h, p, n) ==
    h = [i \in 0..n |-> IF i = 0 THEN Start
                        ELSE Hash(h[i - 1], LastBlock(UpToBlock(p, i)))]

LEMMA ChainExists ==
    ASSUME NEW p, NEW n \in Nat
    PROVE  \E h : IsChain(h, p, n)
<1> DEFINE block(i) == LastBlock(UpToBlock(p, i))
           chained(h, m) == /\ DOMAIN h = 0..m /\ h = [i \in 0..m |-> h[i]]
                            /\ \A i \in 0..m : h[i] = IF i = 0 THEN Start
                                                      ELSE Hash(h[i - 1], block(i))
           Unchained == {m \in Nat : ~ \E h : chained(h, m)}
<1>1. SUFFICES \E h : chained(h, n)
  BY DEF IsChain
<1> HIDE DEF block
<1>2. ASSUME Unchained # {} PROVE FALSE
  <2>1. PICK m \in Unchained : \A k \in Unchained : m <= k
    BY <1>2, LeastNatural
  <2>2. m \in Nat /\ ~ \E h : chained(h, m)
    BY <2>1
  <2>3. CASE m = 0
    <3>1. chained([i \in 0..0 |-> Start], 0)
      OBVIOUS
    <3> QED BY <2>2, <2>3, <3>1
  <2>4. CASE m # 0
    <3>1. m - 1 \in Nat /\ m - 1 \notin Unchained
      BY <2>1, <2>2, <2>4
    <3>2. PICK g : chained(g, m - 1)
      BY <3>1
    <3> DEFINE h == [i \in 0..m |-> IF i = m THEN Hash(g[m - 1], block(m)) ELSE g[i]]
    <3>3. ASSUME NEW i \in 0..m
          PROVE  h[i] = IF i = 0 THEN Start ELSE Hash(h[i - 1], block(i))
      <4>1. CASE i = m
        <5>1. h[i] = Hash(g[m - 1], block(m)) /\ h[m - 1] = g[m - 1]
          BY <2>2, <2>4, <4>1
        <5> QED BY <5>1, <4>1, <2>4
      <4>2. CASE i # m /\ i = 0
        <5>1. h[i] = g[i] /\ i \in 0..(m - 1)
          BY <2>2, <2>4, <4>2
        <5> QED BY <5>1, <4>2, <3>2
      <4>3. CASE i # m /\ i # 0
        <5>1. h[i] = g[i] /\ i \in 0..(m - 1) /\ h[i - 1] = g[i - 1]
          BY <2>2, <2>4, <4>3
        <5>2. g[i] = Hash(g[i - 1], block(i))
          BY <5>1, <4>3, <3>2
        <5> QED BY <5>1, <5>2, <4>3
      <4> QED BY <4>1, <4>2, <4>3
    <3>4. DOMAIN h = 0..m /\ h = [i \in 0..m |-> h[i]]
      OBVIOUS
    <3> HIDE DEF h
    <3>5. chained(h, m)
      BY <3>3, <3>4
    <3> QED BY <2>2, <3>5
  <2> QED BY <2>3, <2>4
<1> QED BY <1>2

LEMMA KeyOfChain ==
    ASSUME NEW p, WholeBlocks(Len(p)) \in Nat
    PROVE  \E h : IsChain(h, p, WholeBlocks(Len(p))) /\ Key(p) = h[WholeBlocks(Len(p))]
<1>1. \E h : IsChain(h, p, WholeBlocks(Len(p)))
  BY ChainExists
<1>2. PICK g : g = CHOOSE h : IsChain(h, p, WholeBlocks(Len(p)))
  OBVIOUS
<1>3. IsChain(g, p, WholeBlocks(Len(p)))
  BY <1>1, <1>2
<1>4. Key(p) = g[WholeBlocks(Len(p))]
  BY <1>2 DEF Key, IsChain
<1> QED BY <1>3, <1>4

(* The chains of two prefixes are the same as long as their blocks are. *)
LEMMA ChainsAgree ==
    ASSUME NEW p, NEW q, NEW n \in Nat, NEW m \in Nat, NEW h, NEW g,
           IsChain(h, p, n), IsChain(g, q, m),
           NEW k \in Nat, k <= n, k <= m,
           \A i \in 1..k : UpToBlock(p, i) = UpToBlock(q, i)
    PROVE  h[k] = g[k]
<1> DEFINE Differ == {j \in Nat : j <= k /\ h[j] # g[j]}
<1>1. \A j \in 0..k : /\ h[j] = IF j = 0 THEN Start
                               ELSE Hash(h[j - 1], LastBlock(UpToBlock(p, j)))
                      /\ g[j] = IF j = 0 THEN Start
                               ELSE Hash(g[j - 1], LastBlock(UpToBlock(q, j)))
  <2>1. \A j \in 0..k : j \in 0..n /\ j \in 0..m
    OBVIOUS
  <2> QED BY <2>1 DEF IsChain
<1>2. ASSUME Differ # {} PROVE FALSE
  <2>1. PICK j \in Differ : \A i \in Differ : j <= i
    BY <1>2, LeastNatural
  <2>2. j \in 0..k /\ h[j] # g[j] /\ j # 0
    BY <2>1, <1>1
  <2>3. j - 1 \in Nat /\ j - 1 <= k /\ j - 1 \notin Differ /\ j \in 1..k
    BY <2>1, <2>2
  <2>4. h[j - 1] = g[j - 1]
    BY <2>3
  <2> QED BY <2>2, <2>3, <2>4, <1>1
<1> QED BY <1>2

LEMMA WholeLength ==
    ASSUME NEW l \in Nat, l % BlockSize = 0
    PROVE  /\ WholeBlocks(l) \in Nat /\ l = WholeBlocks(l) * BlockSize
           /\ BlocksToHold(l) = WholeBlocks(l)
<1>1. PICK n \in Nat : n = WholeBlocks(l)
  BY Division
<1>2. PICK a \in Nat : a = n * BlockSize
  BY <1>1, PagedAssumption
<1>3. l = a + 0
  BY <1>1, <1>2, Division
<1>4. BlocksToHold(l) = n
  <2>1. BlockSize \in Nat /\ BlockSize > 0 /\ l = n * BlockSize
    BY <1>2, <1>3, PagedAssumption
  <2>2. (n * BlockSize + BlockSize - 1) \div BlockSize = n
    BY <2>1
  <2> QED BY <2>1, <2>2 DEF BlocksToHold
<1> QED BY <1>1, <1>2, <1>3, <1>4

(* The blocks of a prefix of whole blocks. *)
LEMMA WholePrefix ==
    ASSUME NEW p \in HashedPrefixes
    PROVE  /\ WholeBlocks(Len(p)) \in Nat
           /\ UpToBlock(p, WholeBlocks(Len(p))) = p
           /\ UpToBlock(p, 0) = << >>
           /\ \A i \in 0..WholeBlocks(Len(p)) :
                 /\ WholeBlocks(Len(UpToBlock(p, i))) = i
                 /\ \A j \in 0..i : UpToBlock(UpToBlock(p, i), j) = UpToBlock(p, j)
<1>1. p \in Seq(Words) /\ Len(p) \in Nat /\ Len(p) % BlockSize = 0
  BY ShortSequences, LenProperties, PagedAssumption DEF HashedPrefixes
<1>2. PICK n \in Nat : n = WholeBlocks(Len(p)) /\ Len(p) = n * BlockSize
  BY <1>1, WholeLength
<1>3. BlockSize \in Nat /\ BlockSize > 0
  BY PagedAssumption
<1>4. UpToBlock(p, n) = p
  <2>1. SubSeq(p, 1, Len(p)) = p
    BY <1>1, SubSeqProperties, SeqEqual
  <2> QED BY <2>1, <1>2 DEF UpToBlock
<1>5. UpToBlock(p, 0) = << >>
  <2>1. 0 * BlockSize = 0
    BY <1>3
  <2> QED BY <2>1, <1>1, SubSeqEmpty DEF UpToBlock
<1>6. ASSUME NEW i \in 0..n
      PROVE  /\ WholeBlocks(Len(UpToBlock(p, i))) = i
             /\ \A j \in 0..i : UpToBlock(UpToBlock(p, i), j) = UpToBlock(p, j)
  <2>1. PICK a \in Nat : a = i * BlockSize /\ a <= Len(p)
    <3>1. i * BlockSize \in Nat /\ i * BlockSize <= n * BlockSize
      BY <1>3
    <3> QED BY <3>1, <1>2
  <2>2. /\ SubSeq(p, 1, a) \in Seq(Words) /\ Len(SubSeq(p, 1, a)) = a
        /\ \A x \in 1..a : SubSeq(p, 1, a)[x] = p[x]
    BY <2>1, <1>1, SubSeqProperties
  <2>3. UpToBlock(p, i) = SubSeq(p, 1, a)
    BY <2>1 DEF UpToBlock
  <2>4. WholeBlocks(a) = i
    BY <2>1, <1>3 DEF WholeBlocks
  <2>5. ASSUME NEW j \in 0..i PROVE UpToBlock(UpToBlock(p, i), j) = UpToBlock(p, j)
    <3>1. PICK b \in Nat : b = j * BlockSize /\ b <= a
      <4>1. j * BlockSize \in Nat /\ j * BlockSize <= i * BlockSize
        BY <1>3
      <4> QED BY <4>1, <2>1
    <3>2. SubSeq(SubSeq(p, 1, a), 1, b) = SubSeq(p, 1, b)
      BY <3>1, <2>1, <2>2, <1>1, SubSeqProperties
    <3> QED BY <2>3, <3>1, <3>2 DEF UpToBlock
  <2> QED BY <2>2, <2>3, <2>4, <2>5
<1> QED BY <1>2, <1>4, <1>5, <1>6

(* block_hashes: the recurrence that Key unrolls. *)
LEMMA KeyLink ==
    ASSUME NEW p \in HashedPrefixes
    PROVE  /\ Key(UpToBlock(p, 0)) = Start
           /\ \A i \in 1..WholeBlocks(Len(p)) :
                 Key(UpToBlock(p, i))
                 = Hash(Key(UpToBlock(p, i - 1)), LastBlock(UpToBlock(p, i)))
<1>1. PICK n \in Nat : n = WholeBlocks(Len(p))
  BY WholePrefix
<1>2. Key(UpToBlock(p, 0)) = Start
  <2>1. WholeBlocks(Len(UpToBlock(p, 0))) = 0
    BY <1>1, WholePrefix
  <2>2. PICK h : IsChain(h, UpToBlock(p, 0), 0) /\ Key(UpToBlock(p, 0)) = h[0]
    BY <2>1, KeyOfChain
  <2> QED BY <2>2 DEF IsChain
<1>3. ASSUME NEW i \in 1..n
      PROVE  Key(UpToBlock(p, i))
             = Hash(Key(UpToBlock(p, i - 1)), LastBlock(UpToBlock(p, i)))
  <2>1. i \in 0..n /\ i - 1 \in 0..n /\ i \in Nat /\ i - 1 \in Nat /\ i - 1 <= i
    OBVIOUS
  <2>2. /\ WholeBlocks(Len(UpToBlock(p, i))) = i
        /\ WholeBlocks(Len(UpToBlock(p, i - 1))) = i - 1
    BY <1>1, <2>1, WholePrefix
  <2>3. PICK h : IsChain(h, UpToBlock(p, i), i) /\ Key(UpToBlock(p, i)) = h[i]
    BY <2>1, <2>2, KeyOfChain
  <2>4. PICK g : IsChain(g, UpToBlock(p, i - 1), i - 1) /\ Key(UpToBlock(p, i - 1)) = g[i - 1]
    BY <2>1, <2>2, KeyOfChain
  <2>5. ASSUME NEW j \in 1..(i - 1)
        PROVE  UpToBlock(UpToBlock(p, i), j) = UpToBlock(UpToBlock(p, i - 1), j)
    BY <1>1, <2>1, WholePrefix
  <2>6. h[i - 1] = g[i - 1]
    BY <2>1, <2>3, <2>4, <2>5, ChainsAgree
  <2>7. h[i] = Hash(h[i - 1], LastBlock(UpToBlock(UpToBlock(p, i), i)))
    BY <2>1, <2>3 DEF IsChain
  <2>8. UpToBlock(UpToBlock(p, i), i) = UpToBlock(p, i)
    BY <1>1, <2>1, WholePrefix
  <2> QED BY <2>3, <2>4, <2>6, <2>7, <2>8
<1> QED BY <1>1, <1>2, <1>3

(* A prefix is its blocks. *)
LEMMA BlocksMakePrefix ==
    ASSUME NEW p \in HashedPrefixes, NEW q \in HashedPrefixes,
           WholeBlocks(Len(p)) = WholeBlocks(Len(q)),
           \A i \in 1..WholeBlocks(Len(p)) :
              LastBlock(UpToBlock(p, i)) = LastBlock(UpToBlock(q, i))
    PROVE  p = q
<1>1. /\ p \in Seq(Words) /\ Len(p) \in Nat /\ Len(p) % BlockSize = 0
      /\ q \in Seq(Words) /\ Len(q) \in Nat /\ Len(q) % BlockSize = 0
      /\ p \in SeqOf(Words, MaxTokens) /\ q \in SeqOf(Words, MaxTokens)
  BY ShortSequences, LenProperties, PagedAssumption DEF HashedPrefixes
<1>2. PICK n \in Nat : n = WholeBlocks(Len(p)) /\ n = WholeBlocks(Len(q))
  BY WholePrefix
<1>3. Len(p) = n * BlockSize /\ Len(q) = n * BlockSize
  BY <1>1, <1>2, WholeLength
<1>4. BlocksToHold(Len(p)) = n
  BY <1>1, <1>2, WholeLength
<1>5. ASSUME NEW x \in 1..Len(p) PROVE p[x] = q[x]
  <2>1. /\ BlockOf(x) \in 1..n /\ CellOf(x) \in 1..BlockSize
        /\ (BlockOf(x) - 1) * BlockSize + CellOf(x) = x
    BY <1>1, <1>4, Positions
  <2>2. /\ LastBlock(UpToBlock(p, BlockOf(x))) = CellsOf(p, BlockOf(x))
        /\ LastBlock(UpToBlock(q, BlockOf(x))) = CellsOf(q, BlockOf(x))
    BY <1>1, <1>2, <2>1, WholeBlockTokens
  <2>3. CellsOf(p, BlockOf(x)) = CellsOf(q, BlockOf(x))
    BY <1>2, <2>1, <2>2
  <2>4. x <= Len(p) /\ x <= Len(q)
    BY <1>1, <1>3
  <2>5. CellsOf(p, BlockOf(x))[CellOf(x)] = p[x]
    BY <2>1, <2>4 DEF CellsOf
  <2>6. CellsOf(q, BlockOf(x))[CellOf(x)] = q[x]
    BY <2>1, <2>4 DEF CellsOf
  <2> QED BY <2>3, <2>5, <2>6
<1> QED BY <1>1, <1>3, <1>5, SeqEqual

(***************************************************************************)
(* From the end of two chains with the same hash back: two links with the  *)
(* same hash are the same link, or there is a collision.                   *)
(***************************************************************************)
LEMMA EqualOrCollide ==
    ASSUME NEW p \in HashedPrefixes, NEW q \in HashedPrefixes, Key(p) = Key(q)
    PROVE  p = q \/ Collide(p, q)
<1> SUFFICES ASSUME ~ Collide(p, q) PROVE p = q
  OBVIOUS
<1> DEFINE keyP(i) == Key(UpToBlock(p, i))
           keyQ(i) == Key(UpToBlock(q, i))
           endP(i) == LastBlock(UpToBlock(p, i))
           endQ(i) == LastBlock(UpToBlock(q, i))
<1>1. PICK n \in Nat : n = WholeBlocks(Len(p))
  BY WholePrefix
<1>2. PICK m \in Nat : m = WholeBlocks(Len(q))
  BY WholePrefix
<1>3. /\ keyP(0) = Start /\ \A i \in 1..n : keyP(i) = Hash(keyP(i - 1), endP(i))
      /\ keyQ(0) = Start /\ \A i \in 1..m : keyQ(i) = Hash(keyQ(i - 1), endQ(i))
  BY <1>1, <1>2, KeyLink
<1>4. keyP(n) = keyQ(m)
  BY <1>1, <1>2, WholePrefix
<1>5. /\ \A i \in 1..n : <<keyP(i - 1), endP(i)>> \in Links(p)
      /\ \A i \in 1..m : <<keyQ(i - 1), endQ(i)>> \in Links(q)
  BY <1>1, <1>2 DEF Links
<1> HIDE DEF keyP, keyQ, endP, endQ
<1>6. ASSUME NEW i \in 1..n, NEW j \in 1..m, keyP(i) = keyQ(j)
      PROVE  keyP(i - 1) = keyQ(j - 1) /\ endP(i) = endQ(j)
  <2>1. /\ Hash(keyP(i - 1), endP(i)) = Hash(keyQ(j - 1), endQ(j))
        /\ <<keyP(i - 1), endP(i)>> \in Links(p) /\ <<keyQ(j - 1), endQ(j)>> \in Links(q)
    BY <1>3, <1>5, <1>6
  <2>2. <<keyP(i - 1), endP(i)>> = <<keyQ(j - 1), endQ(j)>>
    BY <2>1 DEF Collide
  <2> QED BY <2>2
<1>7. /\ \A i \in 1..n : keyP(i) # Start
      /\ \A i \in 1..m : keyQ(i) # Start
  <2>1. ASSUME NEW i \in 1..n PROVE keyP(i) # Start
    <3>1. PICK x \in Links(p) \cup Links(q) : x = <<keyP(i - 1), endP(i)>>
      BY <1>5
    <3>2. Hash(x[1], x[2]) # Start
      BY DEF Collide
    <3> QED BY <3>1, <3>2, <1>3
  <2>2. ASSUME NEW i \in 1..m PROVE keyQ(i) # Start
    <3>1. PICK x \in Links(p) \cup Links(q) : x = <<keyQ(i - 1), endQ(i)>>
      BY <1>5
    <3>2. Hash(x[1], x[2]) # Start
      BY DEF Collide
    <3> QED BY <3>1, <3>2, <1>3
  <2> QED BY <2>1, <2>2
<1> DEFINE Apart == {d \in Nat : d <= n /\ d <= m /\ keyP(n - d) # keyQ(m - d)}
<1>8. ASSUME Apart # {} PROVE FALSE
  <2>1. PICK d \in Apart : \A e \in Apart : d <= e
    BY <1>8, LeastNatural
  <2>2. d # 0
    BY <1>4, <2>1
  <2>3. d - 1 \in Nat /\ d - 1 \notin Apart /\ d <= n /\ d <= m
    BY <2>1, <2>2
  <2>4. PICK i \in 1..n : i = n - (d - 1) /\ i - 1 = n - d
    BY <2>3
  <2>5. PICK j \in 1..m : j = m - (d - 1) /\ j - 1 = m - d
    BY <2>3
  <2>6. keyP(i) = keyQ(j)
    BY <2>3, <2>4, <2>5
  <2> QED BY <2>1, <2>4, <2>5, <2>6, <1>6
<1>9. \A d \in Nat : d <= n /\ d <= m => keyP(n - d) = keyQ(m - d)
  BY <1>8
<1>10. n = m
  <2>1. ASSUME m < n PROVE FALSE
    <3>1. n - m \in 1..n /\ m - m = 0
      BY <2>1
    <3>2. keyP(n - m) = keyQ(m - m)
      BY <1>9, <2>1
    <3> QED BY <3>1, <3>2, <1>3, <1>7
  <2>2. ASSUME n < m PROVE FALSE
    <3>1. m - n \in 1..m /\ n - n = 0
      BY <2>2
    <3>2. keyP(n - n) = keyQ(m - n)
      BY <1>9, <2>2
    <3> QED BY <3>1, <3>2, <1>3, <1>7
  <2> QED BY <2>1, <2>2
<1>11. ASSUME NEW i \in 1..n PROVE endP(i) = endQ(i)
  <2>1. PICK d \in Nat : d = n - i /\ d <= n /\ n - d = i
    OBVIOUS
  <2>2. keyP(i) = keyQ(i)
    BY <2>1, <1>9, <1>10
  <2> QED BY <2>2, <1>6, <1>10
<1> QED BY <1>1, <1>2, <1>10, <1>11, BlocksMakePrefix DEF endP, endQ

(***************************************************************************)
(* allocate shares a block that holds the tokens it is used for, and one   *)
(* that was computed behind other tokens only if hashes collide on the way *)
(* (paged_kv.py:131-142 and 178): index and blocks agree over eviction and *)
(* republication, and the chain passes no other difference on.             *)
(***************************************************************************)
THEOREM SharedContext == Spec => SharedUnlessCollision
<1> DEFINE InContext == \A b \in Blocks : ShareBlock /\ built' = Append(built, b) =>
              \/ published[b] = UpToBlock(call.toks, NextBlock)
              \/ /\ LastBlock(published[b]) = LastBlock(UpToBlock(call.toks, NextBlock))
                 /\ Collide(published[b], UpToBlock(call.toks, NextBlock))
<1>1. ASSUME IInv PROVE InContext
  <2> SUFFICES ASSUME NEW b \in Blocks, ShareBlock, built' = Append(built, b)
               PROVE  \/ published[b] = UpToBlock(call.toks, NextBlock)
                      \/ /\ LastBlock(published[b]) = LastBlock(UpToBlock(call.toks, NextBlock))
                         /\ Collide(published[b], UpToBlock(call.toks, NextBlock))
    OBVIOUS
  <2> DEFINE key == Key(UpToBlock(call.toks, NextBlock))
  <2>1. /\ call.op = "share" /\ NextBlock <= call.limit
        /\ key \in DOMAIN index /\ published[index[key]] # << >>
        /\ LastBlock(published[index[key]]) = LastBlock(UpToBlock(call.toks, NextBlock))
        /\ built' = Append(built, index[key])
    BY DEF ShareBlock, In, Shareable, Resident, Acquire
  <2>2. PICK c \in Blocks : c = index[key]
    BY <1>1, <2>1 DEF IInv, PoolOK, PoolType
  <2>3. b = c
    <3>1. built \in Seq(Blocks) /\ Append(built, b) = Append(built, c)
      BY <1>1, <2>1, <2>2 DEF IInv, ListsOK
    <3>2. /\ Append(built, b)[Len(built) + 1] = b
          /\ Append(built, c)[Len(built) + 1] = c
      BY <3>1, AppendProperties
    <3> QED BY <3>1, <3>2
  <2>4. published[c] \in HashedPrefixes /\ Key(published[c]) = key
    BY <1>1, <2>1, <2>2 DEF IInv, PoolOK, PoolType, IndexSound
  <2>5. InCall /\ Allocating
    BY <1>1, <2>1, InCallFacts DEF IInv, InCall
  <2>6. PICK i \in 1..WholeBlocks(Len(call.toks)) : i = NextBlock
    <3>1. WholeBlocks(call.n) \in Nat /\ call.limit \in Nat /\ Len(built) \in Nat
      <4>1. call.n \in Nat /\ call.limit \in Nat
        BY <2>5, PagedAssumption DEF InCall, CallRecords
      <4>2. built \in Seq(Blocks)
        BY <1>1 DEF IInv, ListsOK
      <4> QED BY <4>1, <4>2, Division, LenProperties
    <3> QED BY <2>1, <2>5, <3>1 DEF Allocating, NextBlock
  <2>7. UpToBlock(call.toks, i) \in HashedPrefixes
    BY <2>5, WholeBlockTokens DEF InCall, CallRecords
  <2> HIDE DEF key
  <2>8. key = Key(UpToBlock(call.toks, i))
    BY <2>6 DEF key
  <2> QED BY <2>1, <2>2, <2>3, <2>4, <2>6, <2>7, <2>8, EqualOrCollide
<1>2. IInv => InContext
  BY <1>1
<1> QED BY <1>2, PagedInvariance, PTL DEF SharedUnlessCollision
=============================================================================
