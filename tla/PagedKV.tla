------------------------------- MODULE PagedKV -------------------------------
(***************************************************************************)
(* The paged KV-cache allocator of engine/paged_kv.py: a fixed pool of     *)
(* blocks with reference counts, an index from content hashes to blocks,   *)
(* copy-on-write, and eviction of unreferenced blocks in LRU order.        *)
(*                                                                         *)
(* Every public method holds the lock from beginning to end, so calls do   *)
(* not interleave: a call is an action that starts it, and one action for  *)
(* each pass of its loops; `call' says which call is in progress, `built'  *)
(* is the local list of blocks it has gathered, and `todo' the blocks it   *)
(* has still to release.                                                   *)
(*                                                                         *)
(* A block's content_hash and tokens are functions of the token sequence   *)
(* it was published under, which `published' holds; content_hash is None   *)
(* and tokens is () where that sequence is empty.  n_filled, last_used and *)
(* the counters are left out: no decision of the allocator reads them.     *)
(***************************************************************************)
EXTENDS Integers, SequencesExt

CONSTANTS
    Seqs,         \* sequence ids
    Words,        \* token ids
    Blocks,       \* block ids; num_blocks is their number
    BlockSize,
    MaxTokens,    \* bound: how long a sequence grows
    Start,        \* the 0 that a chain of hashes starts from
    Hash(_, _)    \* the hash of a block behind a chain with the given hash

EMPTY == -1

ASSUME PagedAssumption ==
    /\ IsFiniteSet(Blocks) /\ Blocks # {}
    /\ BlockSize \in Nat \ {0}
    /\ MaxTokens \in Nat
    /\ EMPTY \notin Words

VARIABLES
    refs,       \* [Blocks -> Nat], Block.ref_count
    cells,      \* [Blocks -> [1..BlockSize -> Words \cup {EMPTY}]]
    published,  \* [Blocks -> Seq(Words)], see above
    free,       \* _free, the next block to hand out first
    evictable,  \* _evictable, the least recently used block first
    index,      \* _index, from hashes to blocks
    tables,     \* _tables, from sequence ids to sequences of blocks
    lens,       \* _lens
    call, built, todo

poolVars == <<refs, cells, published, free, evictable, index>>
vars == <<poolVars, tables, lens, call, built, todo>>

(***************************************************************************)
(* A call: its name, the sequence it is for, the one it copies from, the   *)
(* tokens that sequence is to hold (or, for a write, the one token), their *)
(* number (or its position), and how many blocks may be, or were, shared.  *)
(***************************************************************************)
CallOf(op, s, from, toks, n, limit) ==
    [op |-> op, seq |-> s, from |-> from, toks |-> toks, n |-> n,
     limit |-> limit]

NoCall == [op |-> "none"]

Put(d, k, v) == [x \in DOMAIN d \cup {k} |-> IF x = k THEN v ELSE d[x]]
Pop(d, k)    == [x \in DOMAIN d \ {k} |-> d[x]]

TableOf(s) == IF s \in DOMAIN tables THEN tables[s] ELSE << >>
LenOf(s)   == IF s \in DOMAIN lens THEN lens[s] ELSE 0

WholeBlocks(n)  == n \div BlockSize

(* Seeded fault: a partial block is not counted. *)
BlocksToHoldFault(n) == WholeBlocks(n)
BlocksToHold(n) == (n + BlockSize - 1) \div BlockSize

(* block_hashes and Block.tokens: the tokens up to the end of block i, and
   those of a published block itself. *)
UpToBlock(toks, i) == SubSeq(toks, 1, i * BlockSize)
LastBlock(prefix)  == SubSeq(prefix, Len(prefix) - BlockSize + 1, Len(prefix))

(* block_hashes: h_i = hash((h_{i-1}, block i)), whose last element is the
   hash of the block at the end of the prefix.  Two chains that collide once
   collide in every block that continues both.  Seeded fault: blocks are
   hashed alone, not as a chain. *)
KeyFault(prefix) == IF prefix = << >> THEN Start ELSE Hash(Start, LastBlock(prefix))
Key(prefix) ==
    LET h[i \in 0..WholeBlocks(Len(prefix))] ==
            IF i = 0 THEN Start ELSE Hash(h[i - 1], LastBlock(UpToBlock(prefix, i)))
    IN  h[WholeBlocks(Len(prefix))]

(* Block i of toks is in the pool: a block with its hash has its tokens. *)
Resident(toks, i) ==
    LET prefix == UpToBlock(toks, i)
    IN  /\ Key(prefix) \in DOMAIN index
        /\ LET b == index[Key(prefix)]
           IN  published[b] # << >> /\ LastBlock(published[b]) = LastBlock(prefix)

(* The cells of block i of toks. *)
CellsOf(toks, i) ==
    [k \in 1..BlockSize |-> IF (i - 1) * BlockSize + k <= Len(toks)
                            THEN toks[(i - 1) * BlockSize + k] ELSE EMPTY]

(* would_fit *)
ResidentRun(toks) ==
    Max({n \in 0..WholeBlocks(Len(toks)) : \A i \in 1..n : Resident(toks, i)})
WouldFit(toks) ==
    BlocksToHold(Len(toks) - ResidentRun(toks) * BlockSize) <= Len(free) + Len(evictable)
-----------------------------------------------------------------------------
NoTokens == [k \in 1..BlockSize |-> EMPTY]

(* The code numbers the blocks in the order of the free list; no decision
   looks at the numbers, so any order stands for it. *)
Init ==
    /\ refs = [b \in Blocks |-> 0]
    /\ cells = [b \in Blocks |-> NoTokens]
    /\ published = [b \in Blocks |-> << >>]
    /\ free \in SetToSeqs(Blocks)
    /\ evictable = << >>
    /\ index = << >>
    /\ tables = << >>
    /\ lens = << >>
    /\ call = NoCall
    /\ built = << >>
    /\ todo = << >>
-----------------------------------------------------------------------------
(***************************************************************************)
(* _alloc_block_locked, with _evict_one_locked where no block is free.     *)
(***************************************************************************)
CanTake == free # << >> \/ evictable # << >>
Evicting == free = << >> /\ evictable # << >>
Taken == IF free # << >> THEN Head(free) ELSE Head(evictable)

(* Seeded fault: the hash of the evicted block stays in the index. *)
IndexAfterEvictionFault == index
IndexAfterEviction ==
    IF Evicting THEN Pop(index, Key(published[Taken])) ELSE index

(* Seeded fault: the evicted block stays in the LRU list. *)
EvictableAfterTakeFault == evictable
EvictableAfterTake == IF Evicting THEN Tail(evictable) ELSE evictable

(* A block leaves the pool with these contents, and is published at once if
   it is full (_publish_locked).  _alloc_block_locked clears the cells here;
   the cells of a free block, which nobody can read, are cleared in Release. *)
TakeBlock(contents, prefix) ==
    /\ CanTake
    /\ free' = IF free # << >> THEN Tail(free) ELSE free
    /\ evictable' = EvictableAfterTake
    /\ cells' = [cells EXCEPT ![Taken] = contents]
    /\ published' = [published EXCEPT ![Taken] = prefix]
    /\ index' = IF prefix = << >> THEN IndexAfterEviction
                ELSE Put(IndexAfterEviction, Key(prefix), Taken)

(***************************************************************************)
(* _release_locked, for each block that a call gives up.  An unreferenced  *)
(* block stays in reach of its hash if it has one, or is free at once.     *)
(***************************************************************************)
Release ==
    /\ todo # << >>
    /\ LET b == Head(todo) IN
        /\ refs' = [refs EXCEPT ![b] = @ - 1]
        /\ IF refs[b] = 1 /\ published[b] # << >>
           THEN evictable' = Append(evictable, b) ELSE UNCHANGED evictable
        /\ IF refs[b] = 1 /\ published[b] = << >>
           THEN free' = Append(free, b) /\ cells' = [cells EXCEPT ![b] = NoTokens]
           ELSE UNCHANGED <<free, cells>>
    /\ todo' = Tail(todo)
    /\ UNCHANGED <<published, index, tables, lens, call, built>>

(* _acquire_locked *)
Referenced(b) == [refs EXCEPT ![b] = @ + 1]

Acquire(b) ==
    /\ refs' = Referenced(b)
    /\ evictable' = IF refs[b] = 0 THEN RemoveFirst(evictable, b) ELSE evictable
    /\ built' = Append(built, b)
    /\ UNCHANGED <<cells, published, free, index, tables, lens, call, todo>>

(* A call begins when the one before it has ended, and goes on when what it
   gives up is released. *)
Idle == call = NoCall /\ todo = << >>
In(op) == call.op = op /\ todo = << >>

(* What _free_locked does to the tables. *)
GiveUp(s) ==
    /\ tables' = Pop(tables, s)
    /\ lens' = Pop(lens, s)
    /\ todo' = TableOf(s)

FreeSeq(s) ==
    /\ Idle /\ s \in DOMAIN tables
    /\ GiveUp(s)
    /\ UNCHANGED <<poolVars, call, built>>

(* A table that is left empty is dropped. *)
Truncate(s, n) ==
    /\ Idle /\ s \in DOMAIN tables
    /\ n \in 0..LenOf(s)
    /\ LET keep == SubSeq(tables[s], 1, BlocksToHold(n)) IN
        /\ todo' = SubSeq(tables[s], BlocksToHold(n) + 1, Len(tables[s]))
        /\ tables' = IF keep = << >> THEN Pop(tables, s) ELSE Put(tables, s, keep)
        /\ lens' = IF keep = << >> THEN Pop(lens, s) ELSE Put(lens, s, n)
    /\ UNCHANGED <<poolVars, call, built>>
-----------------------------------------------------------------------------
(***************************************************************************)
(* allocate: share leading blocks, then take private ones for the rest.    *)
(***************************************************************************)
Allocate(s, toks, limit) ==
    /\ Idle
    /\ GiveUp(s)
    /\ call' = CallOf("share", s, s, toks, Len(toks), limit)
    /\ UNCHANGED <<poolVars, built>>

NextBlock == Len(built) + 1
Shareable == NextBlock <= call.limit /\ Resident(call.toks, NextBlock)

ShareBlock ==
    /\ In("share") /\ Shareable
    /\ Acquire(index[Key(UpToBlock(call.toks, NextBlock))])

ShareDone ==
    /\ In("share") /\ ~ Shareable
    /\ call' = [call EXCEPT !.op = "fill", !.limit = Len(built)]
    /\ UNCHANGED <<poolVars, tables, lens, built, todo>>

Unfilled == Len(built) < BlocksToHold(call.n)

FillBlock ==
    /\ In("fill") /\ Unfilled /\ CanTake
    /\ TakeBlock(CellsOf(call.toks, NextBlock),
                 IF NextBlock <= WholeBlocks(call.n)
                 THEN UpToBlock(call.toks, NextBlock) ELSE << >>)
    /\ refs' = [refs EXCEPT ![Taken] = 1]
    /\ built' = Append(built, Taken)
    /\ UNCHANGED <<tables, lens, call, todo>>

(***************************************************************************)
(* share_prefix and fork: take the blocks of another sequence over.  The   *)
(* last block is copied by share_prefix where it is not whole, and shared  *)
(* in any case by fork.                                                    *)
(***************************************************************************)
SharePrefix(from, s, n) ==
    /\ Idle /\ from # s /\ from \in DOMAIN tables
    /\ n \in 1..LenOf(from)
    /\ GiveUp(s)
    /\ call' = CallOf("copy", s, from, << >>, n, WholeBlocks(n))
    /\ UNCHANGED <<poolVars, built>>

Fork(from, s) ==
    /\ Idle /\ from # s /\ from \in DOMAIN tables
    /\ GiveUp(s)
    /\ call' = CallOf("copy", s, from, << >>, lens[from], Len(tables[from]))
    /\ UNCHANGED <<poolVars, built>>

CopyReference ==
    /\ In("copy") /\ Len(built) < call.limit
    /\ Acquire(tables[call.from][NextBlock])

(* cells[bid][:tail] = cells[src_bid][:tail] *)
TailCells ==
    [k \in 1..BlockSize |-> IF WholeBlocks(call.n) * BlockSize + k <= call.n
                            THEN cells[tables[call.from][NextBlock]][k] ELSE EMPTY]

CopyTail ==
    /\ In("copy") /\ Len(built) = call.limit /\ Unfilled
    /\ TakeBlock(TailCells, << >>)
    /\ refs' = [refs EXCEPT ![Taken] = 1]
    /\ built' = Append(built, Taken)
    /\ UNCHANGED <<tables, lens, call, todo>>

(* The table is complete: allocate, share_prefix and fork install it. *)
Install ==
    /\ In("fill") \/ (In("copy") /\ Len(built) >= call.limit)
    /\ ~ Unfilled
    /\ tables' = Put(tables, call.seq, built)
    /\ lens' = Put(lens, call.seq, call.n)
    /\ call' = NoCall /\ built' = << >>
    /\ UNCHANGED <<poolVars, todo>>
-----------------------------------------------------------------------------
(***************************************************************************)
(* write: one token at any position.  The table grows to the block of the  *)
(* position, which may take several blocks.                                *)
(***************************************************************************)
Write(s, p, w) ==
    /\ Idle /\ p < MaxTokens
    /\ tables' = Put(tables, s, TableOf(s))
    /\ lens' = Put(lens, s, LenOf(s))
    /\ call' = CallOf("write", s, s, <<w>>, p, 0)
    /\ UNCHANGED <<poolVars, built, todo>>

Place  == WholeBlocks(call.n) + 1        \* the block of the table, from 1
Offset == (call.n % BlockSize) + 1         \* and the cell in it
MissingBlock == Len(tables[call.seq]) + Len(built) < Place

(* while len(table) + len(grown) <= bi *)
Grow ==
    /\ In("write") /\ MissingBlock
    /\ TakeBlock(NoTokens, << >>)
    /\ refs' = [refs EXCEPT ![Taken] = 1]
    /\ built' = Append(built, Taken)
    /\ UNCHANGED <<tables, lens, call, todo>>

GrownTable == tables[call.seq] \o built
Target == GrownTable[Place]

(* Seeded fault: copy only if two others share the block. *)
MustCopyFault == ~ MissingBlock /\ refs[Target] > 2
MustCopy == ~ MissingBlock /\ refs[Target] > 1

(* _write_block_locked takes a published block out of the index; seeded
   fault: the block keeps its hash. *)
UnpublishedFault == published
Unpublished == [published EXCEPT ![Target] = << >>]

EndWrite ==
    /\ lens' = [lens EXCEPT ![call.seq] =
                   IF call.n < @ THEN @ ELSE call.n + 1]
    /\ call' = NoCall /\ built' = << >>
    /\ UNCHANGED todo

WriteInPlace ==
    /\ In("write") /\ ~ MissingBlock /\ ~ MustCopy
    /\ cells' = [cells EXCEPT ![Target][Offset] = call.toks[1]]
    /\ published' = Unpublished
    /\ index' = IF published[Target] = << >> THEN index
                ELSE Pop(index, Key(published[Target]))
    /\ tables' = [tables EXCEPT ![call.seq] = GrownTable]
    /\ EndWrite
    /\ UNCHANGED <<refs, free, evictable>>

(* _cow_locked: the copy is written, the others keep the block. *)
WriteCopy ==
    /\ In("write") /\ MustCopy
    /\ TakeBlock([cells[Target] EXCEPT ![Offset] = call.toks[1]], << >>)
    /\ refs' = [refs EXCEPT ![Taken] = 1, ![Target] = @ - 1]
    /\ tables' = [tables EXCEPT ![call.seq] = [GrownTable EXCEPT ![Place] = Taken]]
    /\ EndWrite

(* OutOfBlocks is raised where a block is needed and there is none: the call
   releases what it has gathered. *)
NeedsBlock ==
    \/ In("fill") /\ Unfilled
    \/ In("copy") /\ Len(built) = call.limit /\ Unfilled
    \/ In("write") /\ (MissingBlock \/ MustCopy)

OutOfBlocks ==
    /\ NeedsBlock /\ ~ CanTake
    /\ todo' = built
    /\ call' = NoCall /\ built' = << >>
    /\ UNCHANGED <<poolVars, tables, lens>>
-----------------------------------------------------------------------------
Begin ==
    \E s \in Seqs :
        \/ FreeSeq(s)
        \/ \E n \in 0..MaxTokens : Truncate(s, n)
        \/ \E toks \in SeqOf(Words, MaxTokens) :
             \E limit \in 0..WholeBlocks(Len(toks)) : Allocate(s, toks, limit)
        \/ \E from \in Seqs, n \in 1..MaxTokens : SharePrefix(from, s, n)
        \/ \E from \in Seqs : Fork(from, s)
        \/ \E p \in 0..MaxTokens, w \in Words : Write(s, p, w)

Continue ==
    \/ Release \/ ShareBlock \/ ShareDone \/ FillBlock \/ CopyReference
    \/ CopyTail \/ Install \/ Grow \/ WriteInPlace \/ WriteCopy \/ OutOfBlocks

Next == Begin \/ Continue

Spec == Init /\ [][Next]_vars
=============================================================================
