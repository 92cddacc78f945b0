-------------------------- MODULE PagedKVProperties --------------------------
(***************************************************************************)
(* What is checked of the paged allocator: the assertions of its           *)
(* check_invariants, which the tests call between random operations, and   *)
(* what they are there to guarantee.                                       *)
(***************************************************************************)
EXTENDS PagedKV

HashedPrefixes == {p \in SeqOf(Words, MaxTokens) : Len(p) % BlockSize = 0}

(* The type invariant: tables are exactly as long as the tokens they hold
   need, hashes stand for whole blocks, and no count is negative. *)
TypeOK ==
    /\ refs \in [Blocks -> Nat]
    /\ cells \in [Blocks -> [1..BlockSize -> Words \cup {EMPTY}]]
    /\ published \in [Blocks -> HashedPrefixes]
    /\ free \in Seq(Blocks) /\ evictable \in Seq(Blocks)
    /\ \A h \in DOMAIN index : index[h] \in Blocks
    /\ DOMAIN tables \subseteq Seqs
    /\ \A s \in DOMAIN tables : tables[s] \in Seq(Blocks)
    /\ DOMAIN lens = DOMAIN tables
    /\ \A s \in DOMAIN lens : /\ lens[s] \in 0..MaxTokens
                              /\ Len(tables[s]) = BlocksToHold(lens[s])
    /\ call.op \in {"none", "share", "fill", "copy", "write"}
    /\ built \in Seq(Blocks) /\ todo \in Seq(Blocks)

(* The places that count as a reference to block b. *)
Entries(b) == {e \in Seqs \X (1..(MaxTokens + 1)) :
                  /\ e[1] \in DOMAIN tables
                  /\ e[2] \in DOMAIN tables[e[1]]
                  /\ tables[e[1]][e[2]] = b}
Places(list, b) == {i \in DOMAIN list : list[i] = b}

(***************************************************************************)
(* A block's reference count is the number of table entries that name it,  *)
(* and of those that the call in progress is adding or giving up.          *)
(***************************************************************************)
RefsExact ==
    \A b \in Blocks :
        refs[b] = Cardinality(Entries(b)) + Cardinality(Places(built, b))
                  + Cardinality(Places(todo, b))

(***************************************************************************)
(* What check_invariants asserts (paged_kv.py:410-442), also in the middle *)
(* of a call: reference counts do not drift from the tables, and every     *)
(* block is free, evictable or referenced, in exactly one of the three,    *)
(* and listed once; an evictable block has a hash.  So no block is lost,   *)
(* or handed out while somebody reads it.                                  *)
(***************************************************************************)
BlocksAccounted ==
    /\ RefsExact
    /\ IsInjective(free) /\ IsInjective(evictable)
    /\ ToSet(free) \cap ToSet(evictable) = {}
    /\ \A b \in Blocks :
          refs[b] = 0 <=> b \in ToSet(free) \cup ToSet(evictable)
    /\ \A b \in ToSet(evictable) : published[b] # << >>
    /\ \A b \in ToSet(free) : published[b] = << >>

(***************************************************************************)
(* The index has no stale entry: it leads to a block that still carries    *)
(* that hash, through eviction, rewriting and publication in any order.    *)
(***************************************************************************)
IndexSound ==
    \A h \in DOMAIN index :
        published[index[h]] # << >> /\ Key(published[index[h]]) = h

(***************************************************************************)
(* "Full blocks are immutable": as long as a block carries a hash, its     *)
(* cells are the tokens it was published with.                             *)
(***************************************************************************)
PublishedImmutable ==
    \A b \in Blocks : published[b] # << >> => cells[b] = LastBlock(published[b])

(***************************************************************************)
(* A shared block was computed behind the same tokens as it is used        *)
(* behind: "a prefix match is a true prefix", and "a hash collision        *)
(* degrades into a cache miss" (paged_kv.py:24-28).                        *)
(***************************************************************************)
SharedInContext ==
    [][\A b \in Blocks : ShareBlock /\ built' = Append(built, b) =>
          published[b] = UpToBlock(call.toks, NextBlock)]_vars

(* What is hashed for each block of a prefix: the chain before it and the
   block.  Two prefixes collide if two different links have the same hash, or
   one has the hash that a chain starts from. *)
Links(prefix) ==
    {<<Key(UpToBlock(prefix, i - 1)), LastBlock(UpToBlock(prefix, i))>> :
        i \in 1..WholeBlocks(Len(prefix))}

Collide(p, q) ==
    \E x, y \in Links(p) \cup Links(q) :
        \/ x # y /\ Hash(x[1], x[2]) = Hash(y[1], y[2])
        \/ Hash(x[1], x[2]) = Start

(***************************************************************************)
(* What paged_kv.py:131-142 and 178 do keep of that promise, over eviction *)
(* and republication: a shared block holds the tokens it is used for, and  *)
(* was computed behind others only if the hashes of the two chains collide *)
(* somewhere.                                                              *)
(***************************************************************************)
SharedUnlessCollision ==
    [][\A b \in Blocks : ShareBlock /\ built' = Append(built, b) =>
          \/ published[b] = UpToBlock(call.toks, NextBlock)
          \/ /\ LastBlock(published[b]) = LastBlock(UpToBlock(call.toks, NextBlock))
             /\ Collide(published[b], UpToBlock(call.toks, NextBlock))]_vars

(***************************************************************************)
(* The blocks are invisible: the allocator implements a store in which     *)
(* every sequence has a cache of its own.                                  *)
(***************************************************************************)
Contents ==
    [s \in Seqs |-> [i \in 1..LenOf(s) |->
        cells[tables[s][WholeBlocks(i - 1) + 1]][((i - 1) % BlockSize) + 1]]]

(* What a write leaves at index i: the token, what the table holds there, or
   nothing, in a block the table is to grow by.  A cell behind the end of the
   sequence may hold what a truncation has left there. *)
LeftAt(i) ==
    IF i = call.n + 1 THEN call.toks[1]
    ELSE IF WholeBlocks(i - 1) < Len(tables[call.seq])
    THEN cells[tables[call.seq][WholeBlocks(i - 1) + 1]][((i - 1) % BlockSize) + 1]
    ELSE EMPTY

Promised ==
    IF call.op \in {"share", "fill"} THEN call.toks
    ELSE IF call.op = "copy" THEN SubSeq(Contents[call.from], 1, call.n)
    ELSE [i \in 1..(IF call.n < lens[call.seq] THEN lens[call.seq] ELSE call.n + 1) |->
             LeftAt(i)]

Store == INSTANCE KVStore WITH
    Blank   <- EMPTY,
    store   <- Contents,
    promise <- IF call = NoCall THEN << >> ELSE <<call.seq, Promised>>

(* Every step of the allocator is a step of the store or leaves it alone. *)
StoreSafety == Store!Spec
=============================================================================
