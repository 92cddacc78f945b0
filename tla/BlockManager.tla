----------------------------- MODULE BlockManager -----------------------------
(***************************************************************************)
(* The prefix cache of engine/block_manager.py.  A request that ends or is *)
(* paused leaves its tokens behind in a donor sequence of the backend; one *)
(* that is admitted is given the longest cached prefix of what it needs.   *)
(* The cells are the backend's (SharedCells); the blocks of the paged pool *)
(* (PagedKV, of which the manager is the only caller) are a budget, which  *)
(* stands for the cells that donors pin.                                   *)
(*                                                                         *)
(* All calls come from the scheduler thread of the continuous engine, one  *)
(* after another.  The engine is what this module needs of it: a lane is   *)
(* a sequence slot with the request in it, which computes its tokens, is   *)
(* sampled when none is left to compute, and ends, fails or is paused.     *)
(* on_admit is one step.  Retiring a request is a `job' of several: the    *)
(* steps of the pool are steps of their own.                               *)
(*                                                                         *)
(* `recency' orders the entries by last_used.  Hit counters and the other  *)
(* statistics are left out.                                                *)
(***************************************************************************)
EXTENDS SharedCells, SequencesExt

CONSTANTS
    Lanes,        \* sequence ids of the engine's slots
    Donors,       \* cache_seq_ids
    Words,        \* token ids
    Blocks,       \* blocks of the pool; total_blocks is their number
    BlockSize,
    MaxTokens,    \* bound: prompt and output of a request
    Prompts,      \* the prompts of the clients
    CanFail,      \* a decode may fail, or the engine be stopped
    MaxPaused,    \* bound: requests that are paused at the same time
    Start,        \* the 0 that a chain of hashes starts from
    Hash(_, _)    \* the hash of a block behind a chain with the given hash

ASSUME ManagerAssumption ==
    /\ Lanes \cap Donors = {}
    /\ IsFiniteSet(Donors)
    /\ IsFiniteSet(Blocks) /\ Blocks # {}
    /\ BlockSize \in Nat \ {0}
    /\ MaxTokens \in Nat
    /\ Prompts \subseteq SeqOf(Words, MaxTokens) \ {<< >>}
    /\ MaxPaused \in Nat
    /\ Checked \in BOOLEAN

VARIABLES
    refs, cells, published, free, evictable, index, tables, lens, call, built,
    todo,         \* the pool's (cells is without use: track_cells is False)
    entries,      \* _entries, from donors to the tokens they keep
    recency,      \* the donors of the entries, the least recently used first
    freeDonors,   \* _free_cache_seqs
    lane,         \* the request in each slot
    paused,       \* preempted requests
    job           \* the retirement in progress

poolVars    == <<refs, cells, published, free, evictable, index, tables, lens,
                 call, built, todo>>
managerVars == <<entries, recency, freeDonors>>
engineVars  == <<lane, paused>>
vars        == <<poolVars, managerVars, engineVars, kv, job>>

Pool == INSTANCE PagedKV WITH Seqs <- Donors

Vacant == [toks |-> << >>]
NoJob  == [at |-> "none"]

(* A request: prompt and output, the length of the prompt, n_computed, and
   metrics.cached_prompt_tokens. *)
RequestOf(toks) == [toks |-> toks, prompt |-> Len(toks), computed |-> 0, cached |-> 0]

Fresh(d) == Append(RemoveFirst(recency, d), d)
-----------------------------------------------------------------------------
Init ==
    /\ Pool!Init
    /\ kv = {}
    /\ entries = << >> /\ recency = << >>
    /\ freeDonors \in SetToSeqs(Donors)
    /\ lane = [s \in Lanes |-> Vacant]
    /\ paused = {}
    /\ job = NoJob
-----------------------------------------------------------------------------
(***************************************************************************)
(* _longest_match_locked: how many blocks of toks the hashes of the entry  *)
(* of d match, and whether its tokens are those of toks so far.            *)
(***************************************************************************)
Blockwise(toks) == Pool!WholeBlocks(Len(toks))
Hashes(toks)    == [i \in 1..Blockwise(toks) |-> Pool!Key(Pool!UpToBlock(toks, i))]

MatchLen(d, toks) == Len(LongestCommonPrefix({Hashes(entries[d]), Hashes(toks)}))

(* Seeded fault: equal hashes are taken for equal tokens. *)
SameTokensFault(d, toks, n) == TRUE
SameTokens(d, toks, n) == Pool!UpToBlock(entries[d], n) = Pool!UpToBlock(toks, n)

Matching(toks) ==
    {d \in DOMAIN entries : MatchLen(d, toks) > 0 /\ SameTokens(d, toks, MatchLen(d, toks))}
LongestMatch(toks) ==
    {d \in Matching(toks) : \A e \in Matching(toks) : MatchLen(e, toks) <= MatchLen(d, toks)}

(* on_admit leaves at least one token to compute; seeded fault: it may leave
   none. *)
ReusableFault(d, toks) == MatchLen(d, toks) * BlockSize
Reusable(d, toks) ==
    IF MatchLen(d, toks) * BlockSize >= Len(toks)
    THEN (MatchLen(d, toks) - 1) * BlockSize
    ELSE MatchLen(d, toks) * BlockSize

(* _admit_locked empties the slot, and on_admit fills it from a donor, whose
   recency is refreshed before the backend is asked.  After a miss the request
   keeps the cached_prompt_tokens of an earlier admission. *)
OnAdmit(s, r) ==
    \/ /\ \A d \in LongestMatch(r.toks) : Reusable(d, r.toks) = 0
       /\ kv' = Without(kv, s)
       /\ lane' = [lane EXCEPT ![s] = r]
       /\ UNCHANGED recency
    \/ \E d \in LongestMatch(r.toks) :
        LET n == Reusable(d, r.toks) IN
        /\ n > 0
        /\ recency' = Fresh(d)
        /\ IF Shares(d, n)
           THEN /\ kv' = PrefixShared(kv, d, s, n)
                /\ lane' = [lane EXCEPT ![s] =
                     [r EXCEPT !.computed = n, !.cached = Min({n, r.prompt})]]
           ELSE /\ kv' = Without(kv, s)
                /\ lane' = [lane EXCEPT ![s] = r]

Idle == job = NoJob /\ Pool!Idle

Admit(s, toks) ==
    /\ Idle /\ lane[s] = Vacant
    /\ OnAdmit(s, RequestOf(toks))
    /\ UNCHANGED <<poolVars, entries, freeDonors, paused, job>>

Resume(s, r) ==
    /\ Idle /\ lane[s] = Vacant
    /\ OnAdmit(s, r)
    /\ paused' = paused \ {r}
    /\ UNCHANGED <<poolVars, entries, freeDonors, job>>
-----------------------------------------------------------------------------
(* The request of s leaves its slot, and toks are to be published. *)
Retire(s, toks) ==
    /\ lane' = [lane EXCEPT ![s] = Vacant]
    /\ job' = [at |-> "publish", seq |-> s,
               toks |-> Pool!UpToBlock(toks, Blockwise(toks)),
               limit |-> Min({Pool!WholeBlocks(lane[s].cached), Blockwise(toks)})]

Prompt(s) == SubSeq(lane[s].toks, 1, lane[s].prompt)

(* One token goes through the model.  After the last one the next is sampled,
   or the request ends and on_finish publishes its prompt. *)
Compute(s) ==
    LET r == lane[s]
        n == r.computed + 1
    IN  /\ Idle /\ r # Vacant
        /\ kv' = Decoded(kv, s, r.computed, r.toks[n])
        /\ \/ /\ n < Len(r.toks)
              /\ lane' = [lane EXCEPT ![s].computed = n]
              /\ UNCHANGED job
           \/ /\ n = Len(r.toks) /\ n < MaxTokens
              /\ \E w \in Words : lane' = [lane EXCEPT ![s] =
                   [r EXCEPT !.computed = n, !.toks = Append(@, w)]]
              /\ UNCHANGED job
           \/ /\ n = Len(r.toks)
              /\ Retire(s, Prompt(s))
        /\ UNCHANGED <<poolVars, managerVars, paused>>

(* _fail_all and _drain end a request wherever it is; on_finish publishes its
   prompt just the same. *)
Fail(s) ==
    /\ CanFail /\ Idle /\ lane[s] # Vacant
    /\ Retire(s, Prompt(s))
    /\ UNCHANGED <<poolVars, managerVars, kv, paused>>

(* A request that decodes is paused: the token sampled last, which has not
   been through the model, is among the resume_tokens on_preempt publishes. *)
Preempt(s) ==
    /\ Idle /\ lane[s] # Vacant
    /\ lane[s].prompt < Len(lane[s].toks) /\ lane[s].computed = Len(lane[s].toks) - 1
    /\ Cardinality(paused) < MaxPaused
    /\ paused' = paused \cup {[lane[s] EXCEPT !.computed = 0]}
    /\ Retire(s, lane[s].toks)
    /\ UNCHANGED <<poolVars, managerVars, kv>>
-----------------------------------------------------------------------------
(***************************************************************************)
(* _publish, and the seq_rm of _retire that follows in any case.           *)
(***************************************************************************)
At(place) == job.at = place /\ Pool!Idle

EndJob(k) == kv' = Without(k, job.seq) /\ job' = NoJob

Exact == {d \in DOMAIN entries : Hashes(entries[d]) = Hashes(job.toks)}
Needless == job.toks = << >> \/ Exact # {}
HasRoom  == freeDonors # << >> /\ Pool!WouldFit(job.toks)

(* Nothing to publish, or an entry with these hashes, which is refreshed. *)
SkipPublication ==
    /\ At("publish") /\ Needless
    /\ EndJob(kv)
    /\ IF Exact = {} THEN UNCHANGED recency ELSE \E d \in Exact : recency' = Fresh(d)
    /\ UNCHANGED <<poolVars, entries, freeDonors, engineVars>>

(* Seeded fault: the donor of an evicted entry is not free again. *)
DonorsAfterEvictionFault(d) == freeDonors
DonorsAfterEviction(d) == Append(freeDonors, d)

(* _evict_locked, in the loop of _acquire_cache_seq_locked *)
EvictEntry ==
    /\ At("publish") /\ ~ Needless /\ ~ HasRoom /\ recency # << >>
    /\ LET d == Head(recency) IN
        /\ Pool!FreeSeq(d)
        /\ kv' = Without(kv, d)
        /\ entries' = Pool!Pop(entries, d)
        /\ freeDonors' = DonorsAfterEviction(d)
    /\ recency' = Tail(recency)
    /\ UNCHANGED <<engineVars, job>>

GiveUp ==
    /\ At("publish") /\ ~ Needless /\ ~ HasRoom /\ recency = << >>
    /\ EndJob(kv)
    /\ UNCHANGED <<poolVars, managerVars, engineVars>>

Reserve ==
    /\ At("publish") /\ ~ Needless /\ HasRoom
    /\ Pool!Allocate(Head(freeDonors), job.toks, job.limit)
    /\ freeDonors' = Tail(freeDonors)
    /\ job' = [at |-> "share", seq |-> job.seq, toks |-> job.toks,
               donor |-> Head(freeDonors)]
    /\ UNCHANGED <<kv, entries, recency, engineVars>>

PoolStep ==
    /\ \/ Pool!Release \/ Pool!ShareBlock \/ Pool!ShareDone \/ Pool!FillBlock
       \/ Pool!Install \/ Pool!OutOfBlocks
    /\ UNCHANGED <<managerVars, engineVars, kv, job>>

HasBlocks == job.donor \in DOMAIN tables
Accepts   == Shares(job.seq, Len(job.toks))

Publish ==
    /\ At("share") /\ HasBlocks /\ Accepts
    /\ EndJob(PrefixShared(kv, job.seq, job.donor, Len(job.toks)))
    /\ entries' = Pool!Put(entries, job.donor, job.toks)
    /\ recency' = Append(recency, job.donor)
    /\ UNCHANGED <<poolVars, freeDonors, engineVars>>

(* The backend refuses, or the pool raised OutOfBlocks; seeded fault: the
   blocks are kept. *)
GivenBackFault == UNCHANGED poolVars
GivenBack == IF HasBlocks THEN Pool!FreeSeq(job.donor) ELSE UNCHANGED poolVars

Withdraw ==
    /\ At("share") /\ ~ (HasBlocks /\ Accepts)
    /\ GivenBack
    /\ freeDonors' = Append(freeDonors, job.donor)
    /\ EndJob(kv)
    /\ UNCHANGED <<entries, recency, engineVars>>
-----------------------------------------------------------------------------
Engine ==
    \E s \in Lanes :
        \/ \E toks \in Prompts : Admit(s, toks)
        \/ \E r \in paused : Resume(s, r)
        \/ Compute(s) \/ Fail(s) \/ Preempt(s)

Next ==
    \/ Engine
    \/ SkipPublication \/ EvictEntry \/ GiveUp \/ Reserve \/ PoolStep \/ Publish
    \/ Withdraw

Spec == Init /\ [][Next]_vars
=============================================================================
