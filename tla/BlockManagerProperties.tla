------------------------ MODULE BlockManagerProperties ------------------------
(***************************************************************************)
(* What is checked of the prefix cache.                                    *)
(***************************************************************************)
EXTENDS BlockManager

(* The type invariant: in particular a slot that is in use has a token left
   to compute, and the pool gives a donor the blocks for whole blocks only. *)
TypeOK ==
    /\ kv \subseteq [pos : 0..(MaxTokens - 1), tok : Words,
                     seqs : (SUBSET (Lanes \cup Donors)) \ {{}}]
    /\ DOMAIN entries \subseteq Donors
    /\ \A d \in DOMAIN entries : entries[d] \in SeqOf(Words, MaxTokens) \ {<< >>}
    /\ recency \in Seq(Donors) /\ freeDonors \in Seq(Donors)
    /\ \A r \in paused \cup {lane[s] : s \in Lanes} : r # Vacant =>
        /\ r.toks \in SeqOf(Words, MaxTokens)
        /\ r.prompt \in 1..Len(r.toks) /\ r.cached \in 0..r.prompt
        /\ r.computed \in 0..(Len(r.toks) - 1)
    /\ job.at \in {"none", "publish", "share"}
    /\ job # NoJob => job.seq \in Lanes /\ Len(job.toks) % BlockSize = 0

InJob == IF job.at = "share" THEN {job.donor} ELSE {}

(***************************************************************************)
(* A donor sequence is free, or keeps an entry, or is being filled, and    *)
(* never two of these; between calls exactly the donors of entries hold    *)
(* blocks of the pool and cells of the backend, whichever call failed in   *)
(* between: nothing pins memory that no entry would ever give back.        *)
(* (_acquire_cache_seq_locked, _publish, _evict_locked.)                   *)
(***************************************************************************)
DonorsConserved ==
    /\ IsInjective(freeDonors) /\ IsInjective(recency)
    /\ ToSet(recency) = DOMAIN entries
    /\ Donors = ToSet(freeDonors) \cup DOMAIN entries \cup InJob
    /\ DOMAIN entries \cap (ToSet(freeDonors) \cup InJob) = {}
    /\ ToSet(freeDonors) \cap InJob = {}
    /\ Pool!Idle => DOMAIN tables \ InJob = DOMAIN entries
    /\ \A d \in Donors \ DOMAIN entries : Held(d) = {}

(***************************************************************************)
(* A request has in its sequence, at every position it takes for computed, *)
(* its own token, and beyond them nothing; and it has a token left to      *)
(* compute, so that there will be logits to sample from.  This is what the *)
(* engine relies on when it continues after on_admit (continuous.py:266),  *)
(* whatever was published, evicted or refused before.                      *)
(***************************************************************************)
ReuseExact ==
    \A s \in Lanes : lane[s] # Vacant =>
        /\ lane[s].computed < Len(lane[s].toks)
        /\ Holds(s, SubSeq(lane[s].toks, 1, lane[s].computed))
        /\ Cardinality(Held(s)) = lane[s].computed
=============================================================================
