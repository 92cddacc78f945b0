-------------------------------- MODULE Output --------------------------------
(***************************************************************************)
(* From logits to the client's text, for one request at temperature zero:  *)
(* the samplers of backends/llama_cpp_backend.py, and what the engine does *)
(* with a token in _advance.                                               *)
(*                                                                         *)
(* Two samplers serve such a request: the fast path, which reads the       *)
(* logits itself, and llama.cpp's chain.  They run side by side here, on   *)
(* the same logits, as in scripts/verify_sampler.py.  The request may be   *)
(* paused between two tokens, and resumes with new samplers.               *)
(*                                                                         *)
(* Logits are even numbers and the penalty is at most two, so that a       *)
(* penalised logit is exact.  A text is a sequence of characters: letters, *)
(* of one byte each, and CHAR, of two.                                     *)
(***************************************************************************)
EXTENDS Integers, SequencesExt

CONSTANTS
    NumTokens,     \* n_vocab; token ids start at zero
    Eog,           \* the token that ends a generation
    Bytes,         \* of each token, as llama_token_to_piece writes them
    Penalties,     \* the values params.repeat_penalty may have
    Scores,        \* the logits a token may have
    LAST_N,        \* PENALTY_LAST_N, and penalty_last_n of the chain
    Stop,          \* params.stop
    MaxTokens      \* params.max_tokens

Vocab == 0..(NumTokens - 1)

ASSUME OutputAssumption ==
    /\ NumTokens \in Nat /\ Eog \in Vocab
    /\ DOMAIN Bytes = Vocab
    /\ \A t \in Vocab : Bytes[t] \in Seq(Range(Bytes[t]))
    /\ Stop \in Seq(Range(Stop)) /\ \A s \in Range(Stop) : s \in Seq(Range(s))
    /\ Penalties \subseteq 0..2
    /\ \A v \in Scores : v \in Int /\ v % 2 = 0
    /\ LAST_N \in Nat \ {0} /\ MaxTokens \in Nat \ {0}

VARIABLES
    repeat_penalty, ignore_eos,    \* of params
    phase,         \* decode, fast, chain or emit
    logits,        \* of the request's slot in the last decode
    recent,        \* GreedySampler._recent
    ring,          \* the penalty history of LlamaCppSampler's chain
    picked,        \* what each sampler chose, [fast, chain]
    output,        \* output_tokens
    text,          \* req.text
    streamed,      \* the pieces the emitter has sent, as one text
    reason         \* finish_reason

params      == <<repeat_penalty, ignore_eos>>
samplerVars == <<logits, recent, ring, picked>>
requestVars == <<output, text, streamed, reason>>
vars        == <<params, phase, samplerVars, requestVars>>

RUNNING == "none"

Init ==
    /\ repeat_penalty \in Penalties /\ ignore_eos \in BOOLEAN
    /\ phase = "decode"
    /\ logits = [t \in Vocab |-> 0]
    /\ recent = << >> /\ ring = << >>
    /\ picked = [fast |-> Eog, chain |-> Eog]
    /\ output = << >> /\ text = << >> /\ streamed = << >>
    /\ reason = RUNNING
-----------------------------------------------------------------------------
(* The deque and the ring buffer keep the last tokens. *)
LastTokens(s) == IF Len(s) > LAST_N THEN SubSeq(s, Len(s) - LAST_N + 1, Len(s)) ELSE s
With(history, t) == LastTokens(Append(history, t))

(* The fast path takes a penalty of zero for one, which changes nothing; the
   chain has a penalties sampler, and with it a history, for the others. *)
Penalty == IF repeat_penalty = 0 THEN 1 ELSE repeat_penalty

ChainPenalises == repeat_penalty \notin {0, 1}
ChainWith(history, t) == IF ChainPenalises THEN With(history, t) ELSE history

(* A penalty moves a logit toward less likely, whatever its sign. *)
Penalised(l, tokens) ==
    [t \in Vocab |-> IF t \notin tokens THEN l[t]
                     ELSE IF l[t] > 0 THEN l[t] \div Penalty ELSE l[t] * Penalty]

(* Of equal logits the first wins. *)
ArgMax(l) == CHOOSE t \in Vocab : \A u \in Vocab : l[u] < l[t] \/ (l[u] = l[t] /\ t <= u)

(* The model: any logits may come. *)
Decode ==
    /\ phase = "decode" /\ reason = RUNNING
    /\ logits' \in [Vocab -> Scores]
    /\ phase' = "fast"
    /\ UNCHANGED <<params, recent, ring, picked, requestVars>>

(* GreedySampler.sample penalises in place, and puts the buffer back; seeded
   fault: it does not. *)
BufferAfterFault(l, tokens) == Penalised(l, tokens)
BufferAfter(l, tokens) == l

FastSample ==
    /\ phase = "fast"
    /\ picked' = [picked EXCEPT !.fast = ArgMax(Penalised(logits, Range(recent)))]
    /\ logits' = BufferAfter(logits, Range(recent))
    /\ phase' = "chain"
    /\ UNCHANGED <<params, recent, ring, requestVars>>

(* LlamaCppSampler.sample: the chain accepts the token it picks. *)
ChainSample ==
    LET best == ArgMax(Penalised(logits, Range(ring)))
    IN  /\ phase = "chain"
        /\ picked' = [picked EXCEPT !.chain = best]
        /\ ring' = ChainWith(ring, best)
        /\ phase' = "emit"
        /\ UNCHANGED <<params, logits, recent, requestVars>>
-----------------------------------------------------------------------------
(* bytes.decode with errors = "replace": two bytes make a CHAR, in their order
   and only together. *)
LEAD == "first byte"
TRAIL == "second byte"
CHAR == "character"
REPLACED == "?"

AndByte(s, b) == IF b = TRAIL /\ s # << >> /\ Last(s) = LEAD
                 THEN Append(Front(s), CHAR) ELSE Append(s, b)

Decoded(bytes) ==
    LET s == FoldLeft(AndByte, << >>, bytes)
    IN  [i \in DOMAIN s |-> IF s[i] \in {LEAD, TRAIL} THEN REPLACED ELSE s[i]]

(* token_to_piece, which asks again with a larger buffer for a long token. *)
Piece(t) == Decoded(Bytes[t])
-----------------------------------------------------------------------------
FastAccept(history, t) == With(history, t)

(* A no-op, since sample has accepted the token; seeded fault: accepted here
   as well. *)
ChainAcceptFault(history, t) == ChainWith(history, t)
ChainAccept(history, t) == history

(* str.find, from 1, or 0 *)
Find(s, sub) ==
    LET at == {i \in 1..(Len(s) - Len(sub) + 1) : SubSeq(s, i, i + Len(sub) - 1) = sub}
    IN  IF at = {} THEN 0 ELSE Min(at)

(* check_stop: of the stop strings in the text the one given first ends the
   text; seeded fault: the one that begins first does. *)
Stops(s) == {i \in DOMAIN Stop : Find(s, Stop[i]) > 0}
FoundFault(s) ==
    Stop[CHOOSE i \in Stops(s) :
            \A j \in Stops(s) : Find(s, Stop[i]) <= Find(s, Stop[j])]
Found(s) == Stop[Min(Stops(s))]

Truncated(s) == SubSeq(s, 1, Find(s, Found(s)) - 1)

IsStopToken(t) == t = Eog /\ ~ ignore_eos

Emit ==
    LET tok  == picked.chain
        full == text \o Piece(tok)
    IN  /\ phase = "emit"
        /\ phase' = "decode"
        /\ IF IsStopToken(tok)
           THEN /\ reason' = "eos"
                /\ UNCHANGED <<recent, ring, output, text, streamed>>
           ELSE /\ recent' = FastAccept(recent, tok)
                /\ ring' = ChainAccept(ring, tok)
                /\ output' = Append(output, tok)
                /\ streamed' = streamed \o Piece(tok)
                /\ text' = IF Stops(full) # {} THEN Truncated(full) ELSE full
                /\ reason' = IF Stops(full) # {} THEN "stop"
                             ELSE IF Len(output) + 1 >= MaxTokens THEN "length"
                             ELSE RUNNING
        /\ UNCHANGED <<params, logits, picked>>

(* The request is paused and comes back: its samplers are closed, and new ones
   are told the output; seeded fault: by accept, which the chain ignores. *)
ChainRestoredFault(tokens) == FoldLeft(ChainAccept, << >>, tokens)
ChainRestored(tokens) == FoldLeft(ChainWith, << >>, tokens)

Resume ==
    /\ phase = "decode" /\ reason = RUNNING
    /\ recent' = FoldLeft(FastAccept, << >>, output)
    /\ ring' = ChainRestored(output)
    /\ UNCHANGED <<params, phase, logits, picked, requestVars>>

Next == Decode \/ FastSample \/ ChainSample \/ Emit \/ Resume

Spec == Init /\ [][Next]_vars
-----------------------------------------------------------------------------
(***************************************************************************)
(* The fast path "is not an approximation" (llama_cpp_backend.py:73): when *)
(* a token is due, the penalty history of either sampler is the last       *)
(* tokens of the output, also after a pause, and the samplers pick the     *)
(* same token.                                                             *)
(***************************************************************************)
SamplersAgree ==
    /\ phase = "fast" => /\ recent = LastTokens(output)
                         /\ ring = IF ChainPenalises THEN recent ELSE << >>
    /\ phase = "emit" => picked.fast = picked.chain

(***************************************************************************)
(* What a plain request returns and what a streaming one was sent          *)
(* (_util.py:32): they are the same and without a stop string unless the   *)
(* request ended by one; then the text ends where, in the stream, the      *)
(* first one begins of those in it, first in the order they were given,    *)
(* and none was in it before the last piece.                               *)
(***************************************************************************)
TextMatchesStream ==
    IF reason # "stop" THEN text = streamed /\ Stops(text) = {}
    ELSE /\ \E i \in DOMAIN Stop :
                /\ Find(streamed, Stop[i]) = Len(text) + 1
                /\ \A j \in 1..(i - 1) : Find(streamed, Stop[j]) = 0
         /\ IsPrefix(text, streamed)
         /\ Stops(SubSeq(streamed, 1, Len(streamed) - Len(Piece(Last(output))))) = {}

(***************************************************************************)
(* "errors="replace" would corrupt multi-byte UTF-8 split across tokens;   *)
(* the engine reassembles pieces, so emit the raw bytes losslessly here"   *)
(* (llama_cpp_backend.py:280-281): the stream is the text that the bytes   *)
(* of the output make together, as detokenize puts them together.          *)
(***************************************************************************)
PiecesAreLossless ==
    streamed = Decoded(FlattenSeq([i \in DOMAIN output |-> Bytes[output[i]]]))
=============================================================================
