-------------------------- MODULE GenerationService --------------------------
(***************************************************************************)
(* What engine/base.py promises the API layer about any engine behind it:  *)
(* a submitted request is either refused at once or accepted; an accepted  *)
(* request streams the tokens of its own generation in order, with no      *)
(* token dropped, repeated or taken from another context; the stream is    *)
(* then closed, once, and stays as it was.  Nothing is said of how         *)
(* requests share the model, so every engine can be held against it.       *)
(*                                                                         *)
(* Token n of request r is <<r, n>>, counting from its first prompt token. *)
(***************************************************************************)
EXTENDS Naturals, Sequences

CONSTANT Requests

VARIABLES
    accepted,  \* requests the service has taken on
    prompt,    \* [Requests -> Nat], prompt length of an accepted request
    stream,    \* [Requests -> Seq(Token)], what the client has been sent
    closed     \* requests whose stream has ended

vars == <<accepted, prompt, stream, closed>>

Init ==
    /\ accepted = {}
    /\ prompt \in [Requests -> {0}]
    /\ stream = [r \in Requests |-> << >>]
    /\ closed = {}

Accept(r) ==
    /\ r \notin accepted
    /\ accepted' = accepted \cup {r}
    /\ prompt'[r] \in Nat
    /\ prompt' = [prompt EXCEPT ![r] = prompt'[r]]
    /\ UNCHANGED <<stream, closed>>

Deliver(r) ==
    /\ r \in accepted \ closed
    /\ stream' = [stream EXCEPT
                    ![r] = Append(@, <<r, prompt[r] + Len(stream[r])>>)]
    /\ UNCHANGED <<accepted, prompt, closed>>

(* Engines may end several streams in one step, as a shutdown does. *)
Close(R) ==
    /\ R # {}
    /\ R \subseteq accepted \ closed
    /\ closed' = closed \cup R
    /\ UNCHANGED <<accepted, prompt, stream>>

Next ==
    \/ \E r \in Requests : Accept(r) \/ Deliver(r)
    \/ \E R \in SUBSET Requests : Close(R)

Spec == Init /\ [][Next]_vars

(* Every accepted request is eventually answered to the end. *)
AllAnswered == \A r \in Requests : r \in accepted ~> r \in closed

LiveSpec == Spec /\ AllAnswered
=============================================================================
