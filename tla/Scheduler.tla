------------------------------ MODULE Scheduler ------------------------------
(***************************************************************************)
(* The scheduling policy of engine/scheduler.py: which waiting request is  *)
(* admitted next, and which running request is paused to make room for it. *)
(* The policy is pure: it reads the variables declared here, and the       *)
(* engine (Continuous.tla) performs what it decides while it holds its     *)
(* lock, so the operators are evaluated in one step with their effects.    *)
(*                                                                         *)
(* A request is named by its rid, which request.py draws from a counter.   *)
(* A later request has a larger rid and a larger arrival_t, so `rid' also  *)
(* stands for the arrival time wherever the code compares arrival_t.       *)
(***************************************************************************)
EXTENDS Integers, FiniteSets

CONSTANTS
    NumRequests,       \* bound: how many requests the clients create
    Shapes,            \* what a client may ask for: priority, prompt, maxTokens
    Policy,            \* "fcfs" or "priority"
    EnablePreemption,
    StarvationAge,     \* starvation_s in clock ticks; 0 switches promotion off
    MaxPreemptions

Requests == 1..NumRequests

(***************************************************************************)
(* A shape holds what matters of a Request when it is created: `priority'  *)
(* (lower is more urgent), `prompt', the number of prompt tokens, and      *)
(* `maxTokens', which SamplingParams.normalized() clamps to at least 1.    *)
(* A prompt may tokenize to nothing when the model adds no BOS token.      *)
(***************************************************************************)
ASSUME SchedulerAssumption ==
    /\ NumRequests \in Nat \ {0}
    /\ Shapes # {}
    /\ \A s \in Shapes : /\ s.priority \in Int
                         /\ s.prompt \in Nat
                         /\ s.maxTokens \in Nat \ {0}
    /\ EnablePreemption \in BOOLEAN
    /\ StarvationAge \in Nat
    /\ MaxPreemptions \in Nat

VARIABLES
    shape,           \* [Requests -> Shapes]
    stage,           \* Request.stage
    age,             \* ticks since last_queued_t, no further than StarvationAge
    firstScheduled,  \* rank of first_scheduled_t among the requests; 0 is None
    preemptions,     \* RequestMetrics.preemptions
    promoted         \* Scheduler.promoted_rids

schedulerVars == <<shape, stage, age, firstScheduled, preemptions, promoted>>

Priority(r) == shape[r].priority

(* `now - last_queued_t >= starvation_s': age stops at the threshold, which
   is all this comparison can tell apart. *)
IsStarving(r) == StarvationAge > 0 /\ age[r] >= StarvationAge

Oldest(W) == CHOOSE r \in W : \A q \in W : r <= q

(* Seeded faults: the priority is ignored; the latest of equals is taken. *)
MostUrgentFaultPriority(W) == Oldest(W)
MostUrgentFaultTies(W) ==
    CHOOSE r \in W : \A q \in W : \/ Priority(r) < Priority(q)
                                  \/ Priority(r) = Priority(q) /\ q <= r

MostUrgent(W) ==
    CHOOSE r \in W : \A q \in W : \/ Priority(r) < Priority(q)
                                  \/ Priority(r) = Priority(q) /\ r <= q

Starving(W) == {r \in W : IsStarving(r)}

(* The request that is served next among the waiting ones, W # {}. *)
Pick(W) ==
    IF Policy = "fcfs" THEN Oldest(W)
    ELSE IF Starving(W) # {} THEN Oldest(Starving(W)) ELSE MostUrgent(W)

(* promoted_rids after pick: merely choosing a starving request promotes it,
   whether or not a slot is found for it in this round. *)
PromotedByPick(W) ==
    promoted \cup IF Policy # "fcfs" /\ Starving(W) # {} THEN {Pick(W)} ELSE {}

(* Seeded faults: one of the two grounds for immunity is forgotten. *)
IsImmuneFaultCount(r) == r \in promoted
IsImmuneFaultPromoted(r) == preemptions[r] >= MaxPreemptions
IsImmune(r) == r \in promoted \/ preemptions[r] >= MaxPreemptions

(* Running requests that may lose their slot; a request still prefilling has
   produced nothing and is left alone. *)
Preemptible(A) == {r \in A : stage[r] = "decode" /\ ~ IsImmune(r)}

(* The least urgent first and, among equals, the latest to be scheduled. *)
IsFirstVictim(v, V) ==
    \A q \in V : \/ Priority(q) < Priority(v)
                 \/ /\ Priority(q) = Priority(v)
                    /\ firstScheduled[q] <= firstScheduled[v]

(* choose_victim: the empty set where the code returns None. *)
Victim(A, candidate) ==
    {v \in Preemptible(A \ {candidate}) :
        /\ EnablePreemption
        /\ IsFirstVictim(v, Preemptible(A \ {candidate}))
        /\ IsStarving(candidate) \/ Priority(candidate) < Priority(v)}
=============================================================================
