-------------------------- MODULE ContinuousProofs --------------------------
(***************************************************************************)
(* Theorems about the continuous engine, for every value of its constants. *)
(***************************************************************************)
EXTENDS ContinuousProperties, SequenceLemmas

-----------------------------------------------------------------------------
(***************************************************************************)
(* The policy: what the choices of the scheduler return, for every number  *)
(* of requests and every assignment of priorities.                         *)
(***************************************************************************)

(***************************************************************************)
(* The CHOOSE of Oldest is of an element that exists.                      *)
(***************************************************************************)
LEMMA OldestExists ==
    ASSUME NEW W \in SUBSET Requests, W # {}
    PROVE  Oldest(W) \in W /\ \A q \in W : Oldest(W) <= q
<1>1. W \in SUBSET Nat
  BY SchedulerAssumption DEF Requests
<1>2. \E r \in W : \A q \in W : r <= q
  BY <1>1, LeastNatural
<1> QED BY <1>2 DEF Oldest

(***************************************************************************)
(* The urgency order has a least element in every set of requests.  The    *)
(* proof takes the smallest bound n for which the requests up to n have    *)
(* none.                                                                   *)
(***************************************************************************)
LEMMA MostUrgentExists ==
    ASSUME NEW W \in SUBSET Requests, W # {}, shape \in [Requests -> Shapes]
    PROVE  /\ MostUrgent(W) \in W
           /\ \A q \in W : \/ Priority(MostUrgent(W)) < Priority(q)
                           \/ /\ Priority(MostUrgent(W)) = Priority(q)
                              /\ MostUrgent(W) <= q
<1> DEFINE First(r, q) == \/ Priority(r) < Priority(q)
                          \/ Priority(r) = Priority(q) /\ r <= q
           Least(V) == \E r \in V : \A q \in V : First(r, q)
           UpTo(n)  == {r \in W : r <= n}
           Bad      == {n \in Nat : UpTo(n) # {} /\ ~ Least(UpTo(n))}
<1>1. \A r \in Requests : Priority(r) \in Int /\ r \in Nat /\ r > 0
  BY SchedulerAssumption DEF Requests, Priority
<1>2. \A r, q \in W : First(r, q) \/ First(q, r)
  BY <1>1
<1>3. \A r, q, p \in W : First(r, q) /\ First(q, p) => First(r, p)
  BY <1>1
<1>4. Bad = {}
  <2> SUFFICES ASSUME Bad # {} PROVE FALSE
    OBVIOUS
  <2>1. PICK n \in Bad : \A m \in Bad : n <= m
    BY LeastNatural
  <2>2. n \in Nat /\ UpTo(n) # {} /\ ~ Least(UpTo(n))
    BY <2>1
  <2>3. n > 0
    BY <2>2, <1>1
  <2>4. n - 1 \in Nat /\ n - 1 \notin Bad
    BY <2>1, <2>2, <2>3
  <2>5. UpTo(n) \subseteq UpTo(n - 1) \cup {n}
    <3> SUFFICES ASSUME NEW q \in UpTo(n), q # n PROVE q \in UpTo(n - 1)
      OBVIOUS
    <3>1. q \in W /\ q \in Nat /\ n \in Nat /\ q <= n
      BY <1>1, <2>2
    <3>2. q <= n - 1
      BY <3>1
    <3> QED BY <3>1, <3>2
  <2>6. UpTo(n - 1) \subseteq UpTo(n)
    BY <1>1, <2>2
  <2> HIDE DEF First
  <2>7. n \in W
    <3> SUFFICES ASSUME n \notin W PROVE FALSE
      OBVIOUS
    <3>1. UpTo(n) = UpTo(n - 1)
      BY <2>5, <2>6
    <3> QED BY <3>1, <2>2, <2>4
  <2>8. CASE UpTo(n - 1) = {}
    <3>1. UpTo(n) = {n}
      BY <2>8, <2>5, <2>2
    <3>2. First(n, n)
      BY <1>2, <2>7
    <3> QED BY <3>1, <3>2, <2>2
  <2>9. CASE UpTo(n - 1) # {}
    <3>1. PICK r \in UpTo(n - 1) : \A q \in UpTo(n - 1) : First(r, q)
      BY <2>9, <2>4
    <3>2. CASE First(r, n)
      <4>1. r \in UpTo(n) /\ \A q \in UpTo(n) : First(r, q)
        BY <3>1, <3>2, <2>5, <2>6
      <4> QED BY <4>1, <2>2
    <3>3. CASE ~ First(r, n)
      <4>1. First(n, r)
        BY <3>3, <1>2, <2>7
      <4>2. \A q \in UpTo(n - 1) : First(n, q)
        BY <3>1, <4>1, <2>7, <1>3
      <4>3. First(n, n) /\ n \in UpTo(n)
        BY <1>2, <2>7, <2>2
      <4>4. \A q \in UpTo(n) : First(n, q)
        BY <4>2, <4>3, <2>5
      <4> QED BY <4>3, <4>4, <2>2
    <3> QED BY <3>2, <3>3
  <2> QED BY <2>8, <2>9
<1> HIDE DEF First
<1>5. NumRequests \in Nat /\ UpTo(NumRequests) = W
  <2>1. \A r \in W : r <= NumRequests
    BY SchedulerAssumption DEF Requests
  <2> QED BY <2>1, SchedulerAssumption
<1>6. Least(W)
  BY <1>4, <1>5
<1> QED BY <1>6, Zenon DEF MostUrgent, First

(***************************************************************************)
(* pick() returns one of the waiting requests, whatever the policy: the    *)
(* `waiting.remove' of _admit_locked finds it in the queue.                *)
(***************************************************************************)
THEOREM PickIsWaiting ==
    ASSUME NEW W \in SUBSET Requests, W # {}, shape \in [Requests -> Shapes]
    PROVE  Pick(W) \in W
<1>1. Starving(W) \in SUBSET Requests /\ Starving(W) \subseteq W
  BY DEF Starving
<1> QED BY <1>1, OldestExists, MostUrgentExists DEF Pick
-----------------------------------------------------------------------------
(***************************************************************************)
(* The inductive invariant.  None of its parts is inductive alone: the     *)
(* slot of a request is given back to the right owner only because the     *)
(* request is active (RequestPlaced), the thread may only touch requests   *)
(* that still are (ThreadConsistent), and what it computes from them has a *)
(* type only because it may.                                               *)
(***************************************************************************)
IInv == TypeOK /\ SlotsConserved /\ RequestPlaced /\ ThreadConsistent

(***************************************************************************)
(* Initially.                                                              *)
(***************************************************************************)
LEMMA InitialState == Init => IInv
<1> SUFFICES ASSUME Init PROVE IInv
  OBVIOUS
<1> USE DEF Init
<1>1. /\ Requests \subseteq Nat /\ NumRequests \in Nat /\ 0 \notin Requests
      /\ NoShape \in Shapes /\ MaxSeqs \in Nat /\ NBatch \in Nat
      /\ StarvationAge \in Nat
  BY SchedulerAssumption, ContinuousAssumption DEF Requests, NoShape
<1>2. freeSlots \in Seq(Slots) /\ DOMAIN freeSlots = 1..MaxSeqs
  <2>1. \A i \in 1..MaxSeqs : i - 1 \in Slots
    BY <1>1 DEF Slots
  <2> QED BY <2>1, <1>1
<1>3. active = << >> /\ Active = {}
  BY DEF Active, ToSet
<1>4. SchedulerType
  BY <1>1 DEF SchedulerType, Stages
<1>5. QueueType
  <2>1. queue \in [Requests -> Seq(Tokens \cup {SENTINEL})] /\ active \in Seq(Requests)
    BY EmptySeq
  <2>2. stopping \in BOOLEAN /\ waiting \in SUBSET Requests
    OBVIOUS
  <2>3. arrived \in 0..NumRequests /\ submitting \in 0..NumRequests
    BY <1>1
  <2> QED BY <2>1, <2>2, <2>3, <1>2 DEF QueueType
<1>6. DataType
  BY <1>1 DEF DataType, IsCache
<1>7. ThreadType
  BY <1>1 DEF ThreadType, Control, Reasons
<1>8. SlotsConserved
  <2>1. IsInjective(freeSlots)
    BY <1>1, <1>2 DEF IsInjective
  <2>2. IsInjective(active)
    BY DEF IsInjective
  <2>3. ASSUME NEW x \in Slots PROVE x \in ToSet(freeSlots)
    <3>1. x + 1 \in 1..MaxSeqs /\ (x + 1) - 1 = x
      BY <1>1 DEF Slots
    <3>2. freeSlots[x + 1] = x
      BY <3>1
    <3> QED BY <3>1, <3>2, <1>2 DEF ToSet
  <2> QED BY <2>1, <2>2, <2>3, <1>3 DEF SlotsConserved
<1>9. RequestPlaced
  BY <1>1, <1>3 DEF RequestPlaced
<1>10. ThreadConsistent
  BY <1>3 DEF ThreadConsistent
<1> QED BY <1>4, <1>5, <1>6, <1>7, <1>8, <1>9, <1>10 DEF IInv, TypeOK

(***************************************************************************)
(* A request leaves the active list and its slot is freed.                 *)
(***************************************************************************)
LEMMA ActiveRequests ==
    ASSUME TypeOK
    PROVE  Active \subseteq Requests /\ \A i \in DOMAIN active : active[i] \in Active
<1>1. active \in Seq(Requests)
  BY DEF TypeOK, QueueType
<1> QED BY <1>1, LenProperties, ElementOfSeq DEF Active, ToSet

(* active.remove(r) takes out r and nothing else. *)
LEMMA LeavesActive ==
    ASSUME TypeOK, SlotsConserved, NEW r \in Active
    PROVE  /\ WithoutActive(r) \in Seq(Requests)
           /\ IsInjective(WithoutActive(r))
           /\ ToSet(WithoutActive(r)) = Active \ {r}
<1>1. active \in Seq(Requests) /\ IsInjective(active)
  BY DEF TypeOK, QueueType, SlotsConserved
<1> QED BY <1>1, RemoveFirstProperties DEF Active, WithoutActive

(* A request that leaves the list and puts its slot back leaves the slots
   conserved (_preempt_locked, _retire). *)
LEMMA SlotReleased ==
    ASSUME TypeOK, SlotsConserved, NEW r \in Active,
           active' = WithoutActive(r),
           freeSlots' = Append(freeSlots, seqId[r]),
           \A q \in Active \ {r} : seqId'[q] = seqId[q]
    PROVE  SlotsConserved'
<1>1. IsInjective(active') /\ Active' = Active \ {r}
  BY LeavesActive DEF Active
<1>2. freeSlots \in Seq(Slots) /\ IsInjective(freeSlots)
  BY DEF TypeOK, QueueType, SlotsConserved
<1>3. seqId[r] \in Slots /\ seqId[r] \notin ToSet(freeSlots)
  BY DEF SlotsConserved
<1>4. /\ IsInjective(freeSlots')
      /\ ToSet(freeSlots') = ToSet(freeSlots) \cup {seqId[r]}
  BY <1>2, <1>3, AppendElements
<1>5. /\ \A q \in Active : seqId[q] \in Slots \ ToSet(freeSlots)
      /\ \A q, p \in Active : seqId[q] = seqId[p] => q = p
      /\ \A s \in Slots : s \in ToSet(freeSlots) \/ \E q \in Active : seqId[q] = s
  BY DEF SlotsConserved
<1>6. \A q \in Active' : seqId'[q] \in Slots \ ToSet(freeSlots')
  BY <1>1, <1>4, <1>5
<1>7. \A q, p \in Active' : seqId'[q] = seqId'[p] => q = p
  BY <1>1, <1>5
<1>8. \A s \in Slots : s \in ToSet(freeSlots') \/ \E q \in Active' : seqId'[q] = s
  BY <1>1, <1>4, <1>5
<1> QED BY <1>1, <1>4, <1>6, <1>7, <1>8 DEF SlotsConserved

(* What pick() returns is in the queue it was given. *)
LEMMA PickedIsWaiting ==
    ASSUME TypeOK, waiting # {}
    PROVE  Pick(waiting) \in waiting
<1>1. waiting \in SUBSET Requests /\ shape \in [Requests -> Shapes]
  BY DEF TypeOK, QueueType, SchedulerType
<1> QED BY <1>1, PickIsWaiting

(***************************************************************************)
(* Slots are conserved by each step: only admission, preemption, the end   *)
(* of a request and the shutdown move them.                                *)
(***************************************************************************)
LEMMA SlotsInductive ==
    ASSUME IInv, [Next]_vars
    PROVE  SlotsConserved'
<1> USE DEF IInv
<1>1. CASE UNCHANGED <<active, freeSlots, seqId>>
  BY <1>1 DEF SlotsConserved, Active
<1>2. ASSUME NEW r \in Requests, Preempt(r) PROVE SlotsConserved'
  <2>1. r \in Active /\ seqId \in [Requests -> Slots \cup {NoSeq}]
    BY <1>2 DEF Preempt, Victim, Preemptible, Active, TypeOK, DataType
  <2>2. /\ active' = WithoutActive(r)
        /\ freeSlots' = Append(freeSlots, seqId[r])
        /\ seqId' = [seqId EXCEPT ![r] = NoSeq]
    BY <1>2 DEF Preempt
  <2>3. \A q \in Active \ {r} : seqId'[q] = seqId[q]
    BY <2>1, <2>2, ActiveRequests
  <2> QED BY <2>1, <2>2, <2>3, SlotReleased
<1>3. ASSUME NEW r \in Requests, Admit(r) PROVE SlotsConserved'
  <2>1. /\ r \in waiting /\ r \notin Active
    <3>1. r \in waiting
      BY <1>3, PickedIsWaiting DEF Admit, Admissible
    <3> QED BY <3>1 DEF RequestPlaced
  <2> DEFINE h == Head(freeSlots)
  <2>2. /\ freeSlots \in Seq(Slots) /\ freeSlots # << >> /\ IsInjective(freeSlots)
        /\ active \in Seq(Requests) /\ IsInjective(active)
        /\ seqId \in [Requests -> Slots \cup {NoSeq}]
    BY <1>3 DEF Admit, Admissible, TypeOK, QueueType, DataType, SlotsConserved
  <2>3. /\ active' = Append(active, r) /\ freeSlots' = Tail(freeSlots)
        /\ seqId' = [seqId EXCEPT ![r] = h]
    BY <1>3 DEF Admit
  <2>4. /\ IsInjective(freeSlots') /\ h \in ToSet(freeSlots) /\ h \in Slots
        /\ ToSet(freeSlots') = ToSet(freeSlots) \ {h}
    BY <2>2, <2>3, TailElements, HeadTailProperties
  <2>5. IsInjective(active') /\ Active' = Active \cup {r}
    BY <2>1, <2>2, <2>3, AppendElements DEF Active
  <2>6. seqId'[r] = h /\ \A q \in Active : seqId'[q] = seqId[q]
    BY <2>1, <2>2, <2>3, ActiveRequests
  <2> HIDE DEF h
  <2>7. /\ \A q \in Active : seqId[q] \in Slots \ ToSet(freeSlots)
        /\ \A q, p \in Active : seqId[q] = seqId[p] => q = p
        /\ \A s \in Slots : s \in ToSet(freeSlots) \/ \E q \in Active : seqId[q] = s
    BY DEF SlotsConserved
  <2>8. \A q \in Active' : seqId'[q] \in Slots \ ToSet(freeSlots')
    BY <2>4, <2>5, <2>6, <2>7
  <2>9. \A q, p \in Active' : seqId'[q] = seqId'[p] => q = p
    BY <2>4, <2>5, <2>6, <2>7
  <2>10. \A s \in Slots : s \in ToSet(freeSlots') \/ \E q \in Active' : seqId'[q] = s
    BY <2>4, <2>5, <2>6, <2>7
  <2> QED BY <2>4, <2>5, <2>8, <2>9, <2>10 DEF SlotsConserved
<1>4. CASE Retire
  <2>1. cur \in Active
    BY <1>4 DEF Retire, ThreadConsistent
  <2>2. /\ active' = WithoutActive(cur)
        /\ freeSlots' = Append(freeSlots, seqId[cur])
        /\ seqId' = seqId
    BY <1>4 DEF Retire, requestVars
  <2> QED BY <2>1, <2>2, SlotReleased
<1>5. CASE Drain
  <2> DEFINE t == [i \in DOMAIN active |-> seqId[active[i]]]
  <2>1. freeSlots' = freeSlots \o t /\ active' = << >>
    BY <1>5 DEF Drain
  <2>2. /\ freeSlots \in Seq(Slots) /\ IsInjective(freeSlots)
        /\ active \in Seq(Requests) /\ IsInjective(active)
    BY DEF TypeOK, QueueType, SlotsConserved
  <2>3. /\ \A q \in Active : seqId[q] \in Slots \ ToSet(freeSlots)
        /\ \A q, p \in Active : seqId[q] = seqId[p] => q = p
        /\ \A s \in Slots : s \in ToSet(freeSlots) \/ \E q \in Active : seqId[q] = s
    BY DEF SlotsConserved
  <2>4. DOMAIN active = 1..Len(active) /\ Len(active) \in Nat
    BY <2>2, LenProperties
  <2>5. \A i \in DOMAIN active : t[i] = seqId[active[i]] /\ t[i] \in Slots \ ToSet(freeSlots)
    BY <2>3, ActiveRequests
  <2>6. t \in Seq(Slots)
    BY <2>4, <2>5
  <2>7. IsInjective(t)
    BY <2>2, <2>3, <2>5, ActiveRequests DEF IsInjective
  <2>8. ToSet(t) = {seqId[q] : q \in Active}
    BY DEF ToSet, Active
  <2> HIDE DEF t
  <2>9. \A x \in ToSet(freeSlots) : x \notin ToSet(t)
    BY <2>3, <2>8
  <2>10. /\ IsInjective(freeSlots')
         /\ ToSet(freeSlots') = ToSet(freeSlots) \cup ToSet(t)
    BY <2>1, <2>2, <2>6, <2>7, <2>9, ConcatElements
  <2>11. \A s \in Slots : s \in ToSet(freeSlots')
    BY <2>3, <2>8, <2>10
  <2>12. IsInjective(active') /\ Active' = {}
    BY <2>1 DEF IsInjective, Active, ToSet
  <2> QED BY <2>10, <2>11, <2>12 DEF SlotsConserved
<1> QED
  <2>1. CASE \/ Environment \/ StartStep \/ NoPreemption \/ SnapshotDone \/ FillDone
             \/ PrefillChunk \/ Decode \/ DecodeFails \/ StepDone \/ AdvanceEos
             \/ AdvanceToken \/ AdvanceFails \/ FailNext \/ FailDone
    <3>1. UNCHANGED <<active, freeSlots, seqId>>
      BY <2>1 DEF Environment, SubmitCheck, SubmitAppend, Stop, Tick, StartStep,
         NoPreemption, SnapshotDone, FillDone, PrefillChunk, Decode, DecodeFails,
         StepDone, AdvanceEos, AdvanceToken, AdvanceFails, FailNext, FailDone,
         requestVars
    <3> QED BY <3>1, <1>1
  <2>2. ASSUME NEW r \in Requests,
               \/ ContinuePrefill(r) \/ SkipPrefilling(r) \/ AddDecodeSlot(r)
               \/ MissingToken(r)
        PROVE  SlotsConserved'
    <3>1. UNCHANGED <<active, freeSlots, seqId>>
      BY <2>2 DEF ContinuePrefill, SkipPrefilling, AddDecodeSlot, MissingToken,
         requestVars
    <3> QED BY <3>1, <1>1
  <2>3. CASE UNCHANGED vars
    BY <2>3, <1>1 DEF vars, requestVars
  <2> QED BY <2>1, <2>2, <2>3, <1>2, <1>3, <1>4, <1>5 DEF Next, Thread

(***************************************************************************)
(* Every step leaves each request in its place.                            *)
(***************************************************************************)
LEMMA PlacedInductive ==
    ASSUME IInv, [Next]_vars
    PROVE  RequestPlaced'
<1> USE DEF IInv
<1>a. /\ Requests \subseteq Nat /\ NumRequests \in Nat /\ 0 \notin Requests
      /\ \A n \in Nat : n < NumRequests => n + 1 \in Requests
  BY SchedulerAssumption DEF Requests
<1>b. /\ stage \in [Requests -> Stages] /\ waiting \subseteq Requests
      /\ arrived \in Nat /\ submitting \in Nat
  BY <1>a DEF TypeOK, SchedulerType, QueueType
<1>1. CASE UNCHANGED <<submitting, waiting, active, stage, arrived>>
  BY <1>1 DEF RequestPlaced, Active
<1>2. CASE SubmitCheck
  <2>1. /\ submitting = 0 /\ arrived + 1 \in Requests /\ arrived' = arrived + 1
        /\ waiting' = waiting /\ Active' = Active
        /\ \/ /\ submitting' = arrived + 1
              /\ stage' = [stage EXCEPT ![arrived + 1] = "queued"]
           \/ /\ submitting' = 0
              /\ stage' = [stage EXCEPT ![arrived + 1] = "refused"]
    BY <1>2, <1>a, <1>b DEF SubmitCheck, Active
  <2>2. stage[arrived + 1] = "new" /\ arrived + 1 > arrived
    BY <2>1, <1>a, <1>b DEF RequestPlaced
  <2>3. arrived + 1 \notin waiting \cup Active
    BY <2>1, <2>2 DEF RequestPlaced
  <2>4. \A r \in Requests : r > arrived + 1 => r > arrived /\ r # arrived + 1
    BY <1>a, <1>b
  <2> QED BY <2>1, <2>2, <2>3, <2>4, <1>a, <1>b DEF RequestPlaced
<1>3. CASE SubmitAppend
  <2>1. /\ waiting' = waiting \cup {submitting} /\ submitting' = 0
        /\ Active' = Active /\ stage' = stage /\ arrived' = arrived
    BY <1>3 DEF SubmitAppend, schedulerVars, Active
  <2> QED BY <2>1, <1>a, <1>b DEF RequestPlaced
<1>4. ASSUME NEW r \in Requests, Preempt(r) PROVE RequestPlaced'
  <2>1. r \in Active
    BY <1>4 DEF Preempt, Victim, Active, Preemptible
  <2>2. /\ active' = WithoutActive(r) /\ waiting' = waiting \cup {r}
        /\ stage' = [stage EXCEPT ![r] = "preempted"]
        /\ submitting' = submitting /\ arrived' = arrived
    BY <1>4 DEF Preempt, clientVars
  <2>3. Active' = Active \ {r}
    BY <2>1, <2>2, LeavesActive DEF Active
  <2> QED BY <2>1, <2>2, <2>3, <1>a, <1>b DEF RequestPlaced
<1>5. ASSUME NEW r \in Requests, Admit(r) PROVE RequestPlaced'
  <2>1. r \in waiting
    BY <1>5, PickedIsWaiting DEF Admit, Admissible
  <2>2. /\ active' = Append(active, r) /\ waiting' = waiting \ {r}
        /\ stage' = [stage EXCEPT ![r] = "prefill"]
        /\ submitting' = submitting /\ arrived' = arrived
    BY <1>5 DEF Admit, clientVars
  <2>3. Active' = Active \cup {r}
    BY <2>2, AppendElements DEF Active, TypeOK, QueueType
  <2> QED BY <2>1, <2>2, <2>3, <1>a, <1>b DEF RequestPlaced
<1>6. CASE PrefillChunk
  <2>1. cur \in Active /\ stage[cur] = "prefill"
    BY <1>6 DEF PrefillChunk, ThreadConsistent
  <2>2. /\ Active' = Active /\ waiting' = waiting
        /\ submitting' = submitting /\ arrived' = arrived
        /\ \/ stage' = [stage EXCEPT ![cur] = "decode"]
           \/ stage' = [stage EXCEPT ![cur] = stage[cur]]
    BY <1>6 DEF PrefillChunk, clientVars, Active
  <2> QED BY <2>1, <2>2, <1>a, <1>b, ActiveRequests DEF RequestPlaced
<1>7. CASE Retire
  <2>1. cur \in Active
    BY <1>7 DEF Retire, ThreadConsistent
  <2>2. /\ active' = WithoutActive(cur) /\ waiting' = waiting
        /\ submitting' = submitting /\ arrived' = arrived
        /\ \/ stage' = [stage EXCEPT ![cur] = "done"]
           \/ stage' = [stage EXCEPT ![cur] = "aborted"]
    BY <1>7 DEF Retire, clientVars, FinalStage
  <2>3. Active' = Active \ {cur}
    BY <2>1, <2>2, LeavesActive DEF Active
  <2> QED BY <2>1, <2>2, <2>3, <1>a, <1>b, ActiveRequests DEF RequestPlaced
<1>8. CASE Drain
  <2>1. /\ active' = << >> /\ waiting' = {}
        /\ submitting' = submitting /\ arrived' = arrived
        /\ stage' = [r \in Requests |->
                       IF r \in Active \cup waiting THEN "aborted" ELSE stage[r]]
    BY <1>8 DEF Drain, clientVars, DrainVictims, Active
  <2>2. Active' = {}
    BY <2>1 DEF Active, ToSet
  <2> QED BY <2>1, <2>2, <1>a, <1>b DEF RequestPlaced
<1> QED
  <2>1. CASE \/ Stop \/ Tick \/ StartStep \/ NoPreemption \/ SnapshotDone \/ FillDone
             \/ Decode \/ DecodeFails \/ StepDone \/ AdvanceEos
             \/ AdvanceToken \/ AdvanceFails \/ FailNext \/ FailDone
    <3>1. UNCHANGED <<submitting, waiting, active, stage, arrived>>
      BY <2>1 DEF Stop, Tick, StartStep, NoPreemption, SnapshotDone, FillDone,
         Decode, DecodeFails, StepDone, AdvanceEos, AdvanceToken, AdvanceFails,
         FailNext, FailDone, schedulerVars, clientVars
    <3> QED BY <3>1, <1>1
  <2>2. ASSUME NEW r \in Requests,
               \/ ContinuePrefill(r) \/ SkipPrefilling(r) \/ AddDecodeSlot(r)
               \/ MissingToken(r)
        PROVE  RequestPlaced'
    <3>1. UNCHANGED <<submitting, waiting, active, stage, arrived>>
      BY <2>2 DEF ContinuePrefill, SkipPrefilling, AddDecodeSlot, MissingToken,
         schedulerVars, clientVars
    <3> QED BY <3>1, <1>1
  <2>3. CASE UNCHANGED vars
    BY <2>3, <1>1 DEF vars, schedulerVars
  <2> QED BY <2>1, <2>2, <2>3, <1>2, <1>3, <1>4, <1>5, <1>6, <1>7, <1>8
      DEF Next, Environment, Thread

(***************************************************************************)
(* A chunk stays within the budget and within what is left of the prompt.  *)
(***************************************************************************)
LEMMA ChunkType ==
    ASSUME IInv, pc = "chunk", ~ (Take(cur) <= 0)
    PROVE  /\ Take(cur) \in Nat \ {0} /\ Take(cur) <= budget
           /\ nComputed[cur] + Take(cur) <= Len(prefillSrc[cur])
           /\ Chunk(cur) \in Seq(BatchSlot) /\ Len(Chunk(cur)) = Take(cur)
<1> DEFINE n == nComputed[cur]
           p == prefillSrc[cur]
           k == Take(cur)
<1>1. cur \in Active /\ cur \in Requests
  BY ActiveRequests DEF IInv, ThreadConsistent
<1>2. /\ n \in Nat /\ p \in Seq(Tokens) /\ seqId[cur] \in Slots
      /\ budget \in Nat /\ PrefillChunkSize \in Nat
  BY <1>1, ContinuousAssumption DEF IInv, TypeOK, DataType, ThreadType, SlotsConserved
<1>3. Len(p) \in Nat /\ DOMAIN p = 1..Len(p)
  BY <1>2, LenProperties
<1>4. k \in Nat \ {0} /\ k <= budget /\ n + k <= Len(p)
  BY <1>2, <1>3 DEF Take, Smaller
<1>5. Chunk(cur) = [i \in 1..k |-> [seq |-> seqId[cur], tok |-> p[n + i], pos |-> n + i - 1]]
  BY DEF Chunk
<1> HIDE DEF n, p, k
<1>6. ASSUME NEW i \in 1..k
      PROVE  [seq |-> seqId[cur], tok |-> p[n + i], pos |-> n + i - 1] \in BatchSlot
  <2>1. n + i \in 1..Len(p) /\ n + i - 1 \in Nat
    BY <1>2, <1>3, <1>4
  <2>2. p[n + i] \in Tokens
    BY <2>1, <1>2, ElementOfSeq
  <2> QED BY <2>1, <2>2, <1>2 DEF BatchSlot
<1>7. Chunk(cur) \in Seq(BatchSlot) /\ Len(Chunk(cur)) = k
  BY <1>4, <1>5, <1>6
<1> QED BY <1>4, <1>7 DEF n, p, k

(***************************************************************************)
(* What the thread counts on survives each step, its own and those of the  *)
(* event loop.                                                             *)
(***************************************************************************)
LEMMA ThreadInductive ==
    ASSUME IInv, [Next]_vars
    PROVE  ThreadConsistent'
<1> USE DEF IInv
<1>a. /\ Requests \subseteq Nat /\ NumRequests \in Nat /\ 0 \notin Requests
      /\ \A n \in Nat : n < NumRequests => n + 1 \in Requests
  BY SchedulerAssumption DEF Requests
<1>b. /\ stage \in [Requests -> Stages] /\ active \in Seq(Requests)
      /\ slots \in Seq(BatchSlot) /\ targets \in Seq(Target) /\ turn \in Nat
      /\ Active \subseteq Requests /\ arrived \in Nat
  <2>1. SchedulerType /\ QueueType /\ ThreadType
    BY DEF TypeOK
  <2>2. stage \in [Requests -> Stages]
    BY <2>1 DEF SchedulerType
  <2>3. active \in Seq(Requests) /\ arrived \in Nat
    BY <2>1, <1>a DEF QueueType
  <2>4. slots \in Seq(BatchSlot) /\ targets \in Seq(Target) /\ turn \in Nat
    BY <2>1 DEF ThreadType
  <2> QED BY <2>2, <2>3, <2>4, ActiveRequests
<1>c. /\ DOMAIN slots = 1..Len(slots) /\ Len(slots) \in Nat
      /\ DOMAIN targets = 1..Len(targets) /\ Len(targets) \in Nat
      /\ DOMAIN active = 1..Len(active) /\ Len(active) \in Nat
  BY <1>b, LenProperties
<1>d. \A i \in DOMAIN targets : targets[i].req \in Active
  BY DEF ThreadConsistent
\* The steps of the event loop.
<1>1. CASE Environment \/ UNCHANGED vars
  <2>1. UNCHANGED <<active, samplers, pc, targets, cur, reason, slots, turn>>
    BY <1>1 DEF Environment, SubmitCheck, SubmitAppend, Stop, Tick, vars,
       threadVars, batchVars, dictVars
  <2>2. \A r \in Active : stage'[r] = stage[r]
    <3>1. CASE SubmitCheck
      <4>1. /\ arrived + 1 \in Requests
            /\ \/ stage' = [stage EXCEPT ![arrived + 1] = "queued"]
               \/ stage' = [stage EXCEPT ![arrived + 1] = "refused"]
        BY <3>1, <1>a, <1>b DEF SubmitCheck
      <4>2. stage[arrived + 1] = "new"
        BY <4>1, <1>a, <1>b DEF RequestPlaced
      <4>3. arrived + 1 \notin Active
        BY <4>1, <4>2 DEF RequestPlaced
      <4> QED BY <4>1, <4>3, <1>b
    <3>2. CASE \/ SubmitAppend \/ Stop \/ Tick \/ UNCHANGED vars
      <4>1. stage' = stage
        BY <3>2 DEF SubmitAppend, Stop, Tick, vars, schedulerVars
      <4> QED BY <4>1
    <3> QED BY <3>1, <3>2, <1>1 DEF Environment
  <2> QED BY <2>1, <2>2, <1>d DEF ThreadConsistent, Active
\* The ends of an iteration, which clear its local variables.
<1>2. CASE /\ UNCHANGED <<active, samplers>>
           /\ \E p \in {"loop", "failAll"} : LeaveStep(p)
  BY <1>2 DEF LeaveStep, ThreadConsistent, Active
<1>3. CASE StartStep \/ NoPreemption
  <2>1. /\ UNCHANGED <<active, samplers, targets>> /\ pc' \in {"preempt", "snapshot"}
        /\ pc \in {"loop", "preempt"}
    BY <1>3 DEF StartStep, NoPreemption, dictVars
  <2>2. targets = << >>
    BY <2>1 DEF ThreadConsistent
  <2> QED BY <2>1, <2>2 DEF ThreadConsistent, Active
<1>4. ASSUME NEW r \in Requests, Preempt(r) PROVE ThreadConsistent'
  <2>1. r \in Active
    BY <1>4 DEF Preempt, Victim, Active, Preemptible
  <2>2. /\ active' = WithoutActive(r) /\ samplers' = Pop(samplers, r)
        /\ targets' = targets /\ pc = "preempt" /\ pc' = "snapshot"
    BY <1>4 DEF Preempt
  <2>3. Active' = Active \ {r}
    BY <2>1, <2>2, LeavesActive DEF Active
  <2>4. DOMAIN samplers' = DOMAIN samplers \ {r}
    BY <2>2 DEF Pop
  <2>5. targets = << >>
    BY <2>2 DEF ThreadConsistent
  <2> QED BY <2>2, <2>3, <2>4, <2>5 DEF ThreadConsistent
<1>5. ASSUME NEW r \in Requests, SkipPrefilling(r) PROVE ThreadConsistent'
  <2>1. /\ UNCHANGED <<active, samplers, targets, stage, slots>>
        /\ pc' = "snapshot" /\ pc = "snapshot" /\ turn' = turn + 1
    BY <1>5 DEF SkipPrefilling, Visiting, dictVars, schedulerVars
  <2>2. \A i \in DOMAIN targets :
          \E j \in DOMAIN active : j < turn /\ active[j] = targets[i].req
    BY <2>1 DEF ThreadConsistent
  <2>3. \A j \in DOMAIN active : j < turn => j < turn + 1
    BY <1>b, <1>c
  <2> QED BY <2>1, <2>2, <2>3 DEF ThreadConsistent, Active
<1>6. ASSUME NEW r \in Requests, AddDecodeSlot(r) PROVE ThreadConsistent'
  <2> DEFINE t == [req |-> r, idx |-> Len(slots) + 1]
             b == [seq |-> seqId[r], tok |-> pending[r], pos |-> nComputed[r]]
  <2>1. /\ UNCHANGED <<active, samplers, stage>>
        /\ pc' = "snapshot" /\ pc = "snapshot" /\ turn' = turn + 1
        /\ slots' = Append(slots, b) /\ targets' = Append(targets, t)
        /\ turn \in DOMAIN active /\ r = active[turn] /\ stage[r] = "decode"
    BY <1>6 DEF AddDecodeSlot, Visiting, dictVars, schedulerVars
  <2>2. r \in Active
    BY <2>1, ActiveRequests
  <2>3. b \in BatchSlot /\ t \in Target
    <3>1. seqId[r] \in Slots
      BY <2>2 DEF SlotsConserved
    <3>2. pending[r] \in Tokens /\ nComputed[r] \in Nat
      BY <1>6 DEF AddDecodeSlot, TypeOK, DataType
    <3> QED BY <3>1, <3>2, <1>c DEF BatchSlot, Target
  <2>4. /\ DOMAIN targets' = 1..(Len(targets) + 1)
        /\ targets'[Len(targets) + 1] = t
        /\ \A i \in DOMAIN targets : targets'[i] = targets[i]
    BY <2>1, <2>3, <1>b, <1>c, AppendProperties, LenProperties
  <2>5. DOMAIN slots' = 1..(Len(slots) + 1)
    BY <2>1, <2>3, <1>b, AppendProperties, LenProperties
  <2>6. /\ t.req = r /\ t.idx = Len(slots) + 1
        /\ \A i \in 1..(Len(targets) + 1) : i \in DOMAIN targets \/ i = Len(targets) + 1
    BY <1>c
  <2> HIDE DEF t, b
  <2>7. \A i \in DOMAIN targets :
          /\ targets[i].req \in Active /\ targets[i].idx \in DOMAIN slots
          /\ stage[targets[i].req] = "decode"
          /\ \E j \in DOMAIN active : j < turn /\ active[j] = targets[i].req
    BY <2>1 DEF ThreadConsistent
  <2>8. \A i \in DOMAIN targets : targets[i].req # r
    <3> SUFFICES ASSUME NEW i \in DOMAIN targets PROVE targets[i].req # r
      OBVIOUS
    <3>1. PICK j \in DOMAIN active : j < turn /\ active[j] = targets[i].req
      BY <2>7
    <3>2. j # turn
      BY <3>1, <1>b, <1>c
    <3> QED BY <3>1, <3>2, <2>1 DEF SlotsConserved, IsInjective
  <2>9. \A i \in DOMAIN slots : i \in DOMAIN slots'
    BY <2>5, <1>c
  <2>10. \A i \in DOMAIN targets' :
           /\ targets'[i].req \in Active' /\ targets'[i].idx \in DOMAIN slots'
           /\ stage'[targets'[i].req] = "decode"
    <3> SUFFICES ASSUME NEW i \in DOMAIN targets'
                 PROVE  /\ targets'[i].req \in Active' /\ targets'[i].idx \in DOMAIN slots'
                        /\ stage'[targets'[i].req] = "decode"
      OBVIOUS
    <3>1. CASE i \in DOMAIN targets
      BY <3>1, <2>1, <2>4, <2>7, <2>9 DEF Active
    <3>2. CASE i = Len(targets) + 1
      BY <3>2, <2>1, <2>2, <2>4, <2>5, <2>6, <1>c DEF Active
    <3> QED BY <3>1, <3>2, <2>4, <2>6
  <2>11. \A i, j \in DOMAIN targets' : targets'[i].req = targets'[j].req => i = j
    <3>1. \A i, j \in DOMAIN targets : targets[i].req = targets[j].req => i = j
      BY DEF ThreadConsistent
    <3> QED BY <3>1, <2>4, <2>6, <2>8
  <2>12. \A i \in DOMAIN targets' :
           \E j \in DOMAIN active' : j < turn' /\ active'[j] = targets'[i].req
    <3> SUFFICES ASSUME NEW i \in DOMAIN targets'
                 PROVE  \E j \in DOMAIN active' : j < turn' /\ active'[j] = targets'[i].req
      OBVIOUS
    <3>1. CASE i \in DOMAIN targets
      <4>1. PICK j \in DOMAIN active : j < turn /\ active[j] = targets[i].req
        BY <3>1, <2>7
      <4>2. j < turn'
        BY <4>1, <2>1, <1>b, <1>c
      <4> QED BY <4>1, <4>2, <3>1, <2>1, <2>4
    <3>2. CASE i = Len(targets) + 1
      <4>1. turn < turn'
        BY <2>1, <1>b
      <4> QED BY <4>1, <3>2, <2>1, <2>4, <2>6
    <3> QED BY <3>1, <3>2, <2>4, <2>6
  <2> QED BY <2>1, <2>10, <2>11, <2>12 DEF ThreadConsistent, Active
<1>7. CASE SnapshotDone \/ Decode \/ (FillDone /\ pc' = "decode")
  <2>1. /\ UNCHANGED <<active, samplers, targets, stage, slots>>
        /\ pc' \in {"fill", "advance", "decode"}
    BY <1>7 DEF SnapshotDone, Decode, FillDone, dictVars, schedulerVars, batchVars,
       LeaveStep
  <2> QED BY <2>1 DEF ThreadConsistent, Active
<1>8. ASSUME NEW r \in Requests, ContinuePrefill(r) PROVE ThreadConsistent'
  <2>1. /\ UNCHANGED <<active, samplers, targets, stage, slots>>
        /\ pc' = "chunk" /\ cur' = r
        /\ \E i \in DOMAIN active : r = active[i] /\ stage[active[i]] = "prefill"
    BY <1>8 DEF ContinuePrefill, IsFirstPrefilling, Prefilling, dictVars,
       schedulerVars, batchVars
  <2>2. r \in Active
    BY <2>1, ActiveRequests
  <2> QED BY <2>1, <2>2 DEF ThreadConsistent, Active
<1>9. ASSUME NEW r \in Requests, Admit(r) PROVE ThreadConsistent'
  <2>1. r \in waiting
    BY <1>9, PickedIsWaiting DEF Admit, Admissible
  <2>2. r \notin Active
    BY <2>1 DEF RequestPlaced
  <2>3. /\ active' = Append(active, r) /\ samplers' = Put(samplers, r, RestoredHistory(r))
        /\ stage' = [stage EXCEPT ![r] = "prefill"] /\ pc' = "chunk" /\ cur' = r
        /\ UNCHANGED <<targets, slots>>
    BY <1>9 DEF Admit, batchVars
  <2>4. Active' = Active \cup {r} /\ DOMAIN samplers' = DOMAIN samplers \cup {r}
    BY <2>3, <1>b, AppendElements DEF Active, Put
  <2>5. stage'[r] = "prefill" /\ \A q \in Active : stage'[q] = stage[q]
    BY <2>2, <2>3, <1>b
  <2> QED BY <2>3, <2>4, <2>5, <1>d DEF ThreadConsistent
<1>10. CASE PrefillChunk
  <2>1. cur \in Active /\ stage[cur] = "prefill" /\ pc = "chunk"
    BY <1>10 DEF PrefillChunk, ThreadConsistent
  <2> DEFINE take == Take(cur)
             t    == [req |-> cur, idx |-> Len(slots) + take]
  <2>2. UNCHANGED <<active, samplers>> /\ pc' = "fill"
    BY <1>10 DEF PrefillChunk, dictVars
  <2>3. \A q \in Active \ {cur} : stage'[q] = stage[q]
    BY <1>10, <1>b DEF PrefillChunk
  <2>4. \A i \in DOMAIN targets :
          /\ targets[i].req \in Active \ {cur} /\ targets[i].idx \in DOMAIN slots
          /\ stage[targets[i].req] = "decode"
    BY <2>1 DEF ThreadConsistent
  <2>5. Active \subseteq DOMAIN samplers
        /\ \A i, j \in DOMAIN targets : targets[i].req = targets[j].req => i = j
    BY DEF ThreadConsistent
  <2>6. CASE UNCHANGED <<slots, targets>>
    BY <2>2, <2>3, <2>4, <2>5, <2>6 DEF ThreadConsistent, Active
  <2>7. CASE ~ UNCHANGED <<slots, targets>>
    <3>1. /\ ~ (take <= 0) /\ slots' = slots \o Chunk(cur)
          /\ \/ targets' = targets
             \/ /\ targets' = Append(targets, t)
                /\ stage' = [stage EXCEPT ![cur] = "decode"]
      BY <2>7, <1>10 DEF PrefillChunk
    <3>2. /\ take \in Nat \ {0} /\ Chunk(cur) \in Seq(BatchSlot)
          /\ Len(Chunk(cur)) = take
      BY <2>1, <3>1, ChunkType
    <3> HIDE DEF take
    <3>4. DOMAIN slots' = 1..(Len(slots) + take)
      BY <3>1, <3>2, <1>b, ConcatProperties, LenProperties
    <3>5. t \in Target /\ t.req = cur /\ t.idx = Len(slots) + take
          /\ t.idx \in DOMAIN slots' /\ \A i \in DOMAIN slots : i \in DOMAIN slots'
      BY <3>2, <3>4, <2>1, <1>b, <1>c DEF Target
    <3> HIDE DEF t
    <3>6. CASE targets' = targets
      BY <3>5, <3>6, <2>2, <2>3, <2>4, <2>5 DEF ThreadConsistent, Active
    <3>7. CASE /\ targets' = Append(targets, t)
               /\ stage' = [stage EXCEPT ![cur] = "decode"]
      <4>1. /\ DOMAIN targets' = 1..(Len(targets) + 1)
            /\ targets'[Len(targets) + 1] = t
            /\ \A i \in DOMAIN targets : targets'[i] = targets[i]
        BY <3>5, <3>7, <1>b, <1>c, AppendProperties, LenProperties
      <4>2. \A i \in 1..(Len(targets) + 1) : i \in DOMAIN targets \/ i = Len(targets) + 1
        BY <1>c
      <4>3. stage'[cur] = "decode"
        BY <3>7, <2>1, <1>b
      <4>4. ASSUME NEW i \in DOMAIN targets'
            PROVE  /\ targets'[i].req \in Active' /\ targets'[i].idx \in DOMAIN slots'
                   /\ stage'[targets'[i].req] = "decode"
        <5>1. CASE i \in DOMAIN targets
          BY <5>1, <4>1, <3>5, <2>2, <2>3, <2>4 DEF Active
        <5>2. CASE i = Len(targets) + 1
          BY <5>2, <4>1, <4>3, <3>5, <2>1, <2>2 DEF Active
        <5> QED BY <5>1, <5>2, <4>1, <4>2
      <4>5. \A i, j \in DOMAIN targets' : targets'[i].req = targets'[j].req => i = j
        BY <4>1, <4>2, <3>5, <2>4, <2>5
      <4> QED BY <4>4, <4>5, <2>2, <2>5 DEF ThreadConsistent, Active
    <3> QED BY <3>1, <3>6, <3>7
  <2> QED BY <2>6, <2>7
<1>11. CASE AdvanceEos \/ AdvanceToken
  <2>1. /\ pc = "advance" /\ targets # << >> /\ targets' = Tail(targets)
        /\ UNCHANGED <<active, stage, slots>>
        /\ \/ pc' = "advance"
           \/ pc' = "retire" /\ cur' = Head(targets).req /\ reason' # "error"
        /\ DOMAIN samplers \subseteq DOMAIN samplers'
    <3>1. CASE AdvanceEos
      BY <3>1 DEF AdvanceEos, dictVars, schedulerVars
    <3>2. CASE AdvanceToken
      BY <3>2 DEF AdvanceToken, EndReason, Put, schedulerVars
    <3> QED BY <3>1, <3>2, <1>11
  <2>2. /\ Head(targets) = targets[1] /\ Len(targets) > 0
        /\ DOMAIN targets' = 1..(Len(targets) - 1)
        /\ \A i \in DOMAIN targets' : targets'[i] = targets[i + 1]
    BY <2>1, <1>b, <1>c, HeadTailProperties, LenProperties, EmptySeq
  <2>3. /\ 1 \in DOMAIN targets
        /\ \A i \in DOMAIN targets' : i + 1 \in DOMAIN targets /\ i + 1 # 1
        /\ \A i, j \in DOMAIN targets' : i + 1 = j + 1 => i = j
    BY <2>2, <1>c
  <2>4. /\ Active \subseteq DOMAIN samplers
        /\ \A i \in DOMAIN targets :
             /\ targets[i].req \in Active /\ targets[i].idx \in DOMAIN slots
             /\ stage[targets[i].req] = "decode"
        /\ \A i, j \in DOMAIN targets : targets[i].req = targets[j].req => i = j
    BY DEF ThreadConsistent
  <2>5. \A i \in DOMAIN targets' : targets'[i].req # targets[1].req
    BY <2>2, <2>3, <2>4
  <2>6. \A i, j \in DOMAIN targets' : targets'[i].req = targets'[j].req => i = j
    BY <2>2, <2>3, <2>4
  <2>7. \A i \in DOMAIN targets' :
             /\ targets'[i].req \in Active' /\ targets'[i].idx \in DOMAIN slots'
             /\ stage'[targets'[i].req] = "decode"
    BY <2>1, <2>2, <2>3, <2>4 DEF Active
  <2>8. Active' \subseteq DOMAIN samplers'
    BY <2>1, <2>4 DEF Active
  <2>9. pc' = "retire" => /\ cur' \in Active'
                          /\ \A i \in DOMAIN targets' : targets'[i].req # cur'
                          /\ reason' # "error"
    BY <2>1, <2>2, <2>3, <2>4, <2>5 DEF Active
  <2> QED BY <2>1, <2>6, <2>7, <2>8, <2>9 DEF ThreadConsistent
<1>12. CASE Retire
  <2>1. /\ cur \in Active /\ \A i \in DOMAIN targets : targets[i].req # cur
        /\ reason = "error" => targets = << >>
    BY <1>12 DEF Retire, ThreadConsistent
  <2>2. /\ active' = WithoutActive(cur) /\ samplers' = Pop(samplers, cur)
        /\ UNCHANGED <<targets, slots>>
        /\ (pc' = "failAll" /\ reason = "error") \/ pc' = "advance"
        /\ \A q \in Active \ {cur} : stage'[q] = stage[q]
    BY <1>12, <1>b DEF Retire, batchVars
  <2>3. Active' = Active \ {cur}
    BY <2>1, <2>2, LeavesActive DEF Active
  <2>4. DOMAIN samplers' = DOMAIN samplers \ {cur}
    BY <2>2 DEF Pop
  <2> QED BY <2>1, <2>2, <2>3, <2>4, <1>d DEF ThreadConsistent
<1>13. CASE FailNext
  <2>1. /\ UNCHANGED <<active, samplers, targets, slots, stage>>
        /\ pc = "failAll" /\ pc' = "retire" /\ cur' = Head(active) /\ active # << >>
    BY <1>13 DEF FailNext, dictVars, schedulerVars, batchVars
  <2>2. targets = << >>
    BY <2>1 DEF ThreadConsistent
  <2>3. cur' \in Active'
    BY <2>1, <1>b, TailElements DEF Active, SlotsConserved
  <2> QED BY <2>1, <2>2, <2>3 DEF ThreadConsistent, Active
<1>14. CASE FailDone
  <2>1. /\ UNCHANGED <<active, samplers, targets>>
        /\ pc = "failAll" /\ pc' = "loop"
    BY <1>14 DEF FailDone, dictVars, batchVars
  <2>2. targets = << >>
    BY <2>1 DEF ThreadConsistent
  <2> QED BY <2>1, <2>2 DEF ThreadConsistent, Active
<1>15. CASE Drain
  <2>1. targets' = targets /\ pc = "loop" /\ pc' = "exited" /\ active' = << >>
    BY <1>15 DEF Drain, batchVars
  <2>2. targets = << >> /\ Active' = {}
    BY <2>1 DEF ThreadConsistent, Active, ToSet
  <2> QED BY <2>1, <2>2 DEF ThreadConsistent
<1> QED
  <2>1. CASE \/ DecodeFails \/ StepDone \/ AdvanceFails \/ FillDone
    <3>1. \/ UNCHANGED <<active, samplers>> /\ \E p \in {"loop", "failAll"} : LeaveStep(p)
          \/ FillDone /\ pc' = "decode"
      BY <2>1 DEF DecodeFails, StepDone, AdvanceFails, FillDone, dictVars
    <3> QED BY <3>1, <1>2, <1>7
  <2>2. ASSUME NEW r \in Requests, MissingToken(r) PROVE ThreadConsistent'
    <3>1. UNCHANGED <<active, samplers>> /\ LeaveStep("failAll")
      BY <2>2 DEF MissingToken, dictVars
    <3> QED BY <3>1, <1>2
  <2> QED BY <2>1, <2>2, <1>1, <1>3, <1>4, <1>5, <1>6, <1>7, <1>8, <1>9, <1>10,
         <1>11, <1>12, <1>13, <1>14, <1>15 DEF Next, Thread

(***************************************************************************)
(* Types.  First what the helpers of the model return.                     *)
(***************************************************************************)
LEMMA PromotedType ==
    ASSUME TypeOK, waiting # {}
    PROVE  PromotedByPick(waiting) \in SUBSET Requests
<1>1. Pick(waiting) \in Requests /\ promoted \in SUBSET Requests
  BY PickedIsWaiting DEF TypeOK, QueueType, SchedulerType
<1> QED BY <1>1 DEF PromotedByPick

(* The tokens a request is prefilled from are tokens. *)
LEMMA ResumeTokensType ==
    ASSUME TypeOK, NEW r \in Requests
    PROVE  ResumeTokens(r) \in Seq(Tokens)
<1>1. PromptLen(r) \in Nat
  BY SchedulerAssumption DEF TypeOK, SchedulerType, PromptLen
<1>2. \A i \in 1..PromptLen(r) : <<r, i - 1>> \in Tokens
  BY <1>1 DEF Tokens
<1>3. PromptTokens(r) \in Seq(Tokens)
  BY <1>1, <1>2 DEF PromptTokens
<1>4. output[r] \in Seq(Tokens)
  BY DEF TypeOK, DataType
<1> QED BY <1>3, <1>4, ConcatProperties DEF ResumeTokens

(* Whatever the cache holds, a token is sampled. *)
LEMMA SampleType ==
    ASSUME NEW b \in BatchSlot
    PROVE  Sample(b) \in Tokens
<1> DEFINE P(r) == HoldsContext(b.seq, r, b.pos + 1)
           c    == CHOOSE r \in Requests : P(r)
<1>1. b.pos + 1 \in Nat
  BY DEF BatchSlot
<1>2. CASE \E r \in Requests : P(r)
  <2>1. c \in Requests
    BY <1>2
  <2>2. Sample(b) = <<c, b.pos + 1>>
    BY <1>2 DEF Sample
  <2> HIDE DEF c
  <2> QED BY <2>1, <2>2, <1>1 DEF Tokens
<1>3. CASE ~ \E r \in Requests : P(r)
  BY <1>3 DEF Sample, Tokens
<1> QED BY <1>2, <1>3

(* Whatever the batch holds, decode leaves caches of tokens. *)
LEMMA AfterDecodeType ==
    ASSUME TypeOK
    PROVE  DOMAIN AfterDecode = Slots /\ \A s \in Slots : IsCache(AfterDecode[s])
<1>1. \A i \in DOMAIN slots : slots[i].pos \in Nat /\ slots[i].tok \in Tokens
  <2>1. slots \in Seq(BatchSlot)
    BY DEF TypeOK, ThreadType
  <2>2. \A i \in DOMAIN slots : slots[i] \in BatchSlot
    BY <2>1, LenProperties, ElementOfSeq
  <2> QED BY <2>2 DEF BatchSlot
<1>2. DOMAIN AfterDecode = Slots
  BY DEF AfterDecode
<1>3. ASSUME NEW s \in Slots PROVE IsCache(AfterDecode[s])
  <2>1. /\ DOMAIN kv[s] \subseteq Nat
        /\ \A p \in DOMAIN kv[s] : kv[s][p] \in Tokens
    BY DEF TypeOK, DataType, IsCache
  <2> DEFINE D    == DOMAIN kv[s] \cup {slots[i].pos : i \in Written(s)}
             tok(p) == slots[CHOOSE i \in Written(s) : slots[i].pos = p].tok
             hit(p) == \E i \in Written(s) : slots[i].pos = p
  <2>2. AfterDecode[s] = [p \in D |-> IF hit(p) THEN tok(p) ELSE kv[s][p]]
    BY DEF AfterDecode
  <2>3. Written(s) \subseteq DOMAIN slots
    BY DEF Written
  <2>4. D \subseteq Nat
    BY <2>1, <2>3, <1>1
  <2>5. ASSUME NEW p \in D PROVE (IF hit(p) THEN tok(p) ELSE kv[s][p]) \in Tokens
    <3>1. CASE hit(p)
      <4>1. (CHOOSE i \in Written(s) : slots[i].pos = p) \in Written(s)
        BY <3>1
      <4> QED BY <4>1, <3>1, <2>3, <1>1
    <3>2. CASE ~ hit(p)
      <4>1. p \in DOMAIN kv[s]
        BY <3>2
      <4> QED BY <4>1, <3>2, <2>1
    <3> QED BY <3>1, <3>2
  <2> HIDE DEF D, tok, hit
  <2> QED BY <2>2, <2>4, <2>5 DEF IsCache
<1> QED BY <1>2, <1>3

(* The request whose turn it is in _step's last loop is active, and its logits
   are there. *)
LEMMA HeadTarget ==
    ASSUME IInv, targets # << >>
    PROVE  /\ Head(targets).req \in Active /\ Head(targets).req \in Requests
           /\ Sample(slots[Head(targets).idx]) \in Tokens
<1>1. targets \in Seq(Target) /\ slots \in Seq(BatchSlot)
  BY DEF IInv, TypeOK, ThreadType
<1>2. 1 \in DOMAIN targets /\ Head(targets) = targets[1]
  BY <1>1, LenProperties, EmptySeq, HeadTailProperties
<1>3. Head(targets).req \in Active /\ Head(targets).idx \in DOMAIN slots
  BY <1>2 DEF IInv, ThreadConsistent
<1>4. slots[Head(targets).idx] \in BatchSlot
  BY <1>1, <1>3, LenProperties, ElementOfSeq
<1> QED BY <1>3, <1>4, SampleType, ActiveRequests DEF IInv

(* One slot's cache is replaced by another cache. *)
LEMMA CacheType ==
    ASSUME TypeOK, NEW s \in Slots, NEW c, IsCache(c)
    PROVE  /\ DOMAIN [kv EXCEPT ![s] = c] = Slots
           /\ \A x \in Slots : IsCache([kv EXCEPT ![s] = c][x])
BY DEF TypeOK, DataType

(* seq_rm leaves a cache. *)
LEMMA EmptyCache == IsCache(<< >>)
BY DEF IsCache

(***************************************************************************)
(* The scheduler's variables.                                              *)
(***************************************************************************)
LEMMA SchedulerTypeInductive ==
    ASSUME IInv, [Next]_vars
    PROVE  SchedulerType'
<1> USE DEF IInv
<1>a. /\ Requests \subseteq Nat /\ NumRequests \in Nat /\ StarvationAge \in Nat
      /\ \A n \in Nat : n < NumRequests => n + 1 \in Requests
  BY SchedulerAssumption DEF Requests
<1>b. SchedulerType /\ arrived \in Nat
  BY <1>a DEF TypeOK, QueueType
<1> USE DEF SchedulerType
<1>1. CASE UNCHANGED schedulerVars
  BY <1>1, <1>b DEF schedulerVars
<1>2. CASE SubmitCheck
  <2>1. arrived + 1 \in Requests
    BY <1>2, <1>a, <1>b DEF SubmitCheck
  <2>2. shape' \in [Requests -> Shapes] /\ stage' \in [Requests -> Stages]
    BY <1>2, <1>b, <2>1 DEF SubmitCheck, Stages
  <2> QED BY <2>2, <1>2, <1>b DEF SubmitCheck
<1>3. CASE Tick
  <2>1. \A r \in Aging : age[r] \in 0..StarvationAge /\ age[r] < StarvationAge
    <3>1. waiting \subseteq Requests /\ submitting \in 0..NumRequests
      BY DEF TypeOK, QueueType
    <3>2. ({submitting} \ {0}) \subseteq Requests
      BY <3>1, <1>a DEF Requests
    <3> QED BY <3>1, <3>2, <1>b DEF Aging
  <2>2. age' \in [Requests -> 0..StarvationAge]
    BY <1>3, <1>a, <1>b, <2>1 DEF Tick
  <2> QED BY <1>3, <1>b, <2>2 DEF Tick
<1>4. CASE NoPreemption
  <2>1. promoted' \in SUBSET Requests
    BY <1>4, <1>b, PromotedType DEF NoPreemption, Crowded
  <2> QED BY <1>4, <1>b, <2>1 DEF NoPreemption
<1>5. ASSUME NEW r \in Requests, Preempt(r) PROVE SchedulerType'
  <2>1. promoted' \in SUBSET Requests
    BY <1>5, PromotedType DEF Preempt, Crowded
  <2>2. /\ stage' \in [Requests -> Stages] /\ age' \in [Requests -> 0..StarvationAge]
        /\ preemptions' \in [Requests -> Nat]
    BY <1>5, <1>a, <1>b DEF Preempt, Stages
  <2> QED BY <2>1, <2>2, <1>5, <1>b DEF Preempt
<1>6. ASSUME NEW r \in Requests, Admit(r) PROVE SchedulerType'
  <2>1. promoted' \in SUBSET Requests
    BY <1>6, PromotedType DEF Admit, Admissible
  <2>2. stage' \in [Requests -> Stages]
    BY <1>6, <1>b DEF Admit, Stages
  <2>3. firstScheduled' \in [Requests -> Nat]
    <3> DEFINE Seen == {q \in Requests : firstScheduled[q] # 0}
    <3>1. Cardinality(Seen) \in Nat
      <4>1. IsFiniteSet(Requests)
        BY <1>a, FS_Interval DEF Requests
      <4>2. IsFiniteSet(Seen)
        BY <4>1, FS_Subset
      <4> QED BY <4>2, FS_CardinalityType
    <3>2. firstScheduled' = [firstScheduled EXCEPT ![r] =
             IF firstScheduled[r] = 0 THEN 1 + Cardinality(Seen) ELSE firstScheduled[r]]
      BY <1>6 DEF Admit
    <3> HIDE DEF Seen
    <3> QED BY <3>1, <3>2, <1>b
  <2> QED BY <2>1, <2>2, <2>3, <1>6, <1>b DEF Admit
<1>7. CASE PrefillChunk
  <2>1. cur \in Requests
    BY <1>7, ActiveRequests DEF PrefillChunk, ThreadConsistent
  <2>2. stage' \in [Requests -> Stages]
    BY <1>7, <2>1, <1>b DEF PrefillChunk, Stages
  <2> QED BY <2>2, <1>7, <1>b DEF PrefillChunk
<1>8. CASE Retire
  <2>1. stage' \in [Requests -> Stages] /\ promoted' \in SUBSET Requests
    BY <1>8, <1>b DEF Retire, FinalStage, Stages
  <2> QED BY <2>1, <1>8, <1>b DEF Retire
<1>9. CASE Drain
  <2>1. stage' \in [Requests -> Stages] /\ promoted' \in SUBSET Requests
    BY <1>9, <1>b DEF Drain, Stages
  <2> QED BY <2>1, <1>9, <1>b DEF Drain
<1> QED
  <2>1. CASE \/ SubmitAppend \/ Stop \/ StartStep \/ SnapshotDone \/ FillDone
             \/ Decode \/ DecodeFails \/ StepDone \/ AdvanceEos \/ AdvanceToken
             \/ AdvanceFails \/ FailNext \/ FailDone
    <3>1. UNCHANGED schedulerVars
      BY <2>1 DEF SubmitAppend, Stop, StartStep, SnapshotDone, FillDone, Decode,
         DecodeFails, StepDone, AdvanceEos, AdvanceToken, AdvanceFails, FailNext,
         FailDone, schedulerVars
    <3> QED BY <3>1, <1>1
  <2>2. ASSUME NEW r \in Requests,
               \/ ContinuePrefill(r) \/ SkipPrefilling(r) \/ AddDecodeSlot(r)
               \/ MissingToken(r)
        PROVE  SchedulerType'
    <3>1. UNCHANGED schedulerVars
      BY <2>2 DEF ContinuePrefill, SkipPrefilling, AddDecodeSlot, MissingToken
    <3> QED BY <3>1, <1>1
  <2>3. CASE UNCHANGED vars
    <3>1. UNCHANGED schedulerVars
      BY <2>3 DEF vars
    <3> QED BY <3>1, <1>1
  <2> QED BY <2>1, <2>2, <2>3, <1>2, <1>3, <1>4, <1>5, <1>6, <1>7, <1>8, <1>9
      DEF Next, Environment, Thread

(***************************************************************************)
(* The variables shared under the lock, and the streams.                   *)
(***************************************************************************)
LEMMA QueueTypeInductive ==
    ASSUME IInv, [Next]_vars
    PROVE  QueueType'
<1> USE DEF IInv
<1> DEFINE Stream == Seq(Tokens \cup {SENTINEL})
<1>a. /\ Requests \subseteq Nat /\ NumRequests \in Nat
      /\ \A n \in Nat : n # 0 /\ n <= NumRequests => n \in Requests
  BY SchedulerAssumption DEF Requests
<1>b. QueueType
  BY DEF TypeOK
<1>c. << >> \in Seq(Requests)
  BY EmptySeq
<1>d. \A q \in Stream, x \in Tokens \cup {SENTINEL} : Append(q, x) \in Stream
  BY AppendProperties
<1> HIDE DEF Stream
<1> USE DEF QueueType
<1>1. CASE UNCHANGED <<stopping, waiting, active, freeSlots, arrived, submitting, queue>>
  BY <1>1, <1>b
<1>2. CASE SubmitCheck
  <2>1. arrived' \in 0..NumRequests /\ submitting' \in 0..NumRequests
    BY <1>2, <1>a, <1>b DEF SubmitCheck
  <2> QED BY <2>1, <1>2, <1>b DEF SubmitCheck
<1>3. CASE SubmitAppend
  <2>1. waiting' \in SUBSET Requests /\ submitting' \in 0..NumRequests
    BY <1>3, <1>a, <1>b DEF SubmitAppend
  <2> QED BY <2>1, <1>3, <1>b DEF SubmitAppend
<1>4. CASE Stop
  BY <1>4, <1>b DEF Stop
<1>5. ASSUME NEW r \in Requests, Preempt(r) PROVE QueueType'
  <2>1. r \in Active
    BY <1>5 DEF Preempt, Victim, Active, Preemptible
  <2>2. seqId[r] \in Slots
    BY <2>1 DEF SlotsConserved
  <2>3. active' \in Seq(Requests) /\ freeSlots' \in Seq(Slots)
    BY <2>1, <2>2, <1>5, <1>b, LeavesActive, AppendProperties DEF Preempt
  <2>4. waiting' \in SUBSET Requests
    BY <1>5, <1>b DEF Preempt
  <2> QED BY <2>3, <2>4, <1>5, <1>b DEF Preempt, clientVars
<1>6. ASSUME NEW r \in Requests, Admit(r) PROVE QueueType'
  <2>1. active' \in Seq(Requests) /\ freeSlots' \in Seq(Slots)
    BY <1>6, <1>b, AppendProperties, HeadTailProperties DEF Admit, Admissible
  <2>2. waiting' \in SUBSET Requests
    BY <1>6, <1>b DEF Admit
  <2> QED BY <2>1, <2>2, <1>6, <1>b DEF Admit, clientVars
<1>7. CASE AdvanceToken
  <2> DEFINE r   == Head(targets).req
             tok == Sample(slots[Head(targets).idx])
  <2>5. tok \in Tokens /\ r \in Requests
    BY <1>7, HeadTarget DEF AdvanceToken
  <2>6. queue' = [queue EXCEPT ![r] = Append(queue[r], tok)]
    BY <1>7 DEF AdvanceToken
  <2> HIDE DEF r, tok
  <2>7. queue' \in [Requests -> Stream]
    BY <2>5, <2>6, <1>b, <1>d DEF Stream
  <2> QED BY <2>7, <1>7, <1>b DEF AdvanceToken, clientVars, Stream
<1>8. CASE Retire
  <2>1. cur \in Active /\ cur \in Requests
    BY <1>8, ActiveRequests DEF Retire, ThreadConsistent
  <2>2. seqId[cur] \in Slots
    BY <2>1 DEF SlotsConserved
  <2>3. active' \in Seq(Requests) /\ freeSlots' \in Seq(Slots)
    BY <2>1, <2>2, <1>8, <1>b, LeavesActive, AppendProperties DEF Retire
  <2>4. queue' = [queue EXCEPT ![cur] = Append(queue[cur], SENTINEL)]
    BY <1>8 DEF Retire
  <2>5. queue' \in [Requests -> Stream]
    BY <2>1, <2>4, <1>b, <1>d DEF Stream
  <2> QED BY <2>3, <2>5, <1>8, <1>b DEF Retire, clientVars, Stream
<1>9. CASE Drain
  <2> DEFINE t == [i \in DOMAIN active |-> seqId[active[i]]]
  <2>1. DOMAIN active = 1..Len(active) /\ Len(active) \in Nat
    BY <1>b, LenProperties
  <2>2. \A i \in 1..Len(active) : seqId[active[i]] \in Slots
    BY <2>1, ActiveRequests DEF SlotsConserved
  <2>3. t \in Seq(Slots)
    BY <2>1, <2>2
  <2>4. freeSlots' = freeSlots \o t /\ active' = << >> /\ waiting' = {}
    BY <1>9 DEF Drain
  <2> HIDE DEF t
  <2>5. freeSlots' \in Seq(Slots)
    BY <2>3, <2>4, <1>b, ConcatProperties
  <2>6. queue' \in [Requests -> Stream]
    <3>1. queue' = [r \in Requests |->
                      IF r \in DrainVictims THEN Append(queue[r], SENTINEL)
                      ELSE queue[r]]
      BY <1>9 DEF Drain
    <3> QED BY <3>1, <1>b, <1>d DEF Stream
  <2> QED BY <2>4, <2>5, <2>6, <1>9, <1>b, <1>c DEF Drain, clientVars, Stream
<1> QED
  <2>1. CASE \/ Tick \/ StartStep \/ NoPreemption \/ SnapshotDone \/ FillDone
             \/ PrefillChunk \/ Decode \/ DecodeFails \/ StepDone \/ AdvanceEos
             \/ AdvanceFails \/ FailNext \/ FailDone
    <3>1. UNCHANGED <<stopping, waiting, active, freeSlots, arrived, submitting, queue>>
      BY <2>1 DEF Tick, StartStep, NoPreemption, SnapshotDone, FillDone,
         PrefillChunk, Decode, DecodeFails, StepDone, AdvanceEos, AdvanceFails,
         FailNext, FailDone, clientVars
    <3> QED BY <3>1, <1>1
  <2>2. ASSUME NEW r \in Requests,
               \/ ContinuePrefill(r) \/ SkipPrefilling(r) \/ AddDecodeSlot(r)
               \/ MissingToken(r)
        PROVE  QueueType'
    <3>1. UNCHANGED <<stopping, waiting, active, freeSlots, arrived, submitting, queue>>
      BY <2>2 DEF ContinuePrefill, SkipPrefilling, AddDecodeSlot, MissingToken,
         clientVars
    <3> QED BY <3>1, <1>1
  <2>3. CASE UNCHANGED vars
    <3>1. UNCHANGED <<stopping, waiting, active, freeSlots, arrived, submitting, queue>>
      BY <2>3 DEF vars
    <3> QED BY <3>1, <1>1
  <2> QED BY <2>1, <2>2, <2>3, <1>2, <1>3, <1>4, <1>5, <1>6, <1>7, <1>8, <1>9
      DEF Next, Environment, Thread

(***************************************************************************)
(* The requests' own data, the engine's dictionaries and the KV cache.     *)
(***************************************************************************)
LEMMA DataTypeInductive ==
    ASSUME IInv, [Next]_vars
    PROVE  DataType'
<1> USE DEF IInv
<1>b. DataType /\ TypeOK
  BY DEF TypeOK
<1>c. << >> \in Seq(Tokens)
  BY EmptySeq
<1> USE DEF DataType
<1>1. CASE UNCHANGED <<requestVars, dictVars, kv>>
  BY <1>1, <1>b DEF requestVars, dictVars
<1>2. ASSUME NEW r \in Requests, Preempt(r) PROVE DataType'
  <2>1. r \in Active
    BY <1>2 DEF Preempt, Victim, Active, Preemptible
  <2>2. seqId[r] \in Slots
    BY <2>1 DEF SlotsConserved
  <2>3. DOMAIN kv' = Slots /\ \A s \in Slots : IsCache(kv'[s])
    BY <2>2, <1>2, <1>b, CacheType, EmptyCache DEF Preempt, Emptied
  <2>4. /\ seqId' \in [Requests -> Slots \cup {NoSeq}]
        /\ nComputed' \in [Requests -> Nat]
        /\ prefillSrc' \in [Requests -> Seq(Tokens)]
    BY <1>2, <1>b, <1>c DEF Preempt
  <2>5. samplers' = Pop(samplers, r) /\ pending' = Pop(pending, r)
    BY <1>2 DEF Preempt
  <2>6. /\ DOMAIN samplers' \subseteq Requests /\ DOMAIN pending' \subseteq Requests
        /\ \A q \in DOMAIN samplers' : samplers'[q] \in Seq(Tokens)
        /\ \A q \in DOMAIN pending' : pending'[q] \in Tokens
    BY <2>5, <1>b DEF Pop
  <2> QED BY <2>3, <2>4, <2>6, <1>2, <1>b DEF Preempt
<1>3. ASSUME NEW r \in Requests, AddDecodeSlot(r) PROVE DataType'
  <2>1. nComputed' \in [Requests -> Nat]
    BY <1>3, <1>b DEF AddDecodeSlot
  <2> QED BY <2>1, <1>3, <1>b DEF AddDecodeSlot, dictVars
<1>4. ASSUME NEW r \in Requests, Admit(r) PROVE DataType'
  <2> DEFINE src == ResumeTokens(r)
             h   == Head(freeSlots)
  <2>1. src \in Seq(Tokens) /\ output[r] \in Seq(Tokens)
    BY <1>b, ResumeTokensType
  <2>2. h \in Slots
    BY <1>4, HeadTailProperties DEF Admit, Admissible, TypeOK, QueueType
  <2>3. PICK n \in OnAdmit(src) :
          /\ nComputed' = [nComputed EXCEPT ![r] = n]
          /\ kv' = [kv EXCEPT ![h] = CachedPrefix(r, n)]
    BY <1>4 DEF Admit
  <2>4. /\ seqId' = [seqId EXCEPT ![r] = h]
        /\ prefillSrc' = [prefillSrc EXCEPT ![r] = src]
        /\ samplers' = Put(samplers, r, output[r])
        /\ UNCHANGED <<output, pending>>
    BY <1>4 DEF Admit, RestoredHistory
  <2>5. IsCache(CachedPrefix(r, n)) /\ n \in Nat
    <3>1. n \in Nat /\ Len(src) \in Nat /\ (n = 0 \/ n <= Len(src) - 1)
      BY <2>1, <2>3, LenProperties DEF OnAdmit
    <3>2. \A p \in 0..(n - 1) : p + 1 \in 1..Len(src)
      BY <3>1
    <3>3. \A p \in 0..(n - 1) : src[p + 1] \in Tokens
      BY <3>2, <2>1, ElementOfSeq
    <3>4. DOMAIN CachedPrefix(r, n) = 0..(n - 1)
          /\ \A p \in 0..(n - 1) : CachedPrefix(r, n)[p] = src[p + 1]
      BY DEF CachedPrefix
    <3> QED BY <3>1, <3>3, <3>4 DEF IsCache
  <2> HIDE DEF src, h
  <2>6. DOMAIN kv' = Slots /\ \A s \in Slots : IsCache(kv'[s])
    BY <2>2, <2>3, <2>5, <1>b, CacheType
  <2>7. /\ seqId' \in [Requests -> Slots \cup {NoSeq}]
        /\ nComputed' \in [Requests -> Nat]
        /\ prefillSrc' \in [Requests -> Seq(Tokens)]
    BY <2>1, <2>2, <2>3, <2>4, <2>5, <1>b
  <2>8. /\ DOMAIN samplers' \subseteq Requests
        /\ \A q \in DOMAIN samplers' : samplers'[q] \in Seq(Tokens)
    BY <2>1, <2>4, <1>b DEF Put
  <2> QED BY <2>4, <2>6, <2>7, <2>8, <1>b
<1>5. CASE PrefillChunk
  <2>1. cur \in Active /\ cur \in Requests
    BY <1>5, ActiveRequests DEF PrefillChunk, ThreadConsistent
  <2>2. nComputed' \in [Requests -> Nat]
    <3>1. CASE Take(cur) <= 0
      <4>1. nComputed' = nComputed
        BY <1>5, <3>1 DEF PrefillChunk
      <4> QED BY <4>1, <1>b
    <3>2. CASE ~ (Take(cur) <= 0)
      <4>1. nComputed' = [nComputed EXCEPT ![cur] = nComputed[cur] + Take(cur)]
        BY <1>5, <3>2 DEF PrefillChunk
      <4>2. Take(cur) \in Nat
        BY <1>5, <3>2, ChunkType DEF PrefillChunk
      <4> QED BY <4>1, <4>2, <2>1, <1>b
    <3> QED BY <3>1, <3>2
  <2> QED BY <2>2, <1>5, <1>b DEF PrefillChunk, dictVars
<1>6. CASE Decode \/ DecodeFails
  <2>1. DOMAIN kv' = Slots /\ \A s \in Slots : IsCache(kv'[s])
    <3>1. kv' \in {kv, AfterDecode}
      BY <1>6 DEF Decode, DecodeFails
    <3> QED BY <3>1, <1>b, AfterDecodeType
  <2> QED BY <2>1, <1>6, <1>b DEF Decode, DecodeFails, requestVars, dictVars
<1>7. CASE AdvanceToken
  <2> DEFINE r   == Head(targets).req
             tok == Sample(slots[Head(targets).idx])
  <2>1. r \in Active /\ r \in Requests /\ tok \in Tokens
    BY <1>7, HeadTarget DEF AdvanceToken
  <2>2. samplers[r] \in Seq(Tokens) /\ output[r] \in Seq(Tokens)
    BY <2>1, <1>b DEF ThreadConsistent
  <2>3. /\ samplers' = Put(samplers, r, Append(samplers[r], tok))
        /\ output' = [output EXCEPT ![r] = Append(output[r], tok)]
        /\ pending' = Put(pending, r, tok) \/ pending' = pending
        /\ UNCHANGED <<seqId, nComputed, prefillSrc, kv>>
    BY <1>7 DEF AdvanceToken
  <2> HIDE DEF r, tok
  <2>4. /\ Append(samplers[r], tok) \in Seq(Tokens)
        /\ Append(output[r], tok) \in Seq(Tokens)
    BY <2>1, <2>2, AppendProperties
  <2>5. /\ DOMAIN samplers' \subseteq Requests /\ DOMAIN pending' \subseteq Requests
        /\ \A q \in DOMAIN samplers' : samplers'[q] \in Seq(Tokens)
        /\ \A q \in DOMAIN pending' : pending'[q] \in Tokens
    BY <2>1, <2>3, <2>4, <1>b DEF Put
  <2>6. output' \in [Requests -> Seq(Tokens)]
    BY <2>1, <2>3, <2>4, <1>b
  <2> QED BY <2>3, <2>5, <2>6, <1>b
<1>8. CASE Retire
  <2>1. cur \in Active
    BY <1>8 DEF Retire, ThreadConsistent
  <2>2. seqId[cur] \in Slots
    BY <2>1 DEF SlotsConserved
  <2>3. DOMAIN kv' = Slots /\ \A s \in Slots : IsCache(kv'[s])
    BY <2>2, <1>8, <1>b, CacheType, EmptyCache DEF Retire, Emptied
  <2>4. samplers' = Pop(samplers, cur) /\ pending' = Pop(pending, cur)
    BY <1>8 DEF Retire
  <2>5. /\ DOMAIN samplers' \subseteq Requests /\ DOMAIN pending' \subseteq Requests
        /\ \A q \in DOMAIN samplers' : samplers'[q] \in Seq(Tokens)
        /\ \A q \in DOMAIN pending' : pending'[q] \in Tokens
    BY <2>4, <1>b DEF Pop
  <2> QED BY <2>3, <2>5, <1>8, <1>b DEF Retire, requestVars
<1>9. CASE Drain
  <2>1. /\ kv' = [s \in Slots |->
                    IF \E r \in ToSet(active) : seqId[r] = s THEN << >> ELSE kv[s]]
        /\ samplers' = [r \in DOMAIN samplers \ ToSet(active) |-> samplers[r]]
        /\ pending' = [r \in DOMAIN pending \ ToSet(active) |-> pending[r]]
    BY <1>9 DEF Drain
  <2>2. DOMAIN kv' = Slots /\ \A s \in Slots : IsCache(kv'[s])
    BY <2>1, <1>b, EmptyCache
  <2>3. /\ DOMAIN samplers' \subseteq Requests /\ DOMAIN pending' \subseteq Requests
        /\ \A q \in DOMAIN samplers' : samplers'[q] \in Seq(Tokens)
        /\ \A q \in DOMAIN pending' : pending'[q] \in Tokens
    BY <2>1, <1>b
  <2> QED BY <2>2, <2>3, <1>9, <1>b DEF Drain, requestVars
<1> QED
  <2>1. CASE \/ Environment \/ StartStep \/ NoPreemption \/ SnapshotDone \/ FillDone
             \/ StepDone \/ AdvanceEos \/ AdvanceFails \/ FailNext \/ FailDone
    <3>1. UNCHANGED <<requestVars, dictVars, kv>>
      BY <2>1 DEF Environment, SubmitCheck, SubmitAppend, Stop, Tick, StartStep,
         NoPreemption, SnapshotDone, FillDone, StepDone, AdvanceEos, AdvanceFails,
         FailNext, FailDone
    <3> QED BY <3>1, <1>1
  <2>2. ASSUME NEW r \in Requests,
               ContinuePrefill(r) \/ SkipPrefilling(r) \/ MissingToken(r)
        PROVE  DataType'
    <3>1. UNCHANGED <<requestVars, dictVars, kv>>
      BY <2>2 DEF ContinuePrefill, SkipPrefilling, MissingToken
    <3> QED BY <3>1, <1>1
  <2>3. CASE UNCHANGED vars
    <3>1. UNCHANGED <<requestVars, dictVars, kv>>
      BY <2>3 DEF vars
    <3> QED BY <3>1, <1>1
  <2> QED BY <2>1, <2>2, <2>3, <1>2, <1>3, <1>4, <1>5, <1>6, <1>7, <1>8, <1>9
      DEF Next, Thread

(***************************************************************************)
(* The thread's own variables.                                             *)
(***************************************************************************)
LEMMA ThreadTypeInductive ==
    ASSUME IInv, [Next]_vars
    PROVE  ThreadType'
<1> USE DEF IInv
<1>a. /\ Requests \subseteq 0..NumRequests /\ NumRequests \in Nat
      /\ NBatch \in Nat /\ 0 \in 0..NumRequests
  BY SchedulerAssumption, ContinuousAssumption DEF Requests
<1>b. ThreadType
  BY DEF TypeOK
<1>c. << >> \in Seq(BatchSlot) /\ << >> \in Seq(Target)
  BY EmptySeq
<1> USE DEF ThreadType
<1>1. CASE UNCHANGED threadVars
  BY <1>1, <1>b DEF threadVars, batchVars
<1>2. CASE \E p \in {"loop", "failAll"} : LeaveStep(p)
  BY <1>2, <1>a, <1>c DEF LeaveStep, Control, Reasons
<1>3. CASE /\ UNCHANGED <<budget, slots, targets, cur, reason, paused>>
           /\ pc' \in Control /\ turn' \in Nat
  BY <1>3, <1>b
<1>4. ASSUME NEW r \in Requests, Preempt(r) PROVE ThreadType'
  BY <1>4, <1>a, <1>b DEF Preempt, Control
<1>5. ASSUME NEW r \in Requests, AddDecodeSlot(r) PROVE ThreadType'
  <2> DEFINE t == [req |-> r, idx |-> Len(slots) + 1]
             b == [seq |-> seqId[r], tok |-> pending[r], pos |-> nComputed[r]]
  <2>1. r \in Active
    BY <1>5, ActiveRequests DEF AddDecodeSlot, Visiting
  <2>2. b \in BatchSlot /\ t \in Target
    <3>1. seqId[r] \in Slots
      BY <2>1 DEF SlotsConserved
    <3>2. pending[r] \in Tokens /\ nComputed[r] \in Nat /\ Len(slots) \in Nat
      BY <1>5, <1>b, LenProperties DEF AddDecodeSlot, TypeOK, DataType
    <3> QED BY <3>1, <3>2 DEF BatchSlot, Target
  <2>3. slots' = Append(slots, b) /\ targets' = Append(targets, t)
    BY <1>5 DEF AddDecodeSlot
  <2> HIDE DEF b, t
  <2>4. slots' \in Seq(BatchSlot) /\ targets' \in Seq(Target)
    BY <2>2, <2>3, <1>b, AppendProperties
  <2>5. budget' \in 0..NBatch /\ turn' \in Nat
    BY <1>5, <1>a, <1>b DEF AddDecodeSlot
  <2> QED BY <2>4, <2>5, <1>5, <1>b DEF AddDecodeSlot
<1>6. ASSUME NEW r \in Requests, ContinuePrefill(r) \/ Admit(r) PROVE ThreadType'
  BY <1>6, <1>a, <1>b DEF ContinuePrefill, Admit, batchVars, Control
<1>7. CASE PrefillChunk
  <2>1. cur \in Requests
    BY <1>7, ActiveRequests DEF PrefillChunk, ThreadConsistent
  <2>2. pc' \in Control /\ cur' \in 0..NumRequests /\ UNCHANGED <<turn, reason, paused>>
    BY <1>7, <1>a DEF PrefillChunk, Control
  <2>3. CASE Take(cur) <= 0
    <3>1. UNCHANGED <<slots, targets, budget>>
      BY <1>7, <2>3 DEF PrefillChunk
    <3> QED BY <2>2, <3>1, <1>b
  <2>4. CASE ~ (Take(cur) <= 0)
    <3> DEFINE t == [req |-> cur, idx |-> Len(slots) + Take(cur)]
    <3>1. /\ slots' = slots \o Chunk(cur) /\ budget' = budget - Take(cur)
          /\ targets' = targets \/ targets' = Append(targets, t)
      BY <1>7, <2>4 DEF PrefillChunk
    <3>2. /\ Take(cur) \in Nat \ {0} /\ Take(cur) <= budget
          /\ Chunk(cur) \in Seq(BatchSlot)
      BY <1>7, <2>4, ChunkType DEF PrefillChunk
    <3>3. t \in Target
      <4>1. Len(slots) \in Nat
        BY <1>b, LenProperties
      <4>2. Len(slots) + Take(cur) \in Nat \ {0}
        BY <4>1, <3>2
      <4> QED BY <4>2, <2>1 DEF Target
    <3> HIDE DEF t
    <3>4. slots' \in Seq(BatchSlot)
      BY <3>1, <3>2, <1>b, ConcatProperties
    <3>5. targets' \in Seq(Target)
      <4>1. targets \in Seq(Target)
        BY <1>b
      <4>2. Append(targets, t) \in Seq(Target)
        BY <4>1, <3>3, AppendProperties
      <4> QED BY <4>1, <4>2, <3>1
    <3>6. budget' \in 0..NBatch
      <4>1. budget \in Int /\ budget <= NBatch /\ Take(cur) \in Int
        BY <3>2, <1>a, <1>b
      <4>2. budget - Take(cur) \in 0..NBatch
        BY <4>1, <3>2, <1>a
      <4> QED BY <4>2, <3>1
    <3> QED BY <2>2, <3>4, <3>5, <3>6, <1>b
  <2> QED BY <2>3, <2>4
<1>8. CASE AdvanceEos \/ AdvanceToken
  <2>1. /\ targets # << >> /\ targets' = Tail(targets) /\ pc' \in Control
        /\ cur' \in {0, Head(targets).req} /\ reason' \in Reasons
        /\ UNCHANGED <<budget, slots, turn, paused>>
    <3>1. CASE AdvanceEos
      BY <3>1 DEF AdvanceEos, Control, Reasons
    <3>2. CASE AdvanceToken
      BY <3>2 DEF AdvanceToken, EndReason, Control, Reasons
    <3> QED BY <3>1, <3>2, <1>8
  <2>2. Head(targets).req \in Requests
    BY <2>1, HeadTarget
  <2>3. targets' \in Seq(Target)
    BY <2>1, <1>b, HeadTailProperties
  <2> QED BY <2>1, <2>2, <2>3, <1>a, <1>b
<1>9. CASE FailNext
  <2>1. Head(active) \in Requests
    BY <1>9, HeadTailProperties DEF FailNext, TypeOK, QueueType
  <2> QED BY <1>9, <2>1, <1>a, <1>b DEF FailNext, batchVars, Control, Reasons
<1>10. CASE Retire \/ StartStep
  <2>1. CASE Retire
    BY <2>1, <1>a, <1>b DEF Retire, batchVars, Control, Reasons
  <2>2. CASE StartStep
    BY <2>2, <1>a, <1>b DEF StartStep, Control
  <2> QED BY <2>1, <2>2, <1>10
<1> QED
  <2>1. CASE Environment \/ UNCHANGED vars
    <3>1. UNCHANGED threadVars
      BY <2>1 DEF Environment, SubmitCheck, SubmitAppend, Stop, Tick, vars
    <3> QED BY <3>1, <1>1
  <2>2. CASE \/ DecodeFails \/ StepDone \/ AdvanceFails
             \/ \E r \in Requests : MissingToken(r)
    <3>1. \E p \in {"loop", "failAll"} : LeaveStep(p)
      BY <2>2 DEF DecodeFails, StepDone, AdvanceFails, MissingToken
    <3> QED BY <3>1, <1>2
  <2>3. CASE FillDone
    <3>1. \/ LeaveStep("loop")
          \/ /\ UNCHANGED <<budget, slots, targets, turn, cur, reason, paused>>
             /\ pc' \in Control
      BY <2>3 DEF FillDone, batchVars, Control
    <3> QED BY <3>1, <1>2, <1>3, <1>b
  <2>4. CASE \/ NoPreemption \/ SnapshotDone \/ Decode \/ FailDone \/ Drain
             \/ \E r \in Requests : SkipPrefilling(r)
    <3>1. /\ UNCHANGED <<budget, slots, targets, cur, reason, paused>>
          /\ pc' \in Control /\ turn' \in {turn, turn + 1, 0, 1}
      BY <2>4, <1>b DEF NoPreemption, SnapshotDone, Decode, FailDone, Drain,
         SkipPrefilling, batchVars, Control
    <3> QED BY <3>1, <1>3, <1>b
  <2> QED BY <2>1, <2>2, <2>3, <2>4, <1>4, <1>5, <1>6, <1>7, <1>8, <1>9, <1>10
      DEF Next, Thread

(***************************************************************************)
(* The theorems.                                                           *)
(***************************************************************************)
LEMMA Invariance == Spec => []IInv
<1>1. Init => IInv
  BY InitialState
<1>2. IInv /\ [Next]_vars => IInv'
  <2> SUFFICES ASSUME IInv, [Next]_vars PROVE IInv'
    OBVIOUS
  <2>1. TypeOK'
    BY SchedulerTypeInductive, QueueTypeInductive, DataTypeInductive,
       ThreadTypeInductive DEF TypeOK
  <2>2. SlotsConserved' /\ RequestPlaced' /\ ThreadConsistent'
    BY SlotsInductive, PlacedInductive, ThreadInductive
  <2> QED BY <2>1, <2>2 DEF IInv
<1> QED BY <1>1, <1>2, PTL DEF Spec

(***************************************************************************)
(* Every variable keeps its type, for any number of requests and slots and *)
(* any batch, chunk and context size: in particular no slot of a batch     *)
(* carries the sequence id -1 of a request that has been preempted.        *)
(***************************************************************************)
THEOREM TypeCorrect == Spec => []TypeOK
<1>1. IInv => TypeOK
  BY DEF IInv
<1> QED BY <1>1, Invariance, PTL

(***************************************************************************)
(* No slot is lost or owned twice, under every policy.                     *)
(***************************************************************************)
THEOREM SlotsAreConserved == Spec => []SlotsConserved
<1>1. IInv => SlotsConserved
  BY DEF IInv
<1> QED BY <1>1, Invariance, PTL

(***************************************************************************)
(* No accepted request is lost or in two places at once.                   *)
(***************************************************************************)
THEOREM RequestsArePlaced == Spec => []RequestPlaced
<1>1. IInv => RequestPlaced
  BY DEF IInv
<1> QED BY <1>1, Invariance, PTL

(***************************************************************************)
(* The thread never works on a request that has left the active list,      *)
(* although it releases the lock between taking the request and using it.  *)
(***************************************************************************)
THEOREM ThreadIsConsistent == Spec => []ThreadConsistent
<1>1. IInv => ThreadConsistent
  BY DEF IInv
<1> QED BY <1>1, Invariance, PTL

(***************************************************************************)
(* The bound on the queue, which rests on RequestPlaced: a request moves   *)
(* between the two lists, never into both.                                 *)
(***************************************************************************)
LEMMA WaitingSize ==
    ASSUME TypeOK, NEW r
    PROVE  /\ Cardinality(waiting) \in Nat
           /\ r \notin waiting =>
                 Cardinality(waiting \cup {r}) = Cardinality(waiting) + 1
           /\ r \in waiting =>
                 Cardinality(waiting \ {r}) = Cardinality(waiting) - 1
<1>1. IsFiniteSet(Requests)
  BY SchedulerAssumption, FS_Interval DEF Requests
<1>2. IsFiniteSet(waiting)
  BY <1>1, FS_Subset DEF TypeOK, QueueType
<1> QED BY <1>2, FS_CardinalityType, FS_AddElement, FS_RemoveElement

(* Each step keeps the bound on the queue: the only one that adds to it has
   found room in the critical section before. *)
LEMMA QueueStep ==
    ASSUME IInv, QueueBounded, [Next]_vars
    PROVE  QueueBounded'
<1> USE DEF IInv
<1> DEFINE W == Cardinality(waiting)
           A == Len(active)
<1>a. /\ W \in Nat /\ A \in Nat /\ MaxQueue \in Nat /\ 0 \notin Requests
      /\ active \in Seq(Requests)
  <2>1. active \in Seq(Requests)
    BY DEF TypeOK, QueueType
  <2>2. 0 \notin Requests
    BY SchedulerAssumption DEF Requests
  <2> QED BY <2>1, <2>2, WaitingSize, ContinuousAssumption, LenProperties
<1>b. W + A + Submissions <= MaxQueue /\ Submissions \in {0, 1}
  BY DEF QueueBounded, Submissions
<1>1. CASE UNCHANGED <<waiting, active, submitting>>
  BY <1>1 DEF QueueBounded, Submissions
<1>2. CASE SubmitCheck
  <2>1. UNCHANGED <<waiting, active>> /\ submitting = 0
    BY <1>2 DEF SubmitCheck
  <2>2. submitting' = 0 \/ ~ (W + A >= MaxQueue)
    BY <1>2 DEF SubmitCheck, QueueFull
  <2>3. CASE submitting' = 0
    BY <2>1, <2>3, <1>1
  <2>4. CASE ~ (W + A >= MaxQueue)
    <3>1. W + A + 1 <= MaxQueue /\ W + A + 0 <= MaxQueue
      BY <2>4, <1>a
    <3>2. Submissions' \in {0, 1}
      BY DEF Submissions
    <3>3. W' = W /\ A' = A
      BY <2>1
    <3> QED BY <3>1, <3>2, <3>3 DEF QueueBounded
  <2> QED BY <2>2, <2>3, <2>4
<1>3. CASE SubmitAppend
  <2>1. /\ submitting # 0 /\ submitting' = 0 /\ active' = active
        /\ waiting' = waiting \cup {submitting}
    BY <1>3 DEF SubmitAppend
  <2>2. submitting \in Requests
    BY <2>1, SchedulerAssumption DEF Requests, TypeOK, QueueType
  <2>3. submitting \notin waiting
    BY <2>2 DEF RequestPlaced
  <2>4. W' = W + 1 /\ Submissions = 1 /\ Submissions' = 0 /\ A' = A
    BY <2>1, <2>3, WaitingSize DEF Submissions
  <2> HIDE DEF W, A
  <2>5. W' + A' + Submissions' <= MaxQueue
    BY <2>4, <1>a, <1>b
  <2> QED BY <2>5 DEF QueueBounded, W, A
<1>4. ASSUME NEW r \in Requests, Preempt(r) PROVE QueueBounded'
  <2>1. r \in Active
    BY <1>4 DEF Preempt, Victim, Active, Preemptible
  <2>2. r \notin waiting
    BY <2>1 DEF RequestPlaced
  <2>3. /\ active' = WithoutActive(r) /\ waiting' = waiting \cup {r}
        /\ submitting' = submitting
    BY <1>4 DEF Preempt, clientVars
  <2>4. W' = W + 1 /\ A' = A - 1 /\ Submissions' = Submissions
    BY <2>1, <2>2, <2>3, <1>a, WaitingSize, RemoveFirstProperties
       DEF Submissions, WithoutActive, Active, SlotsConserved
  <2> HIDE DEF W, A
  <2>5. W' + A' + Submissions' <= MaxQueue
    BY <2>4, <1>a, <1>b
  <2> QED BY <2>5 DEF QueueBounded, W, A
<1>5. ASSUME NEW r \in Requests, Admit(r) PROVE QueueBounded'
  <2>1. r \in waiting
    BY <1>5, PickedIsWaiting DEF Admit, Admissible
  <2>2. /\ active' = Append(active, r) /\ waiting' = waiting \ {r}
        /\ submitting' = submitting
    BY <1>5 DEF Admit, clientVars
  <2>3. W' = W - 1 /\ A' = A + 1 /\ Submissions' = Submissions
    BY <2>1, <2>2, <1>a, WaitingSize, AppendProperties DEF Submissions
  <2> HIDE DEF W, A
  <2>4. W' + A' + Submissions' <= MaxQueue
    BY <2>3, <1>a, <1>b
  <2> QED BY <2>4 DEF QueueBounded, W, A
<1>6. CASE Retire
  <2>1. cur \in Active
    BY <1>6 DEF Retire, ThreadConsistent
  <2>2. /\ active' = WithoutActive(cur) /\ waiting' = waiting
        /\ submitting' = submitting
    BY <1>6 DEF Retire, clientVars
  <2>3. W' = W /\ A' = A - 1 /\ Submissions' = Submissions
    BY <2>1, <2>2, <1>a, RemoveFirstProperties
       DEF Submissions, WithoutActive, Active, SlotsConserved
  <2> HIDE DEF W, A
  <2>4. W' + A' + Submissions' <= MaxQueue
    BY <2>3, <1>a, <1>b
  <2> QED BY <2>4 DEF QueueBounded, W, A
<1>7. CASE Drain
  <2>1. active' = << >> /\ waiting' = {} /\ submitting' = submitting
    BY <1>7 DEF Drain, clientVars
  <2>2. W' = 0 /\ A' = 0 /\ Submissions' = Submissions
    BY <2>1, FS_EmptySet, EmptySeq DEF Submissions
  <2> HIDE DEF W, A
  <2>3. W' + A' + Submissions' <= MaxQueue
    BY <2>2, <1>a, <1>b
  <2> QED BY <2>3 DEF QueueBounded, W, A
<1> QED
  <2>1. CASE \/ Stop \/ Tick \/ StartStep \/ NoPreemption \/ SnapshotDone \/ FillDone
             \/ PrefillChunk \/ Decode \/ DecodeFails \/ StepDone \/ AdvanceEos
             \/ AdvanceToken \/ AdvanceFails \/ FailNext \/ FailDone
    <3>1. UNCHANGED <<waiting, active, submitting>>
      BY <2>1 DEF Stop, Tick, StartStep, NoPreemption, SnapshotDone, FillDone,
         PrefillChunk, Decode, DecodeFails, StepDone, AdvanceEos, AdvanceToken,
         AdvanceFails, FailNext, FailDone, clientVars
    <3> QED BY <3>1, <1>1
  <2>2. ASSUME NEW r \in Requests,
               \/ ContinuePrefill(r) \/ SkipPrefilling(r) \/ AddDecodeSlot(r)
               \/ MissingToken(r)
        PROVE  QueueBounded'
    <3>1. UNCHANGED <<waiting, active, submitting>>
      BY <2>2 DEF ContinuePrefill, SkipPrefilling, AddDecodeSlot, MissingToken,
         clientVars
    <3> QED BY <3>1, <1>1
  <2>3. CASE UNCHANGED vars
    <3>1. UNCHANGED <<waiting, active, submitting>>
      BY <2>3 DEF vars
    <3> QED BY <3>1, <1>1
  <2> QED BY <2>1, <2>2, <2>3, <1>2, <1>3, <1>4, <1>5, <1>6, <1>7
      DEF Next, Environment, Thread

(***************************************************************************)
(* The engine never holds more than max_queue requests, although submit    *)
(* checks the bound in one critical section and appends in another.        *)
(***************************************************************************)
THEOREM QueueIsBounded == Spec => []QueueBounded
<1>1. Init => QueueBounded
  <2> SUFFICES ASSUME Init PROVE QueueBounded
    OBVIOUS
  <2>1. Cardinality(waiting) = 0 /\ Len(active) = 0 /\ submitting = 0
    BY FS_EmptySet, EmptySeq DEF Init
  <2> QED BY <2>1, ContinuousAssumption DEF QueueBounded, Submissions
<1>2. IInv /\ QueueBounded /\ [Next]_vars => QueueBounded'
  BY QueueStep
<1> QED BY <1>1, <1>2, Invariance, PTL DEF Spec

(***************************************************************************)
(* The livelock argument of the preemption policy: a request is paused at  *)
(* most max_preemptions times, and a promoted one never again.             *)
(***************************************************************************)
THEOREM PreemptionIsBounded == Spec => []PreemptionBounded
<1>1. Init => PreemptionBounded
  BY SchedulerAssumption DEF Init, PreemptionBounded
<1>2. TypeOK /\ PreemptionBounded /\ [Next]_vars => PreemptionBounded'
  <2> SUFFICES ASSUME TypeOK, PreemptionBounded, [Next]_vars PROVE PreemptionBounded'
    OBVIOUS
  <2>a. preemptions \in [Requests -> Nat] /\ MaxPreemptions \in Nat
    BY SchedulerAssumption DEF TypeOK, SchedulerType
  <2>1. CASE UNCHANGED preemptions
    BY <2>1 DEF PreemptionBounded
  <2>2. ASSUME NEW r \in Requests, Preempt(r) PROVE PreemptionBounded'
    <3>1. ~ (preemptions[r] >= MaxPreemptions)
      BY <2>2 DEF Preempt, Victim, Preemptible, IsImmune
    <3>2. preemptions' = [preemptions EXCEPT ![r] = preemptions[r] + 1]
      BY <2>2 DEF Preempt
    <3>3. preemptions[r] + 1 <= MaxPreemptions
      BY <3>1, <2>a
    <3> QED BY <3>2, <3>3, <2>a DEF PreemptionBounded
  <2>3. CASE Environment \/ UNCHANGED vars
    <3>1. UNCHANGED preemptions
      BY <2>3 DEF Environment, SubmitCheck, SubmitAppend, Stop, Tick, vars,
         schedulerVars
    <3> QED BY <3>1, <2>1
  <2>4. CASE \/ StartStep \/ NoPreemption \/ SnapshotDone \/ FillDone \/ PrefillChunk
             \/ Decode \/ DecodeFails \/ StepDone \/ AdvanceEos \/ AdvanceToken
             \/ AdvanceFails \/ Retire \/ FailNext \/ FailDone \/ Drain
    <3>1. UNCHANGED preemptions
      BY <2>4 DEF StartStep, NoPreemption, SnapshotDone, FillDone, PrefillChunk,
         Decode, DecodeFails, StepDone, AdvanceEos, AdvanceToken, AdvanceFails,
         Retire, FailNext, FailDone, Drain, schedulerVars
    <3> QED BY <3>1, <2>1
  <2>5. ASSUME NEW r \in Requests,
               \/ Admit(r) \/ ContinuePrefill(r) \/ SkipPrefilling(r)
               \/ AddDecodeSlot(r) \/ MissingToken(r)
        PROVE  PreemptionBounded'
    <3>1. UNCHANGED preemptions
      BY <2>5 DEF Admit, ContinuePrefill, SkipPrefilling, AddDecodeSlot,
         MissingToken, schedulerVars
    <3> QED BY <3>1, <2>1
  <2> QED BY <2>2, <2>3, <2>4, <2>5 DEF Next, Thread
<1> QED BY <1>1, <1>2, TypeCorrect, PTL DEF Spec

(***************************************************************************)
(* A promoted request that runs keeps its slot until it has ended.         *)
(***************************************************************************)
THEOREM PromotedIsKept == Spec => PromotedKeepsSlot
<1> DEFINE Kept == \A r \in promoted \cap Active : r \in Active' \/ Ended(r)'
<1>1. IInv /\ [Next]_vars => [Kept]_vars
  <2> SUFFICES ASSUME IInv, Next PROVE Kept
    OBVIOUS
  <2> USE DEF IInv
  <2>a. /\ Active \subseteq Requests /\ stage \in [Requests -> Stages]
        /\ active \in Seq(Requests)
    BY ActiveRequests DEF TypeOK, SchedulerType, QueueType
  <2>1. CASE UNCHANGED active
    BY <2>1 DEF Active
  <2>2. ASSUME NEW v \in Requests, Preempt(v) PROVE Kept
    <3>1. v \in Active /\ v \notin promoted
      BY <2>2 DEF Preempt, Victim, Active, Preemptible, IsImmune
    <3>2. active' = WithoutActive(v)
      BY <2>2 DEF Preempt
    <3>3. Active' = Active \ {v}
      BY <3>1, <3>2, LeavesActive DEF Active
    <3> QED BY <3>1, <3>3
  <2>3. ASSUME NEW r \in Requests, Admit(r) PROVE Kept
    <3>1. active' = Append(active, r)
      BY <2>3 DEF Admit
    <3>2. Active' = Active \cup {r}
      BY <3>1, <2>3, <2>a, AppendElements DEF Active
    <3> QED BY <3>2
  <2>4. CASE Retire
    <3>1. cur \in Active
      BY <2>4 DEF Retire, ThreadConsistent
    <3>2. active' = WithoutActive(cur) /\ stage' = [stage EXCEPT ![cur] = FinalStage(reason)]
      BY <2>4 DEF Retire
    <3>3. Active' = Active \ {cur}
      BY <3>1, <3>2, LeavesActive DEF Active
    <3>4. stage'[cur] \in {"done", "aborted"}
      BY <3>1, <3>2, <2>a DEF FinalStage
    <3> QED BY <3>3, <3>4 DEF Ended
  <2>5. CASE Drain
    <3>1. \A r \in Active : stage'[r] = "aborted"
      BY <2>5, <2>a DEF Drain, DrainVictims, Active
    <3> QED BY <3>1 DEF Ended
  <2>6. CASE \/ Environment \/ StartStep \/ NoPreemption \/ SnapshotDone \/ FillDone
             \/ PrefillChunk \/ Decode \/ DecodeFails \/ StepDone \/ AdvanceEos
             \/ AdvanceToken \/ AdvanceFails \/ FailNext \/ FailDone
    <3>1. UNCHANGED active
      BY <2>6 DEF Environment, SubmitCheck, SubmitAppend, Stop, Tick, StartStep,
         NoPreemption, SnapshotDone, FillDone, PrefillChunk, Decode, DecodeFails,
         StepDone, AdvanceEos, AdvanceToken, AdvanceFails, FailNext, FailDone
    <3> QED BY <3>1, <2>1
  <2>7. ASSUME NEW r \in Requests,
               \/ ContinuePrefill(r) \/ SkipPrefilling(r) \/ AddDecodeSlot(r)
               \/ MissingToken(r)
        PROVE  Kept
    <3>1. UNCHANGED active
      BY <2>7 DEF ContinuePrefill, SkipPrefilling, AddDecodeSlot, MissingToken
    <3> QED BY <3>1, <2>1
  <2> QED BY <2>2, <2>3, <2>4, <2>5, <2>6, <2>7 DEF Next, Thread
<1> QED BY <1>1, Invariance, PTL DEF Spec, PromotedKeepsSlot
-----------------------------------------------------------------------------
(***************************************************************************)
(* Admission.  Only Admit makes a waiting request run, and it admits the   *)
(* one that pick() returns.                                                *)
(***************************************************************************)
LEMMA RunsByAdmission ==
    ASSUME IInv, Next, NEW r \in waiting, r \in Active'
    PROVE  Admit(r)
<1> USE DEF IInv
<1>a. /\ r \in Requests /\ r \notin Active
      /\ active \in Seq(Requests)
  BY DEF TypeOK, QueueType, RequestPlaced
<1>1. CASE UNCHANGED active
  BY <1>1, <1>a DEF Active
<1>2. ASSUME NEW v \in Requests, Preempt(v) PROVE FALSE
  <2>1. v \in Active /\ active' = WithoutActive(v)
    BY <1>2 DEF Preempt, Victim, Preemptible, Active
  <2>2. Active' = Active \ {v}
    BY <2>1, LeavesActive DEF Active
  <2> QED BY <2>2, <1>a
<1>3. ASSUME NEW q \in Requests, Admit(q) PROVE Admit(r)
  <2>1. active' = Append(active, q)
    BY <1>3 DEF Admit
  <2>2. Active' = Active \cup {q}
    BY <2>1, <1>a, AppendElements DEF Active
  <2>3. r = q
    BY <2>2, <1>a
  <2> QED BY <2>3, <1>3
<1>4. CASE Retire
  <2>1. cur \in Active /\ active' = WithoutActive(cur)
    BY <1>4 DEF Retire, ThreadConsistent
  <2>2. Active' = Active \ {cur}
    BY <2>1, LeavesActive DEF Active
  <2> QED BY <2>2, <1>a
<1>5. CASE Drain
  <2>1. Active' = {}
    BY <1>5 DEF Drain, Active, ToSet
  <2> QED BY <2>1
<1>6. CASE \/ Environment \/ StartStep \/ NoPreemption \/ SnapshotDone \/ FillDone
           \/ PrefillChunk \/ Decode \/ DecodeFails \/ StepDone \/ AdvanceEos
           \/ AdvanceToken \/ AdvanceFails \/ FailNext \/ FailDone
  <2>1. UNCHANGED active
    BY <1>6 DEF Environment, SubmitCheck, SubmitAppend, Stop, Tick, StartStep,
       NoPreemption, SnapshotDone, FillDone, PrefillChunk, Decode, DecodeFails,
       StepDone, AdvanceEos, AdvanceToken, AdvanceFails, FailNext, FailDone
  <2> QED BY <2>1, <1>1
<1>7. ASSUME NEW q \in Requests,
             \/ ContinuePrefill(q) \/ SkipPrefilling(q) \/ AddDecodeSlot(q)
             \/ MissingToken(q)
      PROVE  Admit(r)
  <2>1. UNCHANGED active
    BY <1>7 DEF ContinuePrefill, SkipPrefilling, AddDecodeSlot, MissingToken
  <2> QED BY <2>1, <1>1
<1> QED BY <1>2, <1>3, <1>4, <1>5, <1>6, <1>7 DEF Next, Thread

(***************************************************************************)
(* What pick() returns under the priority policy, if it does not starve:   *)
(* nobody does, and nobody comes before it.                                *)
(***************************************************************************)
LEMMA PickedInOrder ==
    ASSUME Policy # "fcfs", TypeOK, waiting # {}, ~ IsStarving(Pick(waiting)),
           NEW q \in waiting
    PROVE  /\ ~ IsStarving(q)
           /\ Priority(Pick(waiting)) \in Int /\ Priority(q) \in Int
           /\ Priority(Pick(waiting)) <= Priority(q)
           /\ Priority(Pick(waiting)) = Priority(q) => Pick(waiting) <= q
<1>1. /\ waiting \in SUBSET Requests /\ shape \in [Requests -> Shapes]
      /\ Starving(waiting) \in SUBSET Requests
  BY DEF TypeOK, QueueType, SchedulerType, Starving
<1>2. Starving(waiting) = {}
  <2> SUFFICES ASSUME Starving(waiting) # {} PROVE FALSE
    OBVIOUS
  <2>1. Pick(waiting) \in Starving(waiting)
    BY <1>1, OldestExists DEF Pick
  <2> QED BY <2>1 DEF Starving
<1>3. Pick(waiting) = MostUrgent(waiting)
  BY <1>2 DEF Pick
<1>4. \A x \in Requests : Priority(x) \in Int
  BY <1>1, SchedulerAssumption DEF Priority
<1>5. Pick(waiting) \in Requests /\ q \in Requests
  BY <1>1, PickedIsWaiting
<1>6. \/ Priority(Pick(waiting)) < Priority(q)
      \/ Priority(Pick(waiting)) = Priority(q) /\ Pick(waiting) <= q
  BY <1>1, <1>3, MostUrgentExists
<1>7. ~ IsStarving(q)
  BY <1>2 DEF Starving
<1> QED BY <1>4, <1>5, <1>6, <1>7

(***************************************************************************)
(* Under the priority policy a request is admitted past one that waits     *)
(* only if it is more urgent, or as urgent and older, or has starved; so   *)
(* requests of equal priority are served in the order they arrived.        *)
(***************************************************************************)
THEOREM AdmissionIsInOrder == ASSUME Policy # "fcfs" PROVE Spec => ServedInOrder
<1> DEFINE InOrder ==
      \A r \in waiting : r \in Active' =>
         \/ IsStarving(r)
         \/ \A q \in waiting : /\ ~ IsStarving(q)
                              /\ Priority(r) <= Priority(q)
                              /\ Priority(q) = Priority(r) => r <= q
<1>1. IInv /\ [Next]_vars => [InOrder]_vars
  <2> SUFFICES ASSUME IInv, Next, NEW r \in waiting, r \in Active', ~ IsStarving(r),
                      NEW q \in waiting
               PROVE  /\ ~ IsStarving(q)
                      /\ Priority(r) <= Priority(q)
                      /\ Priority(q) = Priority(r) => r <= q
    OBVIOUS
  <2>1. r = Pick(waiting)
    BY RunsByAdmission DEF Admit
  <2> QED BY <2>1, PickedInOrder DEF IInv
<1> QED BY <1>1, Invariance, PTL DEF Spec, ServedInOrder
-----------------------------------------------------------------------------
(***************************************************************************)
(* Preemption is for another.  Within the iteration that paused a request  *)
(* there is one free slot, and somebody waits for it who comes before the  *)
(* paused one; after that one is admitted there is none.                   *)
(***************************************************************************)
Outranked ==
    \E c \in waiting \ {paused} : IsStarving(c) \/ Priority(c) < Priority(paused)

PausedInv ==
    /\ paused <= arrived
    /\ pc \in {"loop", "preempt", "failAll"} => paused = 0
    /\ pc = "retire" /\ reason = "error" => paused = 0
    /\ pc \in {"snapshot", "fill", "chunk"} /\ paused # 0 =>
          freeSlots = << >> \/ (Len(freeSlots) = 1 /\ Outranked)

LEMMA PausedStep ==
    ASSUME IInv, PausedInv, [Next]_vars
    PROVE  PausedInv'
<1> USE DEF IInv
<1>a. /\ Requests \subseteq Nat /\ NumRequests \in Nat /\ 0 \notin Requests
      /\ StarvationAge \in Nat
  BY SchedulerAssumption DEF Requests
<1>b. /\ waiting \subseteq Requests /\ freeSlots \in Seq(Slots)
      /\ age \in [Requests -> 0..StarvationAge] /\ shape \in [Requests -> Shapes]
      /\ arrived \in Nat /\ paused \in 0..NumRequests
  BY SchedulerAssumption DEF TypeOK, SchedulerType, QueueType, ThreadType
<1>d. paused # 0 => paused \in Requests
  BY <1>b, SchedulerAssumption DEF Requests
<1>c. ASSUME UNCHANGED <<waiting, age, shape, paused>>
      PROVE  Outranked => Outranked'
  BY <1>c DEF Outranked, IsStarving, Priority
<1>1. CASE UNCHANGED <<waiting, age, shape, paused, freeSlots, pc, reason, arrived>>
  BY <1>1, <1>c DEF PausedInv
<1>2. CASE SubmitCheck
  <2>1. /\ UNCHANGED <<waiting, age, paused, freeSlots, pc, reason>>
        /\ arrived' = arrived + 1
        /\ \A r \in Requests : r # arrived + 1 => shape'[r] = shape[r]
    BY <1>2, <1>b DEF SubmitCheck, threadVars
  <2>2. \A r \in waiting : r # arrived + 1
    <3> SUFFICES ASSUME NEW r \in waiting, r = arrived + 1 PROVE FALSE
      OBVIOUS
    <3>1. stage[r] = "new"
      BY <1>a, <1>b DEF RequestPlaced
    <3> QED BY <3>1, <1>b DEF RequestPlaced
  <2>3. paused # 0 /\ Outranked => Outranked'
    <3> SUFFICES ASSUME paused # 0, Outranked PROVE Outranked'
      OBVIOUS
    <3>1. paused # arrived + 1 /\ paused \in Requests
      BY <1>a, <1>b, <1>d DEF PausedInv
    <3>2. PICK c \in waiting \ {paused} :
                  IsStarving(c) \/ Priority(c) < Priority(paused)
      BY DEF Outranked
    <3>3. Priority(c)' = Priority(c) /\ Priority(paused)' = Priority(paused)
      BY <2>1, <2>2, <3>1, <3>2, <1>b DEF Priority
    <3>4. IsStarving(c)' = IsStarving(c)
      BY <2>1 DEF IsStarving
    <3> QED BY <2>1, <3>2, <3>3, <3>4 DEF Outranked
  <2>4. paused' <= arrived'
    BY <2>1, <1>a, <1>b DEF PausedInv
  <2> QED BY <2>1, <2>3, <2>4 DEF PausedInv
<1>3. CASE SubmitAppend
  <2>1. /\ waiting' = waiting \cup {submitting}
        /\ UNCHANGED <<age, shape, paused, freeSlots, pc, reason, arrived>>
    BY <1>3 DEF SubmitAppend, schedulerVars, threadVars
  <2>2. Outranked => Outranked'
    BY <2>1 DEF Outranked, IsStarving, Priority
  <2> QED BY <2>1, <2>2 DEF PausedInv
<1>4. CASE Tick
  <2>1. /\ UNCHANGED <<waiting, shape, paused, freeSlots, pc, reason, arrived>>
        /\ age' = [r \in Requests |-> IF r \in Aging THEN age[r] + 1 ELSE age[r]]
    BY <1>4 DEF Tick, threadVars
  <2>2. Outranked => Outranked'
    <3> SUFFICES ASSUME Outranked PROVE Outranked'
      OBVIOUS
    <3>1. PICK c \in waiting \ {paused} :
                  IsStarving(c) \/ Priority(c) < Priority(paused)
      BY DEF Outranked
    <3>2. c \in Requests /\ age[c] \in Nat
      BY <1>a, <1>b
    <3>3. age'[c] = age[c] \/ age'[c] = age[c] + 1
      BY <2>1, <3>2
    <3>4. IsStarving(c) => IsStarving(c)'
      BY <3>2, <3>3, <1>a DEF IsStarving
    <3>5. Priority(c)' = Priority(c) /\ Priority(paused)' = Priority(paused)
      BY <2>1 DEF Priority
    <3> QED BY <2>1, <3>1, <3>4, <3>5 DEF Outranked
  <2> QED BY <2>1, <2>2 DEF PausedInv
<1>5. ASSUME NEW r \in Requests, Preempt(r) PROVE PausedInv'
  <2>1. /\ pc' = "snapshot" /\ paused' = r /\ arrived' = arrived
        /\ waiting' = waiting \cup {r} /\ shape' = shape
        /\ age' = [age EXCEPT ![r] = 0]
        /\ freeSlots' = Append(freeSlots, seqId[r]) /\ freeSlots = << >>
        /\ waiting # {}
        /\ r \in Victim(ToSet(active), Pick(waiting))
    BY <1>5 DEF Preempt, Crowded, clientVars
  <2>2. Len(freeSlots') = 1
    BY <2>1
  <2>3. r \in Active /\ r \notin waiting
    BY <2>1 DEF Victim, Preemptible, Active, RequestPlaced
  <2>4. r <= arrived
    BY <2>3, <1>a, <1>b DEF RequestPlaced
  <2>5. PICK c \in waiting : c = Pick(waiting)
    BY <2>1, PickedIsWaiting
  <2>6. IsStarving(c) \/ Priority(c) < Priority(r)
    BY <2>1, <2>5 DEF Victim
  <2>7. c # r /\ c \in Requests /\ age'[c] = age[c]
    BY <2>1, <2>3, <2>5, <1>b
  <2>8. Outranked'
    <3>1. c \in waiting' \ {paused'}
      BY <2>1, <2>5, <2>7
    <3>2. IsStarving(c)' = IsStarving(c)
      BY <2>7 DEF IsStarving
    <3>3. Priority(c)' = Priority(c) /\ Priority(paused)' = Priority(r)
      BY <2>1 DEF Priority
    <3> QED BY <3>1, <3>2, <3>3, <2>6 DEF Outranked
  <2> QED BY <2>1, <2>2, <2>4, <2>8 DEF PausedInv
<1>6. ASSUME NEW r \in Requests, Admit(r) PROVE PausedInv'
  <2>1. /\ pc = "fill" /\ pc' = "chunk" /\ freeSlots' = Tail(freeSlots)
        /\ freeSlots # << >>
        /\ UNCHANGED <<paused, reason, arrived>>
    BY <1>6 DEF Admit, Admissible, clientVars
  <2>2. Len(freeSlots) = 1 => freeSlots' = << >>
    BY <2>1, <1>b
  <2> QED BY <2>1, <2>2 DEF PausedInv
<1>7. CASE StartStep
  BY <1>7 DEF StartStep, PausedInv, clientVars
<1>8. CASE NoPreemption
  BY <1>8 DEF NoPreemption, PausedInv, clientVars
<1>9. CASE \/ SnapshotDone \/ PrefillChunk
  <2>1. /\ pc \in {"snapshot", "chunk"} /\ pc' = "fill"
        /\ UNCHANGED <<waiting, age, shape, paused, freeSlots, reason, arrived>>
    BY <1>9 DEF SnapshotDone, PrefillChunk, schedulerVars, clientVars
  <2> QED BY <2>1, <1>c DEF PausedInv
<1>10. ASSUME NEW r \in Requests, ContinuePrefill(r) PROVE PausedInv'
  <2>1. /\ pc = "fill" /\ pc' = "chunk"
        /\ UNCHANGED <<waiting, age, shape, paused, freeSlots, reason, arrived>>
    BY <1>10 DEF ContinuePrefill, schedulerVars, clientVars, batchVars
  <2> QED BY <2>1, <1>c DEF PausedInv
<1>11. ASSUME NEW r \in Requests, SkipPrefilling(r) \/ AddDecodeSlot(r)
       PROVE  PausedInv'
  <2>1. UNCHANGED <<waiting, age, shape, paused, freeSlots, pc, reason, arrived>>
    BY <1>11 DEF SkipPrefilling, AddDecodeSlot, schedulerVars, clientVars
  <2> QED BY <2>1, <1>1
<1>12. CASE paused' = 0 /\ arrived' \in Nat
  BY <1>12 DEF PausedInv
<1>13. CASE DecodeFails \/ StepDone \/ AdvanceFails
  BY <1>13, <1>12, <1>b DEF DecodeFails, StepDone, AdvanceFails, LeaveStep, clientVars
<1>14. ASSUME NEW r \in Requests, MissingToken(r) PROVE PausedInv'
  BY <1>14, <1>12, <1>b DEF MissingToken, LeaveStep, clientVars
<1>15. CASE FillDone
  <2>1. arrived' = arrived
    BY <1>15 DEF FillDone, clientVars
  <2>2. CASE slots = << >>
    BY <1>15, <1>12, <1>b, <2>1, <2>2 DEF FillDone, LeaveStep
  <2>3. CASE slots # << >>
    BY <1>15, <2>1, <2>3 DEF FillDone, PausedInv
  <2> QED BY <2>2, <2>3
<1>16. CASE Decode \/ AdvanceEos
  <2>1. pc' \in {"advance", "retire"} /\ UNCHANGED <<paused, arrived>>
    BY <1>16 DEF Decode, AdvanceEos, clientVars
  <2>2. pc' = "retire" => reason' = "eos"
    BY <1>16 DEF Decode, AdvanceEos
  <2> QED BY <2>1, <2>2 DEF PausedInv
<1>17. CASE AdvanceToken
  <2>1. pc' \in {"advance", "retire"} /\ UNCHANGED <<paused, arrived>>
    BY <1>17 DEF AdvanceToken, clientVars
  <2>2. reason' # "error"
    BY <1>17 DEF AdvanceToken, EndReason
  <2> QED BY <2>1, <2>2 DEF PausedInv
<1>18. CASE Retire
  <2>1. /\ pc = "retire" /\ UNCHANGED <<paused, arrived>> /\ reason' = "none"
        /\ pc' = IF reason = "error" THEN "failAll" ELSE "advance"
    BY <1>18 DEF Retire, clientVars
  <2> QED BY <2>1 DEF PausedInv
<1>19. CASE FailNext \/ FailDone
  <2>1. pc = "failAll" /\ UNCHANGED <<paused, arrived>>
    BY <1>19 DEF FailNext, FailDone, clientVars
  <2>2. paused' = 0
    BY <2>1 DEF PausedInv
  <2> QED BY <2>1, <2>2, <1>12, <1>b
<1>20. CASE Drain
  <2>1. pc = "loop" /\ UNCHANGED <<paused, arrived>>
    BY <1>20 DEF Drain, clientVars
  <2>2. paused' = 0
    BY <2>1 DEF PausedInv
  <2> QED BY <2>1, <2>2, <1>12, <1>b
<1>21. CASE Stop
  <2>1. UNCHANGED <<waiting, age, shape, paused, freeSlots, pc, reason, arrived>>
    BY <1>21 DEF Stop, schedulerVars, threadVars
  <2> QED BY <2>1, <1>1
<1>22. CASE UNCHANGED vars
  BY <1>22, <1>1 DEF vars, schedulerVars, threadVars
<1> QED
  BY <1>2, <1>3, <1>4, <1>5, <1>6, <1>7, <1>8, <1>9, <1>10, <1>11, <1>13, <1>14,
     <1>15, <1>16, <1>17, <1>18, <1>19, <1>20, <1>21, <1>22
  DEF Next, Environment, Thread

(***************************************************************************)
(* _maybe_preempt frees a slot "for a waiting request": under the priority *)
(* policy the paused request does not get it back in the same iteration,   *)
(* whoever arrives, ages or is admitted meanwhile, unless it starves.      *)
(***************************************************************************)
THEOREM PausingHelpsAnother == ASSUME Policy # "fcfs" PROVE Spec => PauseHelpsAnother
<1> DEFINE Helps ==
      \A r \in Requests :
         r = paused /\ ~ IsStarving(r) => ~ (r \in waiting /\ r \in Active')
<1>1. Init => PausedInv
  <2> SUFFICES ASSUME Init PROVE PausedInv
    OBVIOUS
  <2>1. paused = 0 /\ arrived = 0 /\ pc = "loop"
    BY DEF Init
  <2> QED BY <2>1 DEF PausedInv
<1>2. IInv /\ PausedInv /\ [Next]_vars => PausedInv'
  BY PausedStep
<1>3. IInv /\ PausedInv /\ [Next]_vars => [Helps]_vars
  <2> SUFFICES ASSUME IInv, PausedInv, Next, paused \in Requests,
                      ~ IsStarving(paused), paused \in waiting, paused \in Active'
               PROVE  FALSE
    OBVIOUS
  <2>1. Admit(paused)
    BY RunsByAdmission
  <2>2. pc = "fill" /\ freeSlots # << >> /\ paused = Pick(waiting)
    BY <2>1 DEF Admit, Admissible
  <2>3. paused # 0
    BY SchedulerAssumption DEF Requests
  <2>4. PICK c \in waiting : IsStarving(c) \/ Priority(c) < Priority(paused)
    BY <2>2, <2>3 DEF PausedInv, Outranked
  <2>5. /\ ~ IsStarving(c) /\ Priority(paused) \in Int /\ Priority(c) \in Int
        /\ Priority(paused) <= Priority(c)
    BY <2>2, PickedInOrder DEF IInv
  <2> QED BY <2>4, <2>5
<1> QED BY <1>1, <1>2, <1>3, Invariance, PTL DEF Spec, PauseHelpsAnother
-----------------------------------------------------------------------------
(***************************************************************************)
(* Theorems about what the continuous engine computes: the cache of a slot *)
(* is its owner's, every token is sampled in the right context, and what a *)
(* client receives is its own generation.                                  *)
(***************************************************************************)

(* How long the context of r is, and the tokens in it. *)
Full(r) == PromptLen(r) + Len(output[r])

(* From the start of an iteration to its decode call, and after it. *)
Building == pc \in {"loop", "preempt", "snapshot", "fill", "chunk", "decode"}
Failing  == pc = "failAll" \/ (pc = "retire" /\ reason = "error")
Sampling == pc = "advance" \/ (pc = "retire" /\ reason # "error")
Leaving(r) == pc = "retire" /\ cur = r
Targeted == {targets[i].req : i \in DOMAIN targets}

(* What a client has been sent is the output, which is the generation. *)
OutputInv ==
    \A r \in Requests :
        /\ stage[r] \in {"new", "refused"} => output[r] = << >>
        /\ \A i \in 1..Len(output[r]) : output[r][i] = <<r, PromptLen(r) + i - 1>>
        /\ Len(output[r]) <= shape[r].maxTokens
        /\ Ended(r) \/ Leaving(r) \/ Len(output[r]) < shape[r].maxTokens
        /\ queue[r] = IF Ended(r) THEN Append(output[r], SENTINEL) ELSE output[r]

(* A sampler has been told the output of its request. *)
HistoryInv == \A r \in Active : samplers[r] = output[r]

(* A request that is being prefilled takes up its prompt and output. *)
PrefillInv ==
    /\ DOMAIN pending \subseteq Active
    /\ \A r \in Active : stage[r] = "prefill" =>
          /\ prefillSrc[r] = ResumeTokens(r)
          /\ nComputed[r] <= Full(r)
          /\ r \notin DOMAIN pending

(* The pending token is the last one of the output, next to be decoded. *)
PendingInv ==
    ~ Failing =>
        \A r \in DOMAIN pending :
            r \in Targeted \/ Leaving(r)
            \/ (pending[r] = <<r, nComputed[r]>> /\ nComputed[r] + 1 = Full(r))

(* The batch holds tokens of active requests, each at its own position, and
   a target's slot is the last one of its request. *)
BatchInv ==
    /\ pc \in {"loop", "preempt", "exited"} \/ Failing => slots = << >>
    /\ Building => \A i \in DOMAIN slots : \E r \in Active :
          /\ slots[i].seq = seqId[r] /\ slots[i].pos < nComputed[r]
          /\ slots[i].tok = <<r, slots[i].pos>>

TargetInv ==
    \A i \in DOMAIN targets :
        LET r == targets[i].req
            b == slots[targets[i].idx]
        IN  b.seq = seqId[r] /\ b.pos + 1 = Full(r) /\ nComputed[r] = Full(r)

(* Every position that counts as computed is in the cache, or in the batch. *)
InBatch(r, p) == \E i \in DOMAIN slots : slots[i].seq = seqId[r] /\ slots[i].pos = p
CoverInv ==
    \A r \in Active : \A p \in 0..(nComputed[r] - 1) :
        /\ Building => p \in DOMAIN kv[seqId[r]] \/ InBatch(r, p)
        /\ Sampling => p \in DOMAIN kv[seqId[r]]

CInv == /\ OutputInv /\ HistoryInv /\ PrefillInv /\ PendingInv
        /\ BatchInv /\ TargetInv /\ CacheOwned /\ CoverInv

(***************************************************************************)
(* Initially.                                                              *)
(***************************************************************************)
LEMMA InitialContext == Init => CInv
<1> SUFFICES ASSUME Init PROVE CInv
  OBVIOUS
<1> USE DEF Init
<1>1. active = << >> /\ Active = {} /\ pending = << >> /\ DOMAIN pending = {}
  BY DEF Active, ToSet
<1>2. OutputInv
  <2>1. NoShape \in Shapes /\ NoShape.maxTokens \in Nat \ {0}
    BY SchedulerAssumption DEF NoShape
  <2>2. Len(<< >>) = 0
    OBVIOUS
  <2> QED BY <2>1, <2>2 DEF OutputInv, Ended
<1>3. HistoryInv /\ PrefillInv /\ PendingInv
  BY <1>1 DEF HistoryInv, PrefillInv, PendingInv
<1>4. BatchInv /\ TargetInv
  BY <1>1 DEF BatchInv, TargetInv
<1>5. CacheOwned
  <2>1. \A i \in 1..MaxSeqs : i - 1 \in Slots
    BY ContinuousAssumption DEF Slots
  <2>2. \A s \in ToSet(freeSlots) : s \in Slots
    BY <2>1 DEF ToSet
  <2> QED BY <1>1, <2>2 DEF CacheOwned
<1>6. CoverInv
  BY <1>1 DEF CoverInv
<1> QED BY <1>2, <1>3, <1>4, <1>5, <1>6 DEF CInv

(***************************************************************************)
(* What the parts of a request are.                                        *)
(***************************************************************************)
LEMMA RequestTypes ==
    ASSUME TypeOK, NEW r \in Requests
    PROVE  /\ output[r] \in Seq(Tokens) /\ Len(output[r]) \in Nat
           /\ DOMAIN output[r] = 1..Len(output[r])
           /\ PromptLen(r) \in Nat /\ Full(r) \in Nat
           /\ shape[r].maxTokens \in Nat \ {0}
           /\ nComputed[r] \in Nat
<1>1. shape[r] \in Shapes /\ output[r] \in Seq(Tokens) /\ nComputed[r] \in Nat
  BY DEF TypeOK, SchedulerType, DataType
<1>2. PromptLen(r) \in Nat /\ shape[r].maxTokens \in Nat \ {0}
  BY <1>1, SchedulerAssumption DEF PromptLen
<1>3. Len(output[r]) \in Nat /\ DOMAIN output[r] = 1..Len(output[r])
  BY <1>1, LenProperties
<1> QED BY <1>1, <1>2, <1>3 DEF Full

(* The tokens a request resumes with are its own, each in its place. *)
LEMMA ResumeTokensExact ==
    ASSUME TypeOK, OutputInv, NEW r \in Requests
    PROVE  /\ ResumeTokens(r) \in Seq(Tokens)
           /\ Len(ResumeTokens(r)) = Full(r)
           /\ \A p \in 0..(Full(r) - 1) : ResumeTokens(r)[p + 1] = <<r, p>>
<1> DEFINE n == PromptLen(r)
           s == PromptTokens(r)
<1>1. n \in Nat /\ output[r] \in Seq(Tokens) /\ Len(output[r]) \in Nat
  BY RequestTypes
<1>2. \A i \in 1..n : i - 1 \in Nat /\ <<r, i - 1>> \in Tokens
  BY <1>1 DEF Tokens
<1>3. s \in Seq(Tokens) /\ Len(s) = n /\ \A i \in 1..n : s[i] = <<r, i - 1>>
  BY <1>1, <1>2 DEF PromptTokens
<1>4. \A i \in 1..Len(output[r]) : output[r][i] = <<r, n + i - 1>>
  BY DEF OutputInv
<1> HIDE DEF n, s
<1>5. /\ ResumeTokens(r) \in Seq(Tokens)
      /\ Len(ResumeTokens(r)) = n + Len(output[r])
      /\ \A i \in 1..(n + Len(output[r])) :
            ResumeTokens(r)[i] = IF i <= n THEN s[i] ELSE output[r][i - n]
  <2>1. ResumeTokens(r) = s \o output[r]
    BY DEF ResumeTokens, s
  <2>2. /\ s \o output[r] \in Seq(Tokens)
        /\ Len(s \o output[r]) = Len(s) + Len(output[r])
        /\ \A i \in 1..(Len(s) + Len(output[r])) :
              (s \o output[r])[i] =
                 IF i <= Len(s) THEN s[i] ELSE output[r][i - Len(s)]
    BY <1>1, <1>3, ConcatProperties, Zenon
  <2>3. Len(s) = n
    BY <1>3
  <2> QED BY <2>1, <2>2, <2>3, Zenon
<1>6. ASSUME NEW p \in 0..((n + Len(output[r])) - 1)
      PROVE  ResumeTokens(r)[p + 1] = <<r, p>>
  <2>1. p + 1 \in 1..(n + Len(output[r])) /\ p \in Int
    BY <1>1, <1>6
  <2>2. CASE p + 1 <= n
    <3>1. p + 1 \in 1..n /\ (p + 1) - 1 = p
      BY <2>1, <2>2, <1>1
    <3> QED BY <3>1, <2>1, <2>2, <1>3, <1>5
  <2>3. CASE ~ (p + 1 <= n)
    <3>1. (p + 1) - n \in 1..Len(output[r]) /\ n + ((p + 1) - n) - 1 = p
      BY <2>1, <2>3, <1>1
    <3> QED BY <3>1, <2>1, <2>3, <1>4, <1>5
  <2> QED BY <2>2, <2>3
<1>7. Full(r) = n + Len(output[r])
  BY DEF n, Full
<1>8. /\ ResumeTokens(r) \in Seq(Tokens)
      /\ Len(ResumeTokens(r)) = n + Len(output[r])
  BY <1>5
<1>9. \A p \in 0..(Full(r) - 1) : ResumeTokens(r)[p + 1] = <<r, p>>
  BY <1>6, <1>7
<1> QED BY <1>7, <1>8, <1>9

(***************************************************************************)
(* The invariant implies the properties.                                   *)
(***************************************************************************)
LEMMA TargetsInContext ==
    ASSUME IInv, CInv
    PROVE  SampledInContext
<1> SUFFICES ASSUME pc = "advance", NEW i \in DOMAIN targets,
                    NEW r, r = targets[i].req, NEW b, b = slots[targets[i].idx]
             PROVE  /\ r \in Active /\ b.seq = seqId[r]
                    /\ b.pos + 1 = PromptLen(r) + Len(output[r])
                    /\ HoldsContext(b.seq, r, b.pos + 1)
                    /\ r \in DOMAIN samplers /\ samplers[r] = output[r]
  BY DEF SampledInContext
<1>1. r \in Active /\ r \in DOMAIN samplers
  BY DEF IInv, ThreadConsistent
<1>2. b.seq = seqId[r] /\ b.pos + 1 = Full(r) /\ nComputed[r] = Full(r)
  BY DEF CInv, TargetInv
<1>3. samplers[r] = output[r]
  BY <1>1 DEF CInv, HistoryInv
<1>4. \A p \in 0..(Full(r) - 1) : p \in DOMAIN kv[seqId[r]]
  BY <1>1, <1>2 DEF CInv, CoverInv, Sampling
<1>5. \A p \in DOMAIN kv[seqId[r]] : kv[seqId[r]][p] = <<r, p>>
  BY <1>1 DEF CInv, CacheOwned
<1>6. HoldsContext(b.seq, r, b.pos + 1)
  BY <1>2, <1>4, <1>5 DEF HoldsContext
<1> QED BY <1>1, <1>2, <1>3, <1>6 DEF Full

(* So the token that is sampled is the one that comes next. *)
LEMMA SampledToken ==
    ASSUME IInv, CInv, pc = "advance", targets # << >>
    PROVE  /\ Head(targets).req \in Active
           /\ Sample(slots[Head(targets).idx])
                = <<Head(targets).req, Full(Head(targets).req)>>
<1> DEFINE r == Head(targets).req
           b == slots[Head(targets).idx]
<1>1. targets \in Seq(Target) /\ 1 \in DOMAIN targets /\ Head(targets) = targets[1]
  <2>1. targets \in Seq(Target)
    BY DEF IInv, TypeOK, ThreadType
  <2> QED BY <2>1, LenProperties, EmptySeq, HeadTailProperties
<1>2. /\ r \in Active /\ b.pos + 1 = Full(r)
      /\ HoldsContext(b.seq, r, b.pos + 1)
  BY <1>1, TargetsInContext DEF SampledInContext, Full
<1>3. r \in Requests /\ Full(r) \in Nat
  BY <1>2, ActiveRequests, RequestTypes DEF IInv
<1>4. b.pos \in Nat
  <2>1. slots \in Seq(BatchSlot) /\ Head(targets).idx \in DOMAIN slots
    BY <1>1 DEF IInv, TypeOK, ThreadType, ThreadConsistent
  <2>2. b \in BatchSlot
    BY <2>1, ElementOfSeq, LenProperties
  <2> QED BY <2>2 DEF BatchSlot
<1> HIDE DEF r, b
<1>5. 0 \in 0..((b.pos + 1) - 1)
  BY <1>4
<1>6. ASSUME NEW q \in Requests, HoldsContext(b.seq, q, b.pos + 1) PROVE q = r
  <2>1. kv[b.seq][0] = <<q, 0>> /\ kv[b.seq][0] = <<r, 0>>
    BY <1>2, <1>5, <1>6 DEF HoldsContext
  <2> QED BY <2>1
<1>7. (CHOOSE q \in Requests : HoldsContext(b.seq, q, b.pos + 1)) = r
  BY <1>2, <1>3, <1>6
<1>8. Sample(b) = <<r, b.pos + 1>>
  BY <1>2, <1>3, <1>7 DEF Sample
<1> QED BY <1>2, <1>8 DEF r, b

(***************************************************************************)
(* What some actions do to the requests they are about and to the others.  *)
(***************************************************************************)
LEMMA SubmitEffect ==
    ASSUME IInv, SubmitCheck
    PROVE  /\ arrived + 1 \in Requests /\ stage[arrived + 1] = "new"
           /\ arrived + 1 \notin Active
           /\ stage'[arrived + 1] \in {"queued", "refused"}
           /\ shape'[arrived + 1] \in Shapes
           /\ \A q \in Requests \ {arrived + 1} :
                 shape'[q] = shape[q] /\ stage'[q] = stage[q]
           /\ UNCHANGED <<waiting, active, freeSlots, queue, requestVars, dictVars,
                          kv, threadVars>>
<1> DEFINE n == arrived + 1
<1>1. /\ shape \in [Requests -> Shapes] /\ stage \in [Requests -> Stages]
      /\ arrived \in Nat /\ n \in Requests
  <2>1. SchedulerType /\ QueueType
    BY DEF IInv, TypeOK
  <2>2. shape \in [Requests -> Shapes] /\ stage \in [Requests -> Stages]
    BY <2>1 DEF SchedulerType
  <2>3. NumRequests \in Nat /\ arrived \in 0..NumRequests /\ arrived < NumRequests
    BY <2>1, SchedulerAssumption DEF QueueType, SubmitCheck
  <2> QED BY <2>2, <2>3 DEF Requests
<1>2. n > arrived
  BY <1>1
<1>3. stage[n] = "new" /\ n \notin Active
  BY <1>1, <1>2 DEF IInv, RequestPlaced
<1>4. \E s \in Shapes : shape' = [shape EXCEPT ![n] = s]
  BY DEF SubmitCheck
<1>5. \/ stage' = [stage EXCEPT ![n] = "queued"]
      \/ stage' = [stage EXCEPT ![n] = "refused"]
  BY DEF SubmitCheck
<1>6. UNCHANGED <<waiting, active, freeSlots, queue, requestVars, dictVars, kv, threadVars>>
  BY DEF SubmitCheck
<1> HIDE DEF n
<1>7. /\ shape'[n] \in Shapes /\ stage'[n] \in {"queued", "refused"}
      /\ \A q \in Requests \ {n} : shape'[q] = shape[q] /\ stage'[q] = stage[q]
  BY <1>1, <1>4, <1>5
<1> QED BY <1>1, <1>3, <1>6, <1>7 DEF n

LEMMA PreemptEffect ==
    ASSUME IInv, NEW r \in Requests, Preempt(r)
    PROVE  /\ r \in Active /\ stage[r] = "decode" /\ pc = "preempt" /\ pc' = "snapshot"
           /\ Active' = Active \ {r}
           /\ seqId[r] \in Slots /\ kv' = [kv EXCEPT ![seqId[r]] = << >>]
           /\ ToSet(freeSlots') = ToSet(freeSlots) \cup {seqId[r]}
           /\ stage'[r] = "preempted"
           /\ \A q \in Requests \ {r} : /\ seqId'[q] = seqId[q] /\ stage'[q] = stage[q]
                                        /\ nComputed'[q] = nComputed[q]
                                        /\ prefillSrc'[q] = prefillSrc[q]
           /\ samplers' = Pop(samplers, r) /\ pending' = Pop(pending, r)
           /\ UNCHANGED <<shape, output, queue, slots, targets, cur, reason>>
<1>1. r \in Active /\ stage[r] = "decode"
  BY DEF Preempt, Victim, Active, Preemptible
<1>2. Active' = Active \ {r}
  BY <1>1, LeavesActive DEF Preempt, Active, IInv
<1>3. seqId[r] \in Slots /\ freeSlots \in Seq(Slots)
  BY <1>1 DEF IInv, SlotsConserved, TypeOK, QueueType
<1>4. ToSet(freeSlots') = ToSet(freeSlots) \cup {seqId[r]}
  BY <1>3, AppendElements DEF Preempt
<1>5. /\ kv' = [kv EXCEPT ![seqId[r]] = << >>]
      /\ pc = "preempt" /\ pc' = "snapshot"
      /\ samplers' = Pop(samplers, r) /\ pending' = Pop(pending, r)
      /\ UNCHANGED <<shape, output, queue, slots, targets, cur, reason>>
  BY DEF Preempt, Emptied
<1>6. /\ stage'[r] = "preempted"
      /\ \A q \in Requests \ {r} : /\ seqId'[q] = seqId[q] /\ stage'[q] = stage[q]
                                   /\ nComputed'[q] = nComputed[q]
                                   /\ prefillSrc'[q] = prefillSrc[q]
  BY DEF Preempt, IInv, TypeOK, SchedulerType, DataType
<1> QED BY <1>1, <1>2, <1>3, <1>4, <1>5, <1>6

LEMMA RetireEffect ==
    ASSUME IInv, Retire
    PROVE  /\ cur \in Active /\ cur \in Requests /\ pc = "retire"
           /\ pc' = IF reason = "error" THEN "failAll" ELSE "advance"
           /\ Active' = Active \ {cur}
           /\ seqId[cur] \in Slots /\ kv' = [kv EXCEPT ![seqId[cur]] = << >>]
           /\ ToSet(freeSlots') = ToSet(freeSlots) \cup {seqId[cur]}
           /\ stage[cur] \in {"prefill", "decode"} /\ stage'[cur] \in {"done", "aborted"}
           /\ queue'[cur] = Append(queue[cur], SENTINEL)
           /\ \A q \in Requests \ {cur} : stage'[q] = stage[q] /\ queue'[q] = queue[q]
           /\ samplers' = Pop(samplers, cur) /\ pending' = Pop(pending, cur)
           /\ UNCHANGED <<shape, requestVars, slots, targets>>
<1>1. cur \in Active /\ cur \in Requests
  BY ActiveRequests DEF Retire, IInv, ThreadConsistent
<1>2. Active' = Active \ {cur}
  BY <1>1, LeavesActive DEF Retire, Active, IInv
<1>3. seqId[cur] \in Slots /\ freeSlots \in Seq(Slots)
  BY <1>1 DEF IInv, SlotsConserved, TypeOK, QueueType
<1>4. ToSet(freeSlots') = ToSet(freeSlots) \cup {seqId[cur]}
  BY <1>3, AppendElements DEF Retire
<1>5. /\ kv' = [kv EXCEPT ![seqId[cur]] = << >>]
      /\ pc = "retire" /\ pc' = IF reason = "error" THEN "failAll" ELSE "advance"
      /\ samplers' = Pop(samplers, cur) /\ pending' = Pop(pending, cur)
      /\ UNCHANGED <<shape, requestVars, slots, targets>>
  BY DEF Retire, Emptied, batchVars
<1>6. stage[cur] \in {"prefill", "decode"}
  BY <1>1 DEF IInv, RequestPlaced
<1>7. stage' = [stage EXCEPT ![cur] = FinalStage(reason)]
      /\ FinalStage(reason) \in {"done", "aborted"}
  BY DEF Retire, FinalStage
<1>8. queue' = [queue EXCEPT ![cur] = Append(queue[cur], SENTINEL)]
  BY DEF Retire
<1>9. /\ stage'[cur] \in {"done", "aborted"}
      /\ queue'[cur] = Append(queue[cur], SENTINEL)
      /\ \A q \in Requests \ {cur} : stage'[q] = stage[q] /\ queue'[q] = queue[q]
  BY <1>1, <1>7, <1>8 DEF IInv, TypeOK, SchedulerType, QueueType
<1> QED BY <1>1, <1>2, <1>3, <1>4, <1>5, <1>6, <1>9

LEMMA AdmitEffect ==
    ASSUME IInv, OutputInv, NEW r \in Requests, Admit(r)
    PROVE  /\ r \in waiting /\ r \notin Active /\ Active' = Active \cup {r}
           /\ pc = "fill" /\ pc' = "chunk" /\ cur' = r
           /\ Head(freeSlots) \in ToSet(freeSlots) /\ Head(freeSlots) \in Slots
           /\ ToSet(freeSlots') = ToSet(freeSlots) \ {Head(freeSlots)}
           /\ seqId'[r] = Head(freeSlots)
           /\ stage'[r] = "prefill" /\ prefillSrc'[r] = ResumeTokens(r)
           /\ nComputed'[r] \in 0..Full(r)
           /\ kv' = [kv EXCEPT ![Head(freeSlots)] = CachedPrefix(r, nComputed'[r])]
           /\ \A q \in Requests \ {r} : /\ seqId'[q] = seqId[q] /\ stage'[q] = stage[q]
                                        /\ nComputed'[q] = nComputed[q]
                                        /\ prefillSrc'[q] = prefillSrc[q]
           /\ samplers' = Put(samplers, r, output[r])
           /\ UNCHANGED <<shape, output, queue, pending, slots, targets, reason>>
<1> DEFINE h == Head(freeSlots)
<1>1. r \in waiting /\ r \notin Active
  <2>1. r \in waiting
    BY PickedIsWaiting DEF Admit, Admissible, IInv
  <2> QED BY <2>1 DEF IInv, RequestPlaced
<1>2. Active' = Active \cup {r}
  BY AppendElements DEF Admit, Active, IInv, TypeOK, QueueType
<1>3. h \in ToSet(freeSlots) /\ h \in Slots /\ ToSet(freeSlots') = ToSet(freeSlots) \ {h}
  <2>1. freeSlots \in Seq(Slots) /\ freeSlots # << >> /\ IsInjective(freeSlots)
    BY DEF Admit, Admissible, IInv, TypeOK, QueueType, SlotsConserved
  <2> QED BY <2>1, TailElements, HeadTailProperties DEF Admit
<1>4. PICK n \in OnAdmit(ResumeTokens(r)) :
        /\ nComputed' = [nComputed EXCEPT ![r] = n]
        /\ kv' = [kv EXCEPT ![h] = CachedPrefix(r, n)]
  BY DEF Admit
<1>5. n \in 0..Full(r)
  <2>1. Len(ResumeTokens(r)) = Full(r) /\ Full(r) \in Nat
    BY ResumeTokensExact, RequestTypes DEF IInv
  <2> QED BY <2>1 DEF OnAdmit
<1>6. /\ seqId' = [seqId EXCEPT ![r] = h] /\ stage' = [stage EXCEPT ![r] = "prefill"]
      /\ prefillSrc' = [prefillSrc EXCEPT ![r] = ResumeTokens(r)]
      /\ pc = "fill" /\ pc' = "chunk" /\ cur' = r
      /\ samplers' = Put(samplers, r, output[r])
      /\ UNCHANGED <<shape, output, queue, pending, slots, targets, reason>>
  BY DEF Admit, RestoredHistory, batchVars
<1> HIDE DEF h
<1>7. /\ seqId'[r] = h /\ stage'[r] = "prefill" /\ prefillSrc'[r] = ResumeTokens(r)
      /\ nComputed'[r] = n
      /\ \A q \in Requests \ {r} : /\ seqId'[q] = seqId[q] /\ stage'[q] = stage[q]
                                   /\ nComputed'[q] = nComputed[q]
                                   /\ prefillSrc'[q] = prefillSrc[q]
  BY <1>4, <1>6 DEF IInv, TypeOK, SchedulerType, DataType
<1> QED BY <1>1, <1>2, <1>3, <1>4, <1>5, <1>6, <1>7 DEF h

(* The last loop of _step goes on with the rest of the targets. *)
LEMMA NextTarget ==
    ASSUME IInv, targets # << >>, targets' = Tail(targets)
    PROVE  /\ 1 \in DOMAIN targets /\ Head(targets) = targets[1]
           /\ \A i \in DOMAIN targets' : /\ i + 1 \in DOMAIN targets
                                         /\ targets'[i] = targets[i + 1]
                                         /\ targets'[i].req # Head(targets).req
           /\ Targeted = Targeted' \cup {Head(targets).req}
<1>1. targets \in Seq(Target)
  BY DEF IInv, TypeOK, ThreadType
<1>2. /\ DOMAIN targets = 1..Len(targets) /\ Len(targets) \in Nat
      /\ Head(targets) = targets[1] /\ Len(targets) > 0
      /\ DOMAIN targets' = 1..(Len(targets) - 1)
      /\ \A i \in DOMAIN targets' : targets'[i] = targets[i + 1]
  BY <1>1, HeadTailProperties, LenProperties, EmptySeq
<1>3. /\ 1 \in DOMAIN targets
      /\ \A i \in DOMAIN targets' : i + 1 \in DOMAIN targets /\ i + 1 # 1
      /\ \A i \in DOMAIN targets : i = 1 \/ (i - 1 \in DOMAIN targets' /\ (i - 1) + 1 = i)
  BY <1>2
<1>4. \A i, j \in DOMAIN targets : targets[i].req = targets[j].req => i = j
  BY DEF IInv, ThreadConsistent
<1>5. \A i \in DOMAIN targets' : targets'[i].req # Head(targets).req
  BY <1>2, <1>3, <1>4
<1>6. Targeted = Targeted' \cup {Head(targets).req}
  <2>1. \A x \in Targeted' : x \in Targeted
    BY <1>2, <1>3 DEF Targeted
  <2>2. ASSUME NEW x \in Targeted PROVE x \in Targeted' \cup {Head(targets).req}
    <3>1. PICK i \in DOMAIN targets : x = targets[i].req
      BY DEF Targeted
    <3>2. CASE i = 1
      BY <3>1, <3>2, <1>2
    <3>3. CASE i - 1 \in DOMAIN targets' /\ (i - 1) + 1 = i
      <4>1. targets'[i - 1] = targets[i]
        BY <3>3, <1>2
      <4> QED BY <3>1, <3>3, <4>1 DEF Targeted
    <3> QED BY <3>2, <3>3, <1>3
  <2>3. Head(targets).req \in Targeted
    BY <1>2, <1>3 DEF Targeted
  <2> QED BY <2>1, <2>2, <2>3
<1> QED BY <1>2, <1>3, <1>5, <1>6

LEMMA AdvanceEffect ==
    ASSUME IInv, CInv, AdvanceToken, NEW r, r = Head(targets).req
    PROVE  /\ r \in Active /\ r \in Requests /\ stage[r] = "decode" /\ pc = "advance"
           /\ output'[r] = Append(output[r], <<r, Full(r)>>)
           /\ queue'[r] = Append(queue[r], <<r, Full(r)>>)
           /\ \A q \in Requests \ {r} : output'[q] = output[q] /\ queue'[q] = queue[q]
           /\ samplers' = Put(samplers, r, Append(samplers[r], <<r, Full(r)>>))
           /\ \/ /\ pc' = "retire" /\ cur' = r /\ pending' = pending
                 /\ reason' # "error"
              \/ /\ pc' = "advance" /\ Len(output[r]) + 1 < shape[r].maxTokens
                 /\ pending' = Put(pending, r, <<r, Full(r)>>)
           /\ targets # << >> /\ targets' = Tail(targets)
           /\ UNCHANGED <<shape, stage, active, freeSlots, seqId, nComputed,
                          prefillSrc, kv, slots>>
<1> DEFINE tok == Sample(slots[Head(targets).idx])
<1>1. pc = "advance" /\ targets # << >> /\ targets' = Tail(targets)
  BY DEF AdvanceToken
<1>2. r \in Active /\ tok = <<r, Full(r)>>
  BY <1>1, SampledToken
<1>3. stage[r] = "decode" /\ r \in Requests
  <2>1. 1 \in DOMAIN targets /\ Head(targets) = targets[1]
    BY <1>1, NextTarget
  <2> QED BY <2>1, <1>2, ActiveRequests DEF IInv, ThreadConsistent
<1>4. /\ output' = [output EXCEPT ![r] = Append(output[r], tok)]
      /\ queue' = [queue EXCEPT ![r] = Append(queue[r], tok)]
      /\ samplers' = Put(samplers, r, Append(samplers[r], tok))
      /\ UNCHANGED <<shape, stage, active, freeSlots, seqId, nComputed,
                     prefillSrc, kv, slots>>
  BY DEF AdvanceToken, schedulerVars
<1>5. \E stopHit \in BOOLEAN : reason' = EndReason(r, Len(output[r]) + 1, stopHit)
  BY DEF AdvanceToken
<1>6. \/ reason' = "none" /\ pending' = Put(pending, r, tok) /\ pc' = "advance"
      \/ reason' # "none" /\ pending' = pending /\ pc' = "retire" /\ cur' = r
  BY DEF AdvanceToken
<1> HIDE DEF tok
<1>7. reason' = "none" => Len(output[r]) + 1 < shape[r].maxTokens
  BY <1>3, <1>5, RequestTypes DEF EndReason, IInv
<1>8. reason' # "error"
  BY <1>5 DEF EndReason
<1>9. /\ output'[r] = Append(output[r], tok) /\ queue'[r] = Append(queue[r], tok)
      /\ \A q \in Requests \ {r} : output'[q] = output[q] /\ queue'[q] = queue[q]
  BY <1>3, <1>4 DEF IInv, TypeOK, DataType, QueueType
<1> QED BY <1>1, <1>2, <1>3, <1>4, <1>6, <1>7, <1>8, <1>9

(***************************************************************************)
(* The streams.  They change where a token is sampled and where a request  *)
(* ends.                                                                   *)
(***************************************************************************)
LEMMA OutputInductive ==
    ASSUME IInv, CInv, [Next]_vars
    PROVE  OutputInv'
<1>a. TypeOK /\ OutputInv
  BY DEF IInv, CInv
<1>1. ASSUME UNCHANGED <<output, queue, shape>>,
             \A r \in Requests : stage'[r] \in {"new", "refused"} =>
                                    stage[r] \in {"new", "refused"},
             \A r \in Requests : Ended(r)' <=> Ended(r),
             \A r \in Requests : ~ Leaving(r)
      PROVE  OutputInv'
  <2>1. ASSUME NEW r \in Requests
        PROVE  PromptLen(r)' = PromptLen(r)
    BY <1>1 DEF PromptLen
  <2> QED BY <2>1, <1>1, <1>a DEF OutputInv
<1>2. CASE UNCHANGED <<output, queue, shape, stage>> /\ pc # "retire"
  BY <1>2, <1>1 DEF Ended, Leaving
<1>3. CASE SubmitCheck
  <2>0. PICK n : n = arrived + 1
    OBVIOUS
  <2>1. /\ UNCHANGED <<output, queue, pc, cur>> /\ n \in Requests
        /\ stage[n] = "new" /\ stage'[n] \in {"queued", "refused"}
        /\ shape'[n] \in Shapes
        /\ \A q \in Requests \ {n} : shape'[q] = shape[q] /\ stage'[q] = stage[q]
    BY <1>3, <2>0, SubmitEffect DEF requestVars, threadVars
  <2>2. output[n] = << >> /\ Len(output[n]) = 0 /\ queue[n] = << >>
    BY <2>1, <1>a DEF OutputInv, Ended
  <2>3. shape'[n].maxTokens \in Nat \ {0}
    BY <2>1, SchedulerAssumption
  <2>4. \A q \in Requests \ {n} : PromptLen(q)' = PromptLen(q) /\ (Ended(q)' <=> Ended(q))
                                  /\ (Leaving(q)' <=> Leaving(q))
    BY <2>1 DEF PromptLen, Ended, Leaving
  <2>5. ~ Ended(n)'
    BY <2>1 DEF Ended
  <2> QED BY <2>1, <2>2, <2>3, <2>4, <2>5, <1>a DEF OutputInv
<1>4. ASSUME NEW r \in Requests, Preempt(r) PROVE OutputInv'
  <2>1. /\ UNCHANGED <<output, queue, shape>> /\ pc = "preempt"
        /\ stage[r] = "decode" /\ stage'[r] = "preempted"
        /\ \A q \in Requests \ {r} : stage'[q] = stage[q]
    BY <1>4, PreemptEffect
  <2> QED BY <2>1, <1>1 DEF Ended, Leaving
<1>5. ASSUME NEW r \in Requests, Admit(r) PROVE OutputInv'
  <2>1. /\ UNCHANGED <<output, queue, shape>> /\ pc = "fill" /\ r \in waiting
        /\ stage'[r] = "prefill" /\ \A q \in Requests \ {r} : stage'[q] = stage[q]
    BY <1>5, <1>a, AdmitEffect
  <2>2. stage[r] \in {"queued", "preempted"}
    BY <2>1 DEF IInv, RequestPlaced
  <2> QED BY <2>1, <2>2, <1>1 DEF Ended, Leaving
<1>6. CASE PrefillChunk
  <2>1. cur \in Requests /\ stage[cur] = "prefill" /\ pc = "chunk"
    BY <1>6, ActiveRequests DEF PrefillChunk, IInv, ThreadConsistent
  <2>2. /\ UNCHANGED <<output, queue, shape>>
        /\ stage'[cur] \in {"prefill", "decode"}
        /\ \A q \in Requests \ {cur} : stage'[q] = stage[q]
    BY <1>6, <2>1, <1>a DEF PrefillChunk, TypeOK, SchedulerType
  <2> QED BY <2>1, <2>2, <1>1 DEF Ended, Leaving
<1>7. CASE AdvanceToken
  <2>0. PICK r, tok : r = Head(targets).req /\ tok = <<r, Full(r)>>
    OBVIOUS
  <2>1. /\ r \in Active /\ r \in Requests /\ stage[r] = "decode" /\ pc = "advance"
        /\ output'[r] = Append(output[r], tok) /\ queue'[r] = Append(queue[r], tok)
        /\ \A q \in Requests \ {r} : output'[q] = output[q] /\ queue'[q] = queue[q]
        /\ \/ pc' = "retire" /\ cur' = r
           \/ pc' = "advance" /\ Len(output[r]) + 1 < shape[r].maxTokens
        /\ UNCHANGED <<shape, stage>>
    BY <1>7, <2>0, AdvanceEffect
  <2>2. /\ output[r] \in Seq(Tokens) /\ Len(output[r]) \in Nat
        /\ PromptLen(r) \in Nat /\ Full(r) = PromptLen(r) + Len(output[r])
        /\ shape[r].maxTokens \in Nat /\ tok \in Tokens
    BY <2>0, <2>1, <1>a, RequestTypes DEF Full, Tokens
  <2>3. /\ Len(output'[r]) = Len(output[r]) + 1
        /\ \A i \in 1..Len(output[r]) : output'[r][i] = output[r][i]
        /\ output'[r][Len(output[r]) + 1] = tok
    BY <2>1, <2>2, AppendProperties
  <2>4. /\ \A i \in 1..Len(output[r]) : output[r][i] = <<r, PromptLen(r) + i - 1>>
        /\ Len(output[r]) < shape[r].maxTokens /\ queue[r] = output[r]
        /\ stage[r] \notin {"new", "refused"} /\ ~ Ended(r)
    BY <2>1, <1>a DEF OutputInv, Ended, Leaving
  <2>5. \A i \in 1..Len(output'[r]) : output'[r][i] = <<r, PromptLen(r) + i - 1>>
    <3>1. tok = <<r, PromptLen(r) + (Len(output[r]) + 1) - 1>>
      <4>1. PromptLen(r) + (Len(output[r]) + 1) - 1 = Full(r)
        BY <2>2
      <4> QED BY <4>1, <2>0
    <3>2. \A i \in 1..(Len(output[r]) + 1) : i \in 1..Len(output[r]) \/ i = Len(output[r]) + 1
      BY <2>2
    <3> SUFFICES ASSUME NEW i \in 1..(Len(output[r]) + 1)
                 PROVE  output'[r][i] = <<r, PromptLen(r) + i - 1>>
      BY <2>3
    <3>3. CASE i \in 1..Len(output[r])
      BY <3>3, <2>3, <2>4
    <3>4. CASE i = Len(output[r]) + 1
      BY <3>4, <3>1, <2>3
    <3> QED BY <3>2, <3>3, <3>4
  <2>6. Len(output'[r]) <= shape[r].maxTokens
    BY <2>2, <2>3, <2>4
  <2>7. Leaving(r)' \/ Len(output'[r]) < shape[r].maxTokens
    BY <2>1, <2>3 DEF Leaving
  <2>8. queue'[r] = output'[r]
    BY <2>1, <2>4
  <2>9. \A q \in Requests : PromptLen(q)' = PromptLen(q) /\ (Ended(q)' <=> Ended(q))
                            /\ ~ Leaving(q)
    <3>1. shape' = shape /\ stage' = stage /\ pc = "advance"
      BY <2>1
    <3> QED BY <3>1 DEF PromptLen, Ended, Leaving
  <2> SUFFICES ASSUME NEW q \in Requests
               PROVE  /\ stage[q] \in {"new", "refused"} => output'[q] = << >>
                      /\ \A i \in 1..Len(output'[q]) :
                            output'[q][i] = <<q, PromptLen(q) + i - 1>>
                      /\ Len(output'[q]) <= shape[q].maxTokens
                      /\ \/ Ended(q) \/ Leaving(q)'
                         \/ Len(output'[q]) < shape[q].maxTokens
                      /\ queue'[q] = IF Ended(q) THEN Append(output'[q], SENTINEL)
                                     ELSE output'[q]
    BY <2>1, <2>9 DEF OutputInv
  <2>10. CASE q = r
    BY <2>10, <2>4, <2>5, <2>6, <2>7, <2>8
  <2>11. CASE q # r
    BY <2>11, <2>1, <2>9, <1>a DEF OutputInv
  <2> QED BY <2>10, <2>11
<1>8. CASE Retire
  <2>0. PICK c : c = cur
    OBVIOUS
  <2>1. /\ c \in Requests /\ UNCHANGED <<shape, output>>
        /\ stage[c] \in {"prefill", "decode"} /\ stage'[c] \in {"done", "aborted"}
        /\ queue'[c] = Append(queue[c], SENTINEL)
        /\ \A q \in Requests \ {c} : stage'[q] = stage[q] /\ queue'[q] = queue[q]
    BY <1>8, <2>0, RetireEffect DEF requestVars
  <2>2. queue[c] = output[c] /\ Ended(c)'
    BY <2>1, <1>a DEF OutputInv, Ended
  <2>3. \A q \in Requests : PromptLen(q)' = PromptLen(q)
    BY <2>1 DEF PromptLen
  <2>4. \A q \in Requests \ {c} : (Ended(q)' <=> Ended(q)) /\ ~ Leaving(q)
    BY <2>0, <2>1 DEF Ended, Leaving
  <2> SUFFICES ASSUME NEW q \in Requests
               PROVE  /\ stage'[q] \in {"new", "refused"} => output[q] = << >>
                      /\ \A i \in 1..Len(output[q]) :
                            output[q][i] = <<q, PromptLen(q) + i - 1>>
                      /\ Len(output[q]) <= shape[q].maxTokens
                      /\ \/ Ended(q)' \/ Len(output[q]) < shape[q].maxTokens
                      /\ queue'[q] = IF Ended(q)' THEN Append(output[q], SENTINEL)
                                     ELSE output[q]
    BY <2>1, <2>3 DEF OutputInv
  <2>5. CASE q = c
    BY <2>5, <2>1, <2>2, <1>a DEF OutputInv
  <2>6. CASE q # c
    BY <2>6, <2>1, <2>4, <1>a DEF OutputInv
  <2> QED BY <2>5, <2>6
<1>9. CASE Drain
  <2>1. /\ UNCHANGED <<shape, output>> /\ pc = "loop"
        /\ stage' = [r \in Requests |->
              IF r \in DrainVictims THEN "aborted" ELSE stage[r]]
        /\ queue' = [r \in Requests |->
              IF r \in DrainVictims THEN Append(queue[r], SENTINEL) ELSE queue[r]]
    BY <1>9 DEF Drain, requestVars
  <2>2. \A r \in Requests : r \in DrainVictims =>
           ~ Ended(r) /\ stage[r] \notin {"new", "refused"}
    BY DEF DrainVictims, Ended, Active, IInv, RequestPlaced
  <2>3. \A r \in Requests : /\ r \in DrainVictims =>
                                 queue'[r] = Append(output[r], SENTINEL) /\ Ended(r)'
                            /\ r \notin DrainVictims =>
                                 queue'[r] = queue[r] /\ (Ended(r)' <=> Ended(r))
    BY <2>1, <2>2, <1>a DEF OutputInv, Ended
  <2>4. \A q \in Requests : PromptLen(q)' = PromptLen(q) /\ ~ Leaving(q)
    BY <2>1 DEF PromptLen, Leaving
  <2> QED BY <2>1, <2>2, <2>3, <2>4, <1>a DEF OutputInv
<1>10. CASE UNCHANGED vars
  <2>1. UNCHANGED <<output, queue, shape, stage, pc, cur>>
    BY <1>10 DEF vars, schedulerVars, requestVars, threadVars
  <2>2. \A r \in Requests : PromptLen(r)' = PromptLen(r) /\ (Ended(r)' <=> Ended(r))
                            /\ (Leaving(r)' <=> Leaving(r))
    BY <2>1 DEF PromptLen, Ended, Leaving
  <2> QED BY <2>1, <2>2, <1>a DEF OutputInv
<1> QED
  <2>1. CASE \/ StartStep \/ NoPreemption \/ SnapshotDone \/ FillDone
             \/ Decode \/ DecodeFails \/ StepDone \/ AdvanceEos
             \/ AdvanceFails \/ FailNext \/ FailDone
    <3>1. UNCHANGED <<output, queue, shape, stage>> /\ pc # "retire"
      BY <2>1 DEF StartStep, NoPreemption, SnapshotDone, FillDone,
         Decode, DecodeFails, StepDone, AdvanceEos, AdvanceFails, FailNext,
         FailDone, schedulerVars, requestVars
    <3> QED BY <3>1, <1>2
  <2>2. ASSUME NEW r \in Requests,
               \/ ContinuePrefill(r) \/ SkipPrefilling(r) \/ AddDecodeSlot(r)
               \/ MissingToken(r)
        PROVE  OutputInv'
    <3>1. UNCHANGED <<output, queue, shape, stage>> /\ pc # "retire"
      BY <2>2 DEF ContinuePrefill, SkipPrefilling, AddDecodeSlot, MissingToken,
         schedulerVars, requestVars, Visiting
    <3> QED BY <3>1, <1>2
  <2>3. CASE SubmitAppend \/ Stop \/ Tick
    <3>1. UNCHANGED <<output, queue, shape, stage, pc, cur>>
      BY <2>3 DEF SubmitAppend, Stop, Tick, schedulerVars, requestVars, threadVars
    <3>2. \A r \in Requests : PromptLen(r)' = PromptLen(r) /\ (Ended(r)' <=> Ended(r))
                            /\ (Leaving(r)' <=> Leaving(r))
      BY <3>1 DEF PromptLen, Ended, Leaving
    <3> QED BY <3>1, <3>2, <1>a DEF OutputInv
  <2> QED BY <2>1, <2>2, <2>3, <1>3, <1>4, <1>5, <1>6, <1>7, <1>8, <1>9, <1>10
      DEF Next, Environment, Thread

(***************************************************************************)
(* A sampler is opened with the output, and told each token.               *)
(***************************************************************************)
LEMMA HistoryInductive ==
    ASSUME IInv, CInv, [Next]_vars
    PROVE  HistoryInv'
<1>a. HistoryInv /\ OutputInv /\ TypeOK /\ Active \subseteq DOMAIN samplers
      /\ Active \subseteq Requests
  BY ActiveRequests DEF CInv, IInv, ThreadConsistent
<1>1. CASE UNCHANGED <<active, samplers, output>>
  BY <1>1, <1>a DEF HistoryInv, Active
<1>2. ASSUME NEW r \in Requests, Preempt(r) PROVE HistoryInv'
  <2>1. Active' = Active \ {r} /\ samplers' = Pop(samplers, r) /\ output' = output
    BY <1>2, PreemptEffect
  <2> QED BY <2>1, <1>a DEF HistoryInv, Pop
<1>3. ASSUME NEW r \in Requests, Admit(r) PROVE HistoryInv'
  <2>1. /\ Active' = Active \cup {r} /\ samplers' = Put(samplers, r, output[r])
        /\ output' = output /\ r \notin Active
    BY <1>3, <1>a, AdmitEffect
  <2> QED BY <2>1, <1>a DEF HistoryInv, Put
<1>4. CASE AdvanceToken
  <2>0. PICK r, tok : r = Head(targets).req /\ tok = <<r, Full(r)>>
    OBVIOUS
  <2>1. /\ r \in Active /\ r \in Requests /\ Active' = Active
        /\ output'[r] = Append(output[r], tok)
        /\ \A q \in Requests \ {r} : output'[q] = output[q]
        /\ samplers' = Put(samplers, r, Append(samplers[r], tok))
    BY <1>4, <2>0, AdvanceEffect DEF Active
  <2> QED BY <2>1, <1>a DEF HistoryInv, Put
<1>5. CASE Retire
  <2>1. Active' = Active \ {cur} /\ samplers' = Pop(samplers, cur) /\ output' = output
    BY <1>5, RetireEffect DEF requestVars
  <2> QED BY <2>1, <1>a DEF HistoryInv, Pop
<1>6. CASE Drain
  <2>1. Active' = {}
    BY <1>6 DEF Drain, Active, ToSet
  <2> QED BY <2>1 DEF HistoryInv
<1> QED
  <2>1. CASE \/ Environment \/ StartStep \/ NoPreemption \/ SnapshotDone \/ FillDone
             \/ PrefillChunk \/ Decode \/ DecodeFails \/ StepDone \/ AdvanceEos
             \/ AdvanceFails \/ FailNext \/ FailDone
    <3>1. UNCHANGED <<active, samplers, output>>
      BY <2>1 DEF Environment, SubmitCheck, SubmitAppend, Stop, Tick, StartStep,
         NoPreemption, SnapshotDone, FillDone, PrefillChunk, Decode, DecodeFails,
         StepDone, AdvanceEos, AdvanceFails, FailNext, FailDone,
         requestVars, dictVars
    <3> QED BY <3>1, <1>1
  <2>2. ASSUME NEW r \in Requests,
               \/ ContinuePrefill(r) \/ SkipPrefilling(r) \/ AddDecodeSlot(r)
               \/ MissingToken(r)
        PROVE  HistoryInv'
    <3>1. UNCHANGED <<active, samplers, output>>
      BY <2>2 DEF ContinuePrefill, SkipPrefilling, AddDecodeSlot, MissingToken,
         requestVars, dictVars
    <3> QED BY <3>1, <1>1
  <2>3. CASE UNCHANGED vars
    <3>1. UNCHANGED <<active, samplers, output>>
      BY <2>3 DEF vars, requestVars, dictVars
    <3> QED BY <3>1, <1>1
  <2> QED BY <2>1, <2>2, <2>3, <1>2, <1>3, <1>4, <1>5, <1>6 DEF Next, Thread

(* The context of a request depends on its prompt and output only. *)
LEMMA SameContext ==
    ASSUME NEW q, shape'[q] = shape[q], output'[q] = output[q]
    PROVE  Full(q)' = Full(q) /\ ResumeTokens(q)' = ResumeTokens(q)
BY DEF Full, PromptLen, ResumeTokens, PromptTokens

(***************************************************************************)
(* The batch grows by the next k tokens of request r, which becomes a      *)
(* target with the last token of its context.                              *)
(***************************************************************************)
GrowsBy(r, k) ==
    /\ nComputed'[r] = nComputed[r] + k
    /\ \A q \in Requests \ {r} : nComputed'[q] = nComputed[q]
    /\ Len(slots) \in Nat /\ DOMAIN slots = 1..Len(slots)
    /\ DOMAIN slots' = 1..(Len(slots) + k)
    /\ \A i \in 1..Len(slots) : slots'[i] = slots[i]
    /\ \A j \in 1..k : /\ slots'[Len(slots) + j].seq = seqId[r]
                       /\ slots'[Len(slots) + j].pos = nComputed[r] + (j - 1)
                       /\ slots'[Len(slots) + j].tok = <<r, nComputed[r] + (j - 1)>>

TargetAdded(r, k) ==
    /\ k > 0 /\ nComputed'[r] = Full(r)
    /\ DOMAIN targets = 1..Len(targets) /\ Len(targets) \in Nat
    /\ DOMAIN targets' = 1..(Len(targets) + 1)
    /\ \A i \in DOMAIN targets : targets'[i] = targets[i]
    /\ targets'[Len(targets) + 1].req = r
    /\ targets'[Len(targets) + 1].idx = Len(slots) + k

(* One more target. *)
LEMMA TargetAppended ==
    ASSUME IInv, NEW r \in Requests, NEW k \in Nat \ {0}, nComputed'[r] = Full(r),
           targets' = Append(targets, [req |-> r, idx |-> Len(slots) + k])
    PROVE  TargetAdded(r, k)
<1> DEFINE t == [req |-> r, idx |-> Len(slots) + k]
<1>1. targets \in Seq(Target) /\ slots \in Seq(BatchSlot)
  BY DEF IInv, TypeOK, ThreadType
<1>2. Len(slots) \in Nat /\ DOMAIN targets = 1..Len(targets) /\ Len(targets) \in Nat
  BY <1>1, LenProperties
<1>3. t \in Target /\ t.req = r /\ t.idx = Len(slots) + k
  BY <1>2 DEF Target
<1> HIDE DEF t
<1>4. /\ targets' \in Seq(Target) /\ Len(targets') = Len(targets) + 1
      /\ \A i \in 1..Len(targets) : targets'[i] = targets[i]
      /\ targets'[Len(targets) + 1] = t
  BY <1>1, <1>3, AppendProperties DEF t
<1>5. DOMAIN targets' = 1..(Len(targets) + 1)
  BY <1>4, LenProperties
<1> QED BY <1>2, <1>3, <1>4, <1>5 DEF TargetAdded

LEMMA AddEffect ==
    ASSUME IInv, CInv, NEW r \in Requests, AddDecodeSlot(r)
    PROVE  /\ r \in Active /\ stage[r] = "decode" /\ r \notin Targeted
           /\ pc = "snapshot" /\ pc' = "snapshot"
           /\ GrowsBy(r, 1) /\ TargetAdded(r, 1)
           /\ UNCHANGED <<schedulerVars, active, freeSlots, queue, seqId, prefillSrc,
                          output, dictVars, kv, cur, reason>>
<1> DEFINE b == [seq |-> seqId[r], tok |-> pending[r], pos |-> nComputed[r]]
<1>1. /\ turn \in DOMAIN active /\ r = active[turn] /\ stage[r] = "decode"
      /\ pc = "snapshot" /\ r \in DOMAIN pending
  BY DEF AddDecodeSlot, Visiting
<1>2. r \in Active
  BY <1>1, ActiveRequests DEF IInv
<1>3. r \notin Targeted
  <2> SUFFICES ASSUME NEW i \in DOMAIN targets PROVE targets[i].req # r
    BY DEF Targeted
  <2>1. PICK j \in DOMAIN active : j < turn /\ active[j] = targets[i].req
    BY <1>1 DEF IInv, ThreadConsistent
  <2>2. j # turn
    <3>1. active \in Seq(Requests) /\ turn \in Nat
      BY DEF IInv, TypeOK, QueueType, ThreadType
    <3>2. j \in Nat
      BY <3>1, LenProperties
    <3> QED BY <3>1, <3>2, <2>1
  <2> QED BY <2>1, <2>2, <1>1 DEF IInv, SlotsConserved, IsInjective
<1>4. pending[r] = <<r, nComputed[r]>> /\ nComputed[r] + 1 = Full(r)
  BY <1>1, <1>3 DEF CInv, PendingInv, Failing, Leaving
<1>5. /\ slots \in Seq(BatchSlot) /\ nComputed \in [Requests -> Nat]
      /\ seqId[r] \in Slots /\ pending[r] \in Tokens
  BY <1>1, <1>2 DEF IInv, TypeOK, ThreadType, DataType, SlotsConserved
<1>6. b \in BatchSlot
  BY <1>5 DEF BatchSlot
<1>7. Len(slots) \in Nat /\ DOMAIN slots = 1..Len(slots)
  BY <1>5, LenProperties
<1>8. slots' = Append(slots, b) /\ nComputed' = [nComputed EXCEPT ![r] = nComputed[r] + 1]
  BY DEF AddDecodeSlot
<1>9. b.seq = seqId[r] /\ b.pos = nComputed[r] /\ b.tok = <<r, nComputed[r]>>
  BY <1>4
<1> HIDE DEF b
<1>10. /\ slots' \in Seq(BatchSlot) /\ Len(slots') = Len(slots) + 1
       /\ \A i \in 1..Len(slots) : slots'[i] = slots[i]
       /\ slots'[Len(slots) + 1] = b
  BY <1>5, <1>6, <1>8, AppendProperties
<1>11. DOMAIN slots' = 1..(Len(slots) + 1)
  BY <1>10, LenProperties
<1>12. /\ nComputed'[r] = nComputed[r] + 1
       /\ \A q \in Requests \ {r} : nComputed'[q] = nComputed[q]
  BY <1>5, <1>8
<1>13. \A j \in 1..1 : j = 1 /\ nComputed[r] + (j - 1) = nComputed[r]
  BY <1>5
<1>14. GrowsBy(r, 1)
  BY <1>7, <1>9, <1>10, <1>11, <1>12, <1>13 DEF GrowsBy
<1>15. TargetAdded(r, 1)
  <2>1. targets' = Append(targets, [req |-> r, idx |-> Len(slots) + 1])
    BY DEF AddDecodeSlot
  <2> QED BY <2>1, <1>4, <1>12, TargetAppended
<1> QED BY <1>1, <1>2, <1>3, <1>14, <1>15 DEF AddDecodeSlot

LEMMA ChunkEffect ==
    ASSUME IInv, CInv, PrefillChunk, NEW c, c = cur
    PROVE  /\ c \in Active /\ c \in Requests /\ stage[c] = "prefill" /\ c \notin Targeted
           /\ c \notin DOMAIN pending
           /\ pc = "chunk" /\ pc' = "fill"
           /\ \A q \in Requests \ {c} : stage'[q] = stage[q]
           /\ \E k \in Nat :
                 /\ GrowsBy(c, k) /\ nComputed'[c] <= Full(c)
                 /\ TargetAdded(c, k) \/ targets' = targets
           /\ UNCHANGED <<shape, active, freeSlots, queue, seqId, prefillSrc,
                          output, dictVars, kv, reason>>
<1>1. c \in Active /\ c \in Requests /\ stage[c] = "prefill" /\ pc = "chunk"
  BY ActiveRequests DEF PrefillChunk, IInv, ThreadConsistent
<1>2. c \notin Targeted
  BY <1>1 DEF Targeted, IInv, ThreadConsistent
<1>3. /\ prefillSrc[c] = ResumeTokens(c) /\ nComputed[c] <= Full(c)
      /\ c \notin DOMAIN pending
  BY <1>1 DEF CInv, PrefillInv
<1>4. /\ slots \in Seq(BatchSlot) /\ nComputed \in [Requests -> Nat]
      /\ stage \in [Requests -> Stages]
  BY DEF IInv, TypeOK, ThreadType, DataType, SchedulerType
<1>5. Len(slots) \in Nat /\ DOMAIN slots = 1..Len(slots)
  BY <1>4, LenProperties
<1>6. /\ Full(c) \in Nat /\ Len(prefillSrc[c]) = Full(c)
      /\ \A p \in 0..(Full(c) - 1) : prefillSrc[c][p + 1] = <<c, p>>
  BY <1>1, <1>3, ResumeTokensExact, RequestTypes DEF IInv, CInv
<1>7. /\ \A q \in Requests \ {c} : stage'[q] = stage[q]
      /\ pc' = "fill"
      /\ UNCHANGED <<shape, active, freeSlots, queue, seqId, prefillSrc,
                     output, dictVars, kv, reason>>
  BY <1>1, <1>4 DEF PrefillChunk
<1>8. CASE Take(c) <= 0
  <2>1. UNCHANGED <<slots, targets, nComputed>>
    BY <1>8 DEF PrefillChunk
  <2>2. /\ nComputed'[c] = nComputed[c] + 0 /\ Len(slots) + 0 = Len(slots)
        /\ \A j \in 1..0 : FALSE
    BY <2>1, <1>1, <1>4, <1>5
  <2>3. GrowsBy(c, 0)
    BY <2>1, <2>2, <1>5 DEF GrowsBy
  <2>4. nComputed'[c] <= Full(c)
    BY <2>1, <1>3
  <2> QED BY <2>1, <2>3, <2>4, <1>1, <1>2, <1>3, <1>7
<1>9. CASE ~ (Take(c) <= 0)
  <2> DEFINE k == Take(c)
             n == nComputed[c]
  <2>1. /\ k \in Nat \ {0} /\ n + k <= Full(c)
        /\ Chunk(c) \in Seq(BatchSlot) /\ Len(Chunk(c)) = k
    BY <1>1, <1>6, <1>9, ChunkType
  <2>2. /\ slots' = slots \o Chunk(c) /\ nComputed' = [nComputed EXCEPT ![c] = n + k]
        /\ targets' = IF n + k = Full(c)
                      THEN Append(targets, [req |-> c, idx |-> Len(slots) + k])
                      ELSE targets
    BY <1>6, <1>9 DEF PrefillChunk
  <2>3. Chunk(c) = [j \in 1..k |-> [seq |-> seqId[c], tok |-> prefillSrc[c][n + j],
                                    pos |-> n + j - 1]]
    BY DEF Chunk
  <2>4. n \in Nat
    BY <1>1, <1>4
  <2> HIDE DEF k, n
  <2>5. ASSUME NEW j \in 1..k
        PROVE  /\ Chunk(c)[j].seq = seqId[c] /\ Chunk(c)[j].pos = n + (j - 1)
               /\ Chunk(c)[j].tok = <<c, n + (j - 1)>>
    <3>1. n + (j - 1) \in 0..(Full(c) - 1) /\ (n + (j - 1)) + 1 = n + j
      BY <2>1, <2>4, <1>6
    <3>2. prefillSrc[c][n + j] = <<c, n + (j - 1)>>
      BY <3>1, <1>6
    <3>3. Chunk(c)[j] = [seq |-> seqId[c], tok |-> prefillSrc[c][n + j],
                         pos |-> n + j - 1]
      BY <2>3, Zenon
    <3>4. /\ Chunk(c)[j].seq = seqId[c] /\ Chunk(c)[j].pos = n + (j - 1)
          /\ Chunk(c)[j].tok = prefillSrc[c][n + j]
      BY <3>3
    <3> QED BY <3>2, <3>4
  <2>6. /\ slots' \in Seq(BatchSlot) /\ Len(slots') = Len(slots) + k
        /\ \A i \in 1..(Len(slots) + k) :
              slots'[i] = IF i <= Len(slots) THEN slots[i] ELSE Chunk(c)[i - Len(slots)]
    <3>0. slots \in Seq(BatchSlot) /\ Chunk(c) \in Seq(BatchSlot)
      BY <1>4, <2>1
    <3>1. /\ slots \o Chunk(c) \in Seq(BatchSlot)
          /\ Len(slots \o Chunk(c)) = Len(slots) + Len(Chunk(c))
          /\ \A i \in 1..(Len(slots) + Len(Chunk(c))) :
                (slots \o Chunk(c))[i] = IF i <= Len(slots) THEN slots[i]
                                         ELSE Chunk(c)[i - Len(slots)]
      BY <3>0, ConcatProperties, Zenon
    <3> QED BY <3>1, <2>1, <2>2, Zenon
  <2>7. DOMAIN slots' = 1..(Len(slots) + k)
    BY <2>6, LenProperties
  <2>8. \A i \in 1..Len(slots) : slots'[i] = slots[i]
    <3> SUFFICES ASSUME NEW i \in 1..Len(slots) PROVE slots'[i] = slots[i]
      OBVIOUS
    <3>1. i \in 1..(Len(slots) + k) /\ i <= Len(slots)
      BY <2>1, <1>5
    <3> QED BY <3>1, <2>6
  <2>9. \A j \in 1..k : slots'[Len(slots) + j] = Chunk(c)[j]
    <3> SUFFICES ASSUME NEW j \in 1..k PROVE slots'[Len(slots) + j] = Chunk(c)[j]
      OBVIOUS
    <3>1. /\ Len(slots) + j \in 1..(Len(slots) + k) /\ ~ (Len(slots) + j <= Len(slots))
          /\ (Len(slots) + j) - Len(slots) = j
      BY <2>1, <1>5
    <3> QED BY <3>1, <2>6
  <2>10. /\ nComputed'[c] = n + k
         /\ \A q \in Requests \ {c} : nComputed'[q] = nComputed[q]
    BY <2>2, <1>1, <1>4
  <2>11. GrowsBy(c, k)
    BY <2>5, <2>7, <2>8, <2>9, <2>10, <1>5 DEF GrowsBy, n
  <2>12. TargetAdded(c, k) \/ targets' = targets
    BY <2>1, <2>2, <2>10, <1>1, TargetAppended
  <2> QED BY <2>1, <2>10, <2>11, <2>12, <1>1, <1>2, <1>3, <1>7
<1> QED BY <1>8, <1>9

(***************************************************************************)
(* A request is prefilled from its own tokens, and no further than they    *)
(* go.                                                                     *)
(***************************************************************************)
LEMMA PrefillInductive ==
    ASSUME IInv, CInv, [Next]_vars
    PROVE  PrefillInv'
<1>a. PrefillInv /\ OutputInv /\ TypeOK /\ Active \subseteq Requests
  BY ActiveRequests DEF CInv, IInv
<1>b. \A r \in Active : r \notin waiting
  BY <1>a DEF IInv, RequestPlaced
<1>1. CASE UNCHANGED <<active, stage, shape, output, pending, prefillSrc, nComputed>>
  <2>1. \A q \in Active : Full(q)' = Full(q) /\ ResumeTokens(q)' = ResumeTokens(q)
    BY <1>1, SameContext
  <2> QED BY <1>1, <2>1, <1>a DEF PrefillInv, Active
<1>2. CASE SubmitCheck
  <2>1. /\ Active' = Active /\ UNCHANGED <<output, pending, prefillSrc, nComputed>>
        /\ \A q \in Active : shape'[q] = shape[q] /\ stage'[q] = stage[q]
    BY <1>2, <1>a, SubmitEffect DEF Active, requestVars, dictVars
  <2>2. \A q \in Active : Full(q)' = Full(q) /\ ResumeTokens(q)' = ResumeTokens(q)
    BY <2>1, SameContext
  <2> QED BY <2>1, <2>2, <1>a DEF PrefillInv
<1>3. ASSUME NEW r \in Requests, Preempt(r) PROVE PrefillInv'
  <2>1. /\ Active' = Active \ {r} /\ pending' = Pop(pending, r)
        /\ UNCHANGED <<shape, output>>
        /\ \A q \in Active \ {r} : /\ stage'[q] = stage[q] /\ nComputed'[q] = nComputed[q]
                                   /\ prefillSrc'[q] = prefillSrc[q]
    BY <1>3, <1>a, PreemptEffect
  <2>2. \A q \in Active : Full(q)' = Full(q) /\ ResumeTokens(q)' = ResumeTokens(q)
    BY <2>1, SameContext
  <2> QED BY <2>1, <2>2, <1>a DEF PrefillInv, Pop
<1>4. ASSUME NEW r \in Requests, Admit(r) PROVE PrefillInv'
  <2>1. /\ r \notin Active /\ Active' = Active \cup {r}
        /\ prefillSrc'[r] = ResumeTokens(r) /\ nComputed'[r] \in 0..Full(r)
        /\ UNCHANGED <<shape, output, pending>>
        /\ \A q \in Active : /\ stage'[q] = stage[q] /\ nComputed'[q] = nComputed[q]
                             /\ prefillSrc'[q] = prefillSrc[q]
    BY <1>4, <1>a, AdmitEffect
  <2>2. \A q \in Requests : Full(q)' = Full(q) /\ ResumeTokens(q)' = ResumeTokens(q)
    BY <2>1, SameContext
  <2>3. nComputed'[r] <= Full(r)
    BY <2>1, <1>a, RequestTypes
  <2> QED BY <2>1, <2>2, <2>3, <1>a DEF PrefillInv
<1>5. ASSUME NEW r \in Requests, AddDecodeSlot(r) PROVE PrefillInv'
  <2>1. /\ stage[r] = "decode" /\ Active' = Active
        /\ \A q \in Active \ {r} : nComputed'[q] = nComputed[q]
        /\ UNCHANGED <<shape, stage, output, pending, prefillSrc>>
    BY <1>5, <1>a, AddEffect DEF Active, GrowsBy, schedulerVars, dictVars
  <2>2. \A q \in Requests : Full(q)' = Full(q) /\ ResumeTokens(q)' = ResumeTokens(q)
    BY <2>1, SameContext
  <2> QED BY <2>1, <2>2, <1>a DEF PrefillInv
<1>6. CASE PrefillChunk
  <2>0. PICK c : c = cur
    OBVIOUS
  <2>1. /\ c \in Active /\ stage[c] = "prefill" /\ c \notin DOMAIN pending
        /\ Active' = Active /\ nComputed'[c] <= Full(c)
        /\ \A q \in Active \ {c} : stage'[q] = stage[q] /\ nComputed'[q] = nComputed[q]
        /\ UNCHANGED <<shape, output, pending, prefillSrc>>
    BY <1>6, <1>a, <2>0, ChunkEffect DEF Active, GrowsBy, dictVars
  <2>2. \A q \in Requests : Full(q)' = Full(q) /\ ResumeTokens(q)' = ResumeTokens(q)
    BY <2>1, SameContext
  <2> QED BY <2>1, <2>2, <1>a DEF PrefillInv
<1>7. CASE AdvanceToken
  <2>0. PICK r : r = Head(targets).req
    OBVIOUS
  <2>1. /\ r \in Active /\ stage[r] = "decode" /\ Active' = Active
        /\ \A q \in Active \ {r} : output'[q] = output[q]
        /\ pending' = pending \/ \E t : pending' = Put(pending, r, t)
        /\ UNCHANGED <<shape, stage, prefillSrc, nComputed>>
    BY <1>7, <1>a, <2>0, AdvanceEffect DEF Active
  <2>2. \A q \in Active \ {r} : Full(q)' = Full(q) /\ ResumeTokens(q)' = ResumeTokens(q)
    BY <2>1, SameContext
  <2>3. /\ DOMAIN pending' \subseteq Active
        /\ \A q \in Active \ {r} : q \in DOMAIN pending' => q \in DOMAIN pending
    BY <2>1, <1>a DEF PrefillInv, Put
  <2> QED BY <2>1, <2>2, <2>3, <1>a DEF PrefillInv
<1>8. CASE Retire
  <2>0. PICK c : c = cur
    OBVIOUS
  <2>1. /\ Active' = Active \ {c} /\ pending' = Pop(pending, c)
        /\ UNCHANGED <<shape, output, prefillSrc, nComputed>>
        /\ \A q \in Active \ {c} : stage'[q] = stage[q]
    BY <1>8, <1>a, <2>0, RetireEffect DEF requestVars
  <2>2. \A q \in Active : Full(q)' = Full(q) /\ ResumeTokens(q)' = ResumeTokens(q)
    BY <2>1, SameContext
  <2> QED BY <2>1, <2>2, <1>a DEF PrefillInv, Pop
<1>9. CASE Drain
  <2>1. /\ Active' = {}
        /\ pending' = [r \in DOMAIN pending \ Active |-> pending[r]]
    BY <1>9 DEF Drain, Active, ToSet
  <2> QED BY <2>1, <1>a DEF PrefillInv
<1> QED
  <2>1. CASE \/ SubmitAppend \/ Stop \/ Tick \/ StartStep \/ NoPreemption
             \/ SnapshotDone \/ FillDone \/ Decode \/ DecodeFails \/ StepDone
             \/ AdvanceEos \/ AdvanceFails \/ FailNext \/ FailDone
    <3>1. UNCHANGED <<active, stage, shape, output, pending, prefillSrc, nComputed>>
      BY <2>1 DEF SubmitAppend, Stop, Tick, StartStep, NoPreemption, SnapshotDone,
         FillDone, Decode, DecodeFails, StepDone, AdvanceEos, AdvanceFails,
         FailNext, FailDone, schedulerVars, requestVars, dictVars
    <3> QED BY <3>1, <1>1
  <2>2. ASSUME NEW r \in Requests,
               ContinuePrefill(r) \/ SkipPrefilling(r) \/ MissingToken(r)
        PROVE  PrefillInv'
    <3>1. UNCHANGED <<active, stage, shape, output, pending, prefillSrc, nComputed>>
      BY <2>2 DEF ContinuePrefill, SkipPrefilling, MissingToken, schedulerVars,
         requestVars, dictVars
    <3> QED BY <3>1, <1>1
  <2>3. CASE UNCHANGED vars
    <3>1. UNCHANGED <<active, stage, shape, output, pending, prefillSrc, nComputed>>
      BY <2>3 DEF vars, schedulerVars, requestVars, dictVars
    <3> QED BY <3>1, <1>1
  <2> QED BY <2>1, <2>2, <2>3, <1>2, <1>3, <1>4, <1>5, <1>6, <1>7, <1>8, <1>9
      DEF Next, Environment, Thread

(***************************************************************************)
(* The batch.                                                              *)
(***************************************************************************)
LEMMA TargetInductive ==
    ASSUME IInv, CInv, [Next]_vars
    PROVE  TargetInv'
<1>a. TargetInv /\ TypeOK /\ Active \subseteq Requests
  BY ActiveRequests DEF CInv, IInv
<1>b. \A i \in DOMAIN targets : targets[i].req \in Active /\ targets[i].idx \in DOMAIN slots
  BY DEF IInv, ThreadConsistent
<1>1. ASSUME UNCHANGED <<targets, slots>>,
             \A q \in Active : /\ seqId'[q] = seqId[q] /\ nComputed'[q] = nComputed[q]
                               /\ shape'[q] = shape[q] /\ output'[q] = output[q]
      PROVE  TargetInv'
  <2>1. \A q \in Active : Full(q)' = Full(q)
    BY <1>1, SameContext
  <2> QED BY <1>1, <2>1, <1>a, <1>b DEF TargetInv
<1>2. CASE targets' = << >>
  BY <1>2 DEF TargetInv
<1>3. ASSUME NEW r \in Active, NEW k \in Nat, GrowsBy(r, k),
             r \notin Targeted, TargetAdded(r, k) \/ targets' = targets,
             UNCHANGED <<shape, output, seqId>>
      PROVE  TargetInv'
  <2>1. \A q \in Active : Full(q)' = Full(q)
    BY <1>3, SameContext
  <2>2. ASSUME NEW i \in DOMAIN targets, NEW q \in Requests, q = targets[i].req
        PROVE  /\ slots'[targets[i].idx].seq = seqId'[q]
               /\ slots'[targets[i].idx].pos + 1 = Full(q)' /\ nComputed'[q] = Full(q)'
    <3>1. q # r /\ q \in Active /\ targets[i].idx \in 1..Len(slots)
      BY <2>2, <1>3, <1>b DEF Targeted, GrowsBy
    <3>2. slots'[targets[i].idx] = slots[targets[i].idx]
      BY <3>1, <1>3 DEF GrowsBy
    <3>3. nComputed'[q] = nComputed[q]
      BY <3>1, <1>3, <1>a DEF GrowsBy
    <3> QED BY <3>1, <3>2, <3>3, <2>1, <2>2, <1>3, <1>a DEF TargetInv
  <2>3. CASE targets' = targets
    BY <2>2, <2>3, <1>a, <1>b DEF TargetInv
  <2>4. CASE TargetAdded(r, k)
    <3>0. PICK n : n = Len(targets) + 1
      OBVIOUS
    <3>1. /\ DOMAIN targets' = 1..n /\ \A i \in DOMAIN targets : targets'[i] = targets[i]
          /\ targets'[n].req = r /\ targets'[n].idx = Len(slots) + k
          /\ nComputed'[r] = Full(r) /\ k > 0
      BY <2>4, <3>0 DEF TargetAdded
    <3>2. \A i \in 1..n : i \in DOMAIN targets \/ i = n
      BY <2>4, <3>0 DEF TargetAdded
    <3>3. LET b == slots'[targets'[n].idx]
          IN  b.seq = seqId'[r] /\ b.pos + 1 = Full(r)'
      <4>1. k \in 1..k
        BY <3>1
      <4>2. /\ slots'[Len(slots) + k].seq = seqId[r]
            /\ slots'[Len(slots) + k].pos = nComputed[r] + (k - 1)
            /\ nComputed'[r] = nComputed[r] + k
        BY <4>1, <1>3 DEF GrowsBy
      <4>3. nComputed[r] \in Nat /\ (nComputed[r] + (k - 1)) + 1 = nComputed[r] + k
        BY <1>a, RequestTypes
      <4> QED BY <3>1, <4>2, <4>3, <2>1, <1>3
    <3>4. nComputed'[r] = Full(r)'
      BY <3>1, <2>1
    <3> QED BY <3>1, <3>2, <3>3, <3>4, <2>2, <1>a, <1>b DEF TargetInv
  <2> QED BY <2>3, <2>4, <1>3
<1>4. ASSUME targets # << >>, targets' = Tail(targets), UNCHANGED slots,
             \A q \in Active \ {Head(targets).req} :
                /\ seqId'[q] = seqId[q] /\ nComputed'[q] = nComputed[q]
                /\ shape'[q] = shape[q] /\ output'[q] = output[q]
      PROVE  TargetInv'
  <2>1. \A q \in Active \ {Head(targets).req} : Full(q)' = Full(q)
    BY <1>4, SameContext
  <2>2. \A i \in DOMAIN targets' : /\ i + 1 \in DOMAIN targets
                                   /\ targets'[i] = targets[i + 1]
                                   /\ targets'[i].req \in Active \ {Head(targets).req}
    BY <1>4, <1>b, NextTarget
  <2> QED BY <1>4, <2>1, <2>2, <1>a DEF TargetInv
<1>5. CASE SubmitCheck
  BY <1>5, <1>1, <1>a, SubmitEffect DEF requestVars, threadVars, batchVars
<1>6. ASSUME NEW r \in Requests, Preempt(r) PROVE TargetInv'
  <2>1. pc = "preempt" /\ targets' = targets
    BY <1>6, PreemptEffect
  <2> QED BY <2>1, <1>2 DEF IInv, ThreadConsistent
<1>7. ASSUME NEW r \in Requests, Admit(r) PROVE TargetInv'
  <2>1. /\ r \notin Active /\ UNCHANGED <<targets, slots, shape, output>>
        /\ \A q \in Active : seqId'[q] = seqId[q] /\ nComputed'[q] = nComputed[q]
    BY <1>7, <1>a, AdmitEffect DEF CInv
  <2> QED BY <2>1, <1>1
<1>8. ASSUME NEW r \in Requests, AddDecodeSlot(r) PROVE TargetInv'
  BY <1>8, <1>3, AddEffect DEF schedulerVars
<1>9. CASE PrefillChunk
  <2>0. PICK c : c = cur
    OBVIOUS
  <2> QED BY <1>9, <2>0, <1>3, ChunkEffect
<1>10. CASE AdvanceToken
  <2>0. PICK r : r = Head(targets).req
    OBVIOUS
  <2> QED BY <1>10, <2>0, <1>4, <1>a, AdvanceEffect
<1>11. CASE AdvanceEos
  BY <1>11, <1>4 DEF AdvanceEos, schedulerVars, requestVars
<1>12. CASE Drain
  <2>1. pc = "loop" /\ targets' = targets
    BY <1>12 DEF Drain, batchVars
  <2> QED BY <2>1, <1>2 DEF IInv, ThreadConsistent
<1> QED
  <2>1. CASE DecodeFails \/ StepDone \/ AdvanceFails
    BY <2>1, <1>2 DEF DecodeFails, StepDone, AdvanceFails, LeaveStep
  <2>2. CASE FillDone
    <3>1. \/ targets' = << >>
          \/ UNCHANGED <<targets, slots, seqId, nComputed, shape, output>>
      BY <2>2 DEF FillDone, LeaveStep, batchVars, schedulerVars, requestVars
    <3> QED BY <3>1, <1>1, <1>2
  <2>3. ASSUME NEW r \in Requests, MissingToken(r) PROVE TargetInv'
    BY <2>3, <1>2 DEF MissingToken, LeaveStep
  <2>4. CASE \/ SubmitAppend \/ Stop \/ Tick \/ StartStep \/ NoPreemption
             \/ SnapshotDone \/ Decode \/ Retire \/ FailNext \/ FailDone
    <3>1. UNCHANGED <<targets, slots, seqId, nComputed, shape, output>>
      BY <2>4 DEF SubmitAppend, Stop, Tick, StartStep, NoPreemption, SnapshotDone,
         Decode, Retire, FailNext, FailDone, schedulerVars, requestVars,
         threadVars, batchVars
    <3> QED BY <3>1, <1>1
  <2>5. ASSUME NEW r \in Requests, ContinuePrefill(r) \/ SkipPrefilling(r)
        PROVE  TargetInv'
    <3>1. UNCHANGED <<targets, slots, seqId, nComputed, shape, output>>
      BY <2>5 DEF ContinuePrefill, SkipPrefilling, schedulerVars, requestVars, batchVars
    <3> QED BY <3>1, <1>1
  <2>6. CASE UNCHANGED vars
    <3>1. UNCHANGED <<targets, slots, seqId, nComputed, shape, output>>
      BY <2>6 DEF vars, schedulerVars, requestVars, threadVars, batchVars
    <3> QED BY <3>1, <1>1
  <2> QED BY <2>1, <2>2, <2>3, <2>4, <2>5, <2>6, <1>5, <1>6, <1>7, <1>8, <1>9,
         <1>10, <1>11, <1>12 DEF Next, Environment, Thread

(***************************************************************************)
(* The pending tokens.  What happens to them once an iteration has failed  *)
(* does not matter, since no active request survives it.                   *)
(***************************************************************************)
LEMMA PendingInductive ==
    ASSUME IInv, CInv, [Next]_vars
    PROVE  PendingInv'
<1>a. /\ PendingInv /\ TypeOK /\ Active \subseteq Requests
      /\ DOMAIN pending \subseteq Active
  BY ActiveRequests DEF CInv, IInv, PrefillInv
<1>1. CASE Failing'
  BY <1>1 DEF PendingInv
<1>2. ASSUME ~ Failing, UNCHANGED <<pending, targets>>,
             \A q \in DOMAIN pending : ~ Leaving(q),
             \A q \in Active : /\ nComputed'[q] = nComputed[q]
                               /\ shape'[q] = shape[q] /\ output'[q] = output[q]
      PROVE  PendingInv'
  <2>1. \A q \in Active : Full(q)' = Full(q)
    BY <1>2, SameContext
  <2>2. Targeted' = Targeted
    BY <1>2 DEF Targeted
  <2> QED BY <1>2, <2>1, <2>2, <1>a DEF PendingInv
<1>3. ASSUME NEW r \in Active, NEW k \in Nat, GrowsBy(r, k), ~ Failing,
             \A q \in DOMAIN pending : ~ Leaving(q),
             \/ TargetAdded(r, k)
             \/ targets' = targets /\ r \notin DOMAIN pending,
             UNCHANGED <<shape, output, pending>>
      PROVE  PendingInv'
  <2>1. \A q \in Active : Full(q)' = Full(q)
    BY <1>3, SameContext
  <2>2. \A q \in Active \ {r} : nComputed'[q] = nComputed[q]
    BY <1>3, <1>a DEF GrowsBy
  <2>3. Targeted \subseteq Targeted'
    <3>1. CASE targets' = targets
      BY <3>1 DEF Targeted
    <3>2. CASE TargetAdded(r, k)
      <4>1. \A i \in DOMAIN targets : i \in DOMAIN targets' /\ targets'[i] = targets[i]
        BY <3>2 DEF TargetAdded
      <4> QED BY <4>1 DEF Targeted
    <3> QED BY <3>1, <3>2, <1>3
  <2>4. r \in Targeted' \/ r \notin DOMAIN pending
    <3>1. CASE TargetAdded(r, k)
      <4>1. PICK n : n = Len(targets) + 1
        OBVIOUS
      <4>2. n \in DOMAIN targets' /\ targets'[n].req = r
        BY <3>1, <4>1 DEF TargetAdded
      <4> QED BY <4>2 DEF Targeted
    <3> QED BY <3>1, <1>3
  <2>5. \A q \in DOMAIN pending :
           \/ q \in Targeted
           \/ pending[q] = <<q, nComputed[q]>> /\ nComputed[q] + 1 = Full(q)
    BY <1>3, <1>a DEF PendingInv
  <2> QED BY <2>1, <2>2, <2>3, <2>4, <2>5, <1>3, <1>a DEF PendingInv
<1>4. CASE SubmitCheck
  <2>1. /\ UNCHANGED <<pending, targets, nComputed, output, pc, cur, reason>>
        /\ \A q \in Active : shape'[q] = shape[q]
    BY <1>4, <1>a, SubmitEffect DEF requestVars, dictVars, threadVars, batchVars
  <2>2. \A q \in Active : Full(q)' = Full(q)
    BY <2>1, SameContext
  <2>3. /\ Targeted' = Targeted /\ (Failing' <=> Failing)
        /\ \A q \in Active : Leaving(q)' <=> Leaving(q)
    BY <2>1 DEF Targeted, Failing, Leaving
  <2> QED BY <2>1, <2>2, <2>3, <1>a DEF PendingInv
<1>5. CASE UNCHANGED <<pending, targets, nComputed, output, shape, pc, cur, reason>>
  <2>1. \A q \in Active : Full(q)' = Full(q)
    BY <1>5, SameContext
  <2>2. /\ Targeted' = Targeted /\ (Failing' <=> Failing)
        /\ \A q \in Active : Leaving(q)' <=> Leaving(q)
    BY <1>5 DEF Targeted, Failing, Leaving
  <2> QED BY <1>5, <2>1, <2>2, <1>a DEF PendingInv
<1>6. ASSUME NEW r \in Requests, Preempt(r) PROVE PendingInv'
  <2>1. /\ pc = "preempt" /\ pending' = Pop(pending, r) /\ UNCHANGED <<shape, output, targets>>
        /\ \A q \in Active \ {r} : nComputed'[q] = nComputed[q]
    BY <1>6, <1>a, PreemptEffect
  <2>2. \A q \in Active : Full(q)' = Full(q)
    BY <2>1, SameContext
  <2>3. \A q \in DOMAIN pending :
           \/ q \in Targeted
           \/ pending[q] = <<q, nComputed[q]>> /\ nComputed[q] + 1 = Full(q)
    BY <2>1, <1>a DEF PendingInv, Failing, Leaving
  <2>4. Targeted' = Targeted
    BY <2>1 DEF Targeted
  <2> QED BY <2>1, <2>2, <2>3, <2>4, <1>a DEF PendingInv, Pop
<1>7. ASSUME NEW r \in Requests, Admit(r) PROVE PendingInv'
  <2>1. /\ r \notin Active /\ pc = "fill"
        /\ UNCHANGED <<targets, shape, output, pending>>
        /\ \A q \in Active : nComputed'[q] = nComputed[q]
    BY <1>7, <1>a, AdmitEffect DEF CInv
  <2> QED BY <2>1, <1>2 DEF Failing, Leaving
<1>8. ASSUME NEW r \in Requests, AddDecodeSlot(r) PROVE PendingInv'
  <2>1. /\ r \in Active /\ pc = "snapshot" /\ GrowsBy(r, 1) /\ TargetAdded(r, 1)
        /\ UNCHANGED <<shape, output, pending>>
    BY <1>8, AddEffect DEF schedulerVars, dictVars
  <2> QED BY <2>1, <1>3 DEF Failing, Leaving
<1>9. CASE PrefillChunk
  <2>0. PICK c : c = cur
    OBVIOUS
  <2>1. /\ c \in Active /\ pc = "chunk" /\ c \notin DOMAIN pending
        /\ \E k \in Nat : GrowsBy(c, k) /\ (TargetAdded(c, k) \/ targets' = targets)
        /\ UNCHANGED <<shape, output, pending>>
    BY <1>9, <2>0, ChunkEffect DEF dictVars
  <2> QED BY <2>1, <1>3 DEF Failing, Leaving
<1>10. CASE AdvanceEos
  <2>0. PICK r : r = Head(targets).req
    OBVIOUS
  <2>1. /\ pc = "advance" /\ cur' = r /\ pc' = "retire" /\ Targeted = Targeted' \cup {r}
        /\ UNCHANGED <<pending, nComputed, output, shape>>
    BY <1>10, <2>0, NextTarget DEF AdvanceEos, dictVars, requestVars, schedulerVars
  <2>2. \A q \in Active : Full(q)' = Full(q)
    BY <2>1, SameContext
  <2>3. Leaving(r)' /\ ~ Failing /\ \A q \in Active : ~ Leaving(q)
    BY <2>1 DEF Leaving, Failing
  <2> QED BY <2>1, <2>2, <2>3, <1>a DEF PendingInv
<1>11. CASE AdvanceToken
  <2>0. PICK r : r = Head(targets).req
    OBVIOUS
  <2>1. /\ r \in Active /\ r \in Requests /\ pc = "advance" /\ Targeted = Targeted' \cup {r}
        /\ \/ pc' = "retire" /\ cur' = r /\ pending' = pending
           \/ pending' = Put(pending, r, <<r, Full(r)>>)
        /\ \A q \in Active \ {r} : output'[q] = output[q]
        /\ output'[r] = Append(output[r], <<r, Full(r)>>)
        /\ UNCHANGED <<nComputed, shape>>
    BY <1>11, <2>0, <1>a, AdvanceEffect, NextTarget
  <2>2. \A q \in Active \ {r} : Full(q)' = Full(q)
    BY <2>1, SameContext
  <2>3. ~ Failing /\ \A q \in Active : ~ Leaving(q)
    BY <2>1 DEF Leaving, Failing
  <2>4. nComputed[r] = Full(r)
    <3>1. 1 \in DOMAIN targets /\ targets[1].req = r
      BY <1>11, <2>0, NextTarget DEF AdvanceToken
    <3> QED BY <3>1 DEF CInv, TargetInv
  <2>5. Full(r)' = Full(r) + 1
    <3>1. /\ output[r] \in Seq(Tokens) /\ Len(output[r]) \in Nat
          /\ PromptLen(r) \in Nat /\ Full(r) \in Nat
      BY <2>1, <1>a, RequestTypes
    <3>2. <<r, Full(r)>> \in Tokens
      BY <2>1, <3>1 DEF Tokens
    <3>3. Len(output'[r]) = Len(output[r]) + 1
      BY <2>1, <3>1, <3>2, AppendProperties
    <3>4. PromptLen(r)' = PromptLen(r)
      BY <2>1 DEF PromptLen
    <3> QED BY <3>1, <3>3, <3>4 DEF Full
  <2>6. ASSUME NEW q \in DOMAIN pending, q # r, q \notin Targeted'
        PROVE  /\ pending[q] = <<q, nComputed[q]>> /\ nComputed[q] + 1 = Full(q)'
    BY <2>1, <2>2, <2>3, <2>6, <1>a DEF PendingInv
  <2>7. CASE pc' = "retire" /\ cur' = r /\ pending' = pending
    <3>1. Leaving(r)'
      BY <2>7 DEF Leaving
    <3> QED BY <2>1, <2>6, <2>7, <3>1 DEF PendingInv
  <2>8. CASE pending' = Put(pending, r, <<r, Full(r)>>)
    BY <2>1, <2>4, <2>5, <2>6, <2>8 DEF PendingInv, Put
  <2> QED BY <2>1, <2>7, <2>8
<1>12. CASE Retire
  <2>0. PICK c : c = cur
    OBVIOUS
  <2>1. /\ pc = "retire" /\ pc' = IF reason = "error" THEN "failAll" ELSE "advance"
        /\ pending' = Pop(pending, c) /\ UNCHANGED <<shape, output, nComputed, targets>>
    BY <1>12, <2>0, RetireEffect DEF requestVars
  <2>2. \A q \in Active : Full(q)' = Full(q)
    BY <2>1, SameContext
  <2>3. CASE reason # "error"
    <3>1. ~ Failing /\ \A q \in Active \ {c} : ~ Leaving(q)
      BY <2>0, <2>1, <2>3 DEF Failing, Leaving
    <3>2. Targeted' = Targeted
      BY <2>1 DEF Targeted
    <3> QED BY <2>1, <2>2, <3>1, <3>2, <1>a DEF PendingInv, Pop
  <2>4. CASE reason = "error"
    BY <2>1, <2>4, <1>1 DEF Failing
  <2> QED BY <2>3, <2>4
<1>13. CASE FailDone
  <2>1. active = << >> /\ pending' = pending
    BY <1>13 DEF FailDone, dictVars
  <2>2. Active = {}
    BY <2>1 DEF Active, ToSet
  <2> QED BY <2>1, <2>2, <1>a DEF PendingInv
<1>14. CASE Drain
  <2>1. pending' = [r \in DOMAIN pending \ Active |-> pending[r]]
    BY <1>14 DEF Drain, Active
  <2> QED BY <2>1, <1>a DEF PendingInv
<1>15. CASE FillDone
  <2>1. /\ pc = "fill" /\ UNCHANGED <<pending, nComputed, output, shape>>
        /\ targets' = targets \/ (slots = << >> /\ targets' = << >>)
    BY <1>15 DEF FillDone, LeaveStep, batchVars, dictVars, requestVars, schedulerVars
  <2>2. slots = << >> => targets = << >>
    <3>1. slots = << >> => DOMAIN targets = {}
      BY DEF IInv, ThreadConsistent
    <3>2. targets \in Seq(Target)
      BY DEF IInv, TypeOK, ThreadType
    <3>3. Len(targets) \in Nat /\ DOMAIN targets = 1..Len(targets)
      BY <3>2, LenProperties
    <3>4. DOMAIN targets = {} => Len(targets) = 0
      BY <3>3
    <3> QED BY <3>1, <3>2, <3>4, EmptySeq
  <2> QED BY <2>1, <2>2, <1>2 DEF Failing, Leaving
<1> QED
  <2>1. CASE DecodeFails \/ AdvanceFails \/ FailNext
    BY <2>1, <1>1 DEF DecodeFails, AdvanceFails, FailNext, LeaveStep, Failing
  <2>2. ASSUME NEW r \in Requests, MissingToken(r) PROVE PendingInv'
    BY <2>2, <1>1 DEF MissingToken, LeaveStep, Failing
  <2>3. CASE StartStep \/ NoPreemption \/ SnapshotDone \/ Decode \/ StepDone
    <3>1. /\ UNCHANGED <<pending, targets, nComputed, shape, output>>
          /\ pc \notin {"retire", "failAll"}
      BY <2>3 DEF StartStep, NoPreemption, SnapshotDone, Decode, StepDone, LeaveStep,
         schedulerVars, requestVars, dictVars, batchVars
    <3> QED BY <3>1, <1>2 DEF Failing, Leaving
  <2>4. ASSUME NEW r \in Requests, ContinuePrefill(r) \/ SkipPrefilling(r)
        PROVE  PendingInv'
    <3>1. /\ UNCHANGED <<pending, targets, nComputed, shape, output>>
          /\ pc \notin {"retire", "failAll"}
      BY <2>4 DEF ContinuePrefill, SkipPrefilling, Visiting, schedulerVars,
         requestVars, dictVars, batchVars
    <3> QED BY <3>1, <1>2 DEF Failing, Leaving
  <2>5. CASE SubmitAppend \/ Stop \/ Tick \/ UNCHANGED vars
    <3>1. UNCHANGED <<pending, targets, nComputed, output, shape, pc, cur, reason>>
      BY <2>5 DEF SubmitAppend, Stop, Tick, vars, schedulerVars, requestVars,
         dictVars, threadVars, batchVars
    <3> QED BY <3>1, <1>5
  <2> QED BY <2>1, <2>2, <2>3, <2>4, <2>5, <1>4, <1>6, <1>7, <1>8, <1>9, <1>10,
         <1>11, <1>12, <1>13, <1>14, <1>15 DEF Next, Environment, Thread

(***************************************************************************)
(* The batch.                                                              *)
(***************************************************************************)
LEMMA BatchInductive ==
    ASSUME IInv, CInv, [Next]_vars
    PROVE  BatchInv'
<1>a. BatchInv /\ OutputInv /\ TypeOK /\ Active \subseteq Requests
  BY ActiveRequests DEF CInv, IInv
<1>1. CASE slots' = << >>
  BY <1>1 DEF BatchInv
<1>2. CASE pc' = "advance" \/ (pc' = "retire" /\ reason' # "error")
  BY <1>2 DEF BatchInv, Building, Failing
<1>3. ASSUME UNCHANGED slots, Building, pc' \in {"snapshot", "fill", "chunk", "decode"},
             \A q \in Active : /\ q \in Active'
                               /\ seqId'[q] = seqId[q] /\ nComputed'[q] = nComputed[q]
      PROVE  BatchInv'
  <2>1. ~ Failing' /\ pc' \notin {"loop", "preempt", "exited"}
    BY <1>3 DEF Failing
  <2> QED BY <1>3, <2>1, <1>a DEF BatchInv
<1>4. ASSUME NEW r \in Active, NEW k \in Nat, GrowsBy(r, k), Building,
             pc' \in {"snapshot", "fill"}, UNCHANGED <<seqId, active>>
      PROVE  BatchInv'
  <2>1. ~ Failing' /\ pc' \notin {"loop", "preempt", "exited"} /\ Active' = Active
    BY <1>4 DEF Failing, Active
  <2>2. nComputed[r] \in Nat /\ nComputed'[r] = nComputed[r] + k
    BY <1>4, <1>a, RequestTypes DEF GrowsBy
  <2>3. \A q \in Active : /\ nComputed'[q] \in Nat /\ nComputed[q] \in Nat
                          /\ nComputed[q] <= nComputed'[q]
    <3>1. \A q \in Active : nComputed[q] \in Nat
      BY <1>a, RequestTypes
    <3> QED BY <1>4, <1>a, <2>2, <3>1 DEF GrowsBy
  <2> SUFFICES ASSUME NEW i \in DOMAIN slots'
               PROVE  \E q \in Active : /\ slots'[i].seq = seqId[q]
                                        /\ slots'[i].pos < nComputed'[q]
                                        /\ slots'[i].tok = <<q, slots'[i].pos>>
    BY <1>4, <2>1 DEF BatchInv
  <2>4. CASE i \in 1..Len(slots)
    <3>1. i \in DOMAIN slots /\ slots'[i] = slots[i]
      BY <1>4, <2>4 DEF GrowsBy
    <3>2. PICK q \in Active : /\ slots[i].seq = seqId[q] /\ slots[i].pos < nComputed[q]
                              /\ slots[i].tok = <<q, slots[i].pos>>
      BY <1>4, <3>1, <1>a DEF BatchInv
    <3>3. slots[i].pos \in Nat
      <4>1. slots[i] \in BatchSlot
        BY <3>1, <1>a, ElementOfSeq, LenProperties DEF TypeOK, ThreadType
      <4> QED BY <4>1 DEF BatchSlot
    <3>4. slots[i].pos < nComputed'[q]
      BY <2>3, <3>2, <3>3
    <3> QED BY <3>1, <3>2, <3>4
  <2>5. CASE ~ (i \in 1..Len(slots))
    <3>1. PICK j \in 1..k : i = Len(slots) + j
      <4>1. Len(slots) \in Nat /\ i \in 1..(Len(slots) + k)
        BY <1>4 DEF GrowsBy
      <4>2. i - Len(slots) \in 1..k /\ i = Len(slots) + (i - Len(slots))
        BY <4>1, <2>5
      <4> QED BY <4>2
    <3>2. /\ slots'[i].seq = seqId[r] /\ slots'[i].pos = nComputed[r] + (j - 1)
          /\ slots'[i].tok = <<r, nComputed[r] + (j - 1)>>
      BY <1>4, <3>1 DEF GrowsBy
    <3>3. nComputed[r] + (j - 1) < nComputed'[r]
      BY <2>2, <3>1
    <3> QED BY <3>2, <3>3
  <2> QED BY <2>4, <2>5
<1>5. CASE SubmitCheck \/ SubmitAppend \/ Stop \/ Tick \/ UNCHANGED vars
  <2>1. UNCHANGED <<slots, active, seqId, nComputed, pc, reason>>
    BY <1>5 DEF SubmitCheck, SubmitAppend, Stop, Tick, vars, requestVars,
       threadVars, batchVars
  <2> QED BY <2>1, <1>a DEF BatchInv, Building, Failing, Active
<1>6. ASSUME NEW r \in Requests, Preempt(r) PROVE BatchInv'
  <2>1. pc = "preempt" /\ slots' = slots
    BY <1>6, PreemptEffect
  <2> QED BY <2>1, <1>1, <1>a DEF BatchInv
<1>7. ASSUME NEW r \in Requests, Admit(r) PROVE BatchInv'
  <2>1. /\ r \notin Active /\ Active' = Active \cup {r} /\ slots' = slots
        /\ pc = "fill" /\ pc' = "chunk"
        /\ \A q \in Active : seqId'[q] = seqId[q] /\ nComputed'[q] = nComputed[q]
    BY <1>7, <1>a, AdmitEffect
  <2> QED BY <2>1, <1>3 DEF Building
<1>8. ASSUME NEW r \in Requests, AddDecodeSlot(r) PROVE BatchInv'
  <2>1. /\ r \in Active /\ pc = "snapshot" /\ pc' = "snapshot" /\ GrowsBy(r, 1)
        /\ UNCHANGED <<seqId, active>>
    BY <1>8, AddEffect
  <2> QED BY <2>1, <1>4 DEF Building
<1>9. CASE PrefillChunk
  <2>0. PICK c : c = cur
    OBVIOUS
  <2>1. /\ c \in Active /\ pc = "chunk" /\ pc' = "fill"
        /\ \E k \in Nat : GrowsBy(c, k)
        /\ UNCHANGED <<seqId, active>>
    BY <1>9, <2>0, ChunkEffect
  <2> QED BY <2>1, <1>4 DEF Building
<1>10. CASE Retire
  <2>1. /\ pc = "retire" /\ pc' = IF reason = "error" THEN "failAll" ELSE "advance"
        /\ slots' = slots
    BY <1>10, RetireEffect
  <2> QED BY <2>1, <1>1, <1>2, <1>a DEF BatchInv, Failing
<1> QED
  <2>1. CASE StartStep \/ NoPreemption \/ FailNext \/ FailDone \/ Drain
    <3>1. pc \in {"loop", "preempt", "failAll"} /\ slots' = slots
      BY <2>1 DEF StartStep, NoPreemption, FailNext, FailDone, Drain, batchVars
    <3> QED BY <3>1, <1>1, <1>a DEF BatchInv, Failing
  <2>2. CASE DecodeFails \/ StepDone \/ AdvanceFails
    BY <2>2, <1>1 DEF DecodeFails, StepDone, AdvanceFails, LeaveStep
  <2>3. ASSUME NEW r \in Requests, MissingToken(r) PROVE BatchInv'
    BY <2>3, <1>1 DEF MissingToken, LeaveStep
  <2>4. CASE Decode \/ AdvanceEos \/ AdvanceToken
    <3>1. CASE AdvanceToken
      BY <3>1, <1>2, AdvanceEffect
    <3> QED BY <2>4, <3>1, <1>2 DEF Decode, AdvanceEos
  <2>5. CASE SnapshotDone \/ FillDone
    <3>1. \/ slots' = << >>
          \/ /\ UNCHANGED <<slots, active, seqId, nComputed>>
             /\ pc \in {"snapshot", "fill"} /\ pc' \in {"fill", "decode"}
      BY <2>5 DEF SnapshotDone, FillDone, LeaveStep, batchVars, requestVars
    <3> QED BY <3>1, <1>1, <1>3 DEF Building, Active
  <2>6. ASSUME NEW r \in Requests, ContinuePrefill(r) \/ SkipPrefilling(r)
        PROVE  BatchInv'
    <3>1. /\ UNCHANGED <<slots, active, seqId, nComputed>>
          /\ pc \in {"snapshot", "fill"} /\ pc' \in {"snapshot", "chunk"}
      BY <2>6 DEF ContinuePrefill, SkipPrefilling, Visiting, batchVars, requestVars
    <3> QED BY <3>1, <1>3 DEF Building, Active
  <2> QED BY <2>1, <2>2, <2>3, <2>4, <2>5, <2>6, <1>5, <1>6, <1>7, <1>8, <1>9,
         <1>10 DEF Next, Environment, Thread

(***************************************************************************)
(* What the decode call leaves in the cache: each active request has its   *)
(* own tokens, at all the positions that count as computed, and a free     *)
(* slot is still empty.                                                    *)
(***************************************************************************)
LEMMA DecodeEffect ==
    ASSUME IInv, CInv, pc = "decode"
    PROVE  /\ \A r \in Active : \A p \in DOMAIN AfterDecode[seqId[r]] :
                 p < nComputed[r] /\ AfterDecode[seqId[r]][p] = <<r, p>>
           /\ \A r \in Active : \A p \in 0..(nComputed[r] - 1) :
                 p \in DOMAIN AfterDecode[seqId[r]]
           /\ \A s \in ToSet(freeSlots) : AfterDecode[s] = << >>
<1> DEFINE D(s) == DOMAIN kv[s] \cup {slots[i].pos : i \in Written(s)}
           V(s, p) == IF \E i \in Written(s) : slots[i].pos = p
                      THEN slots[CHOOSE i \in Written(s) : slots[i].pos = p].tok
                      ELSE kv[s][p]
<1>1. \A s \in Slots : /\ DOMAIN AfterDecode[s] = D(s)
                       /\ \A p \in D(s) : AfterDecode[s][p] = V(s, p)
  BY DEF AfterDecode
<1>2. \A i \in DOMAIN slots : \E q \in Active :
         /\ slots[i].seq = seqId[q] /\ slots[i].pos < nComputed[q]
         /\ slots[i].tok = <<q, slots[i].pos>>
  BY DEF CInv, BatchInv, Building
<1>3. /\ \A q \in Active : seqId[q] \in Slots \ ToSet(freeSlots)
      /\ \A q, r \in Active : seqId[q] = seqId[r] => q = r
  BY DEF IInv, SlotsConserved
<1>4. ASSUME NEW r \in Active, NEW i \in Written(seqId[r])
      PROVE  slots[i].pos < nComputed[r] /\ slots[i].tok = <<r, slots[i].pos>>
  BY <1>2, <1>3, <1>4 DEF Written
<1>5. ASSUME NEW r \in Active, NEW p \in DOMAIN AfterDecode[seqId[r]]
      PROVE  p < nComputed[r] /\ AfterDecode[seqId[r]][p] = <<r, p>>
  <2>1. p \in D(seqId[r]) /\ AfterDecode[seqId[r]][p] = V(seqId[r], p)
    BY <1>1, <1>3
  <2>2. CASE \E i \in Written(seqId[r]) : slots[i].pos = p
    <3>1. PICK i \in Written(seqId[r]) :
             slots[i].pos = p /\ V(seqId[r], p) = slots[i].tok
      BY <2>2
    <3> QED BY <3>1, <2>1, <1>4
  <2>3. CASE ~ \E i \in Written(seqId[r]) : slots[i].pos = p
    <3>1. p \in DOMAIN kv[seqId[r]] /\ V(seqId[r], p) = kv[seqId[r]][p]
      BY <2>1, <2>3
    <3> QED BY <3>1, <2>1 DEF CInv, CacheOwned
  <2> QED BY <2>2, <2>3
<1>6. ASSUME NEW r \in Active, NEW p \in 0..(nComputed[r] - 1)
      PROVE  p \in DOMAIN AfterDecode[seqId[r]]
  <2>1. p \in DOMAIN kv[seqId[r]] \/ InBatch(r, p)
    BY DEF CInv, CoverInv, Building
  <2>2. InBatch(r, p) => \E i \in Written(seqId[r]) : slots[i].pos = p
    BY DEF InBatch, Written
  <2>3. p \in D(seqId[r])
    BY <2>1, <2>2
  <2> QED BY <2>3, <1>1, <1>3
<1>7. ASSUME NEW s \in ToSet(freeSlots)
      PROVE  AfterDecode[s] = << >>
  <2>1. s \in Slots
    <3>1. freeSlots \in Seq(Slots)
      BY DEF IInv, TypeOK, QueueType
    <3> QED BY <3>1, ElementOfSeq, LenProperties DEF ToSet
  <2>2. Written(s) = {}
    BY <1>2, <1>3 DEF Written
  <2>3. kv[s] = << >>
    BY DEF CInv, CacheOwned
  <2>4. D(s) = {}
    BY <2>2, <2>3
  <2>5. AfterDecode[s] = [p \in D(s) |-> V(s, p)]
    BY <2>1 DEF AfterDecode
  <2> HIDE DEF D, V
  <2>6. AfterDecode[s] \in [1..0 -> Tokens]
    BY <2>4, <2>5
  <2>7. AfterDecode[s] \in Seq(Tokens) /\ Len(AfterDecode[s]) = 0
    BY <2>6
  <2> QED BY <2>7, EmptySeq
<1> QED BY <1>5, <1>6, <1>7

(***************************************************************************)
(* The cache belongs to its owner.  A slot that is given back is emptied,  *)
(* and a request that is admitted finds in it only what the prefix cache   *)
(* has put there for it.                                                   *)
(***************************************************************************)
LEMMA CacheInductive ==
    ASSUME IInv, CInv, [Next]_vars
    PROVE  CacheOwned'
<1>a. CacheOwned /\ OutputInv /\ TypeOK /\ Active \subseteq Requests /\ DOMAIN kv = Slots
  BY ActiveRequests DEF CInv, IInv, TypeOK, DataType
<1>b. /\ \A q \in Active : seqId[q] \in Slots \ ToSet(freeSlots)
      /\ \A q, r \in Active : seqId[q] = seqId[r] => q = r
  BY DEF IInv, SlotsConserved
<1>1. CASE UNCHANGED <<kv, freeSlots, active, seqId, nComputed>>
  BY <1>1, <1>a DEF CacheOwned, Active
<1>2. ASSUME NEW r \in Active, Active' = Active \ {r},
             kv' = [kv EXCEPT ![seqId[r]] = << >>],
             ToSet(freeSlots') = ToSet(freeSlots) \cup {seqId[r]},
             \A q \in Active \ {r} : seqId'[q] = seqId[q] /\ nComputed'[q] = nComputed[q]
      PROVE  CacheOwned'
  <2>1. kv'[seqId[r]] = << >> /\ \A s \in Slots \ {seqId[r]} : kv'[s] = kv[s]
    BY <1>2, <1>a, <1>b
  <2>2. \A s \in ToSet(freeSlots) : s \in Slots
    <3>1. freeSlots \in Seq(Slots)
      BY <1>a DEF TypeOK, QueueType
    <3> QED BY <3>1, ElementOfSeq, LenProperties DEF ToSet
  <2>3. \A s \in ToSet(freeSlots') : kv'[s] = << >>
    BY <1>2, <2>1, <2>2, <1>a DEF CacheOwned
  <2>4. \A q \in Active' : seqId'[q] = seqId[q] /\ kv'[seqId[q]] = kv[seqId[q]]
    BY <1>2, <2>1, <1>b
  <2>5. ASSUME NEW q \in Active', NEW p \in DOMAIN kv'[seqId'[q]]
        PROVE  p < nComputed'[q] /\ kv'[seqId'[q]][p] = <<q, p>>
    <3>1. /\ q \in Active /\ p \in DOMAIN kv[seqId[q]] /\ nComputed'[q] = nComputed[q]
          /\ kv'[seqId'[q]] = kv[seqId[q]]
      BY <2>4, <1>2
    <3> QED BY <3>1, <1>a DEF CacheOwned
  <2> QED BY <2>3, <2>5 DEF CacheOwned
<1>3. ASSUME NEW r \in Requests, Admit(r) PROVE CacheOwned'
  <2>0. PICK h, n : h = Head(freeSlots) /\ n = nComputed'[r]
    OBVIOUS
  <2>1. /\ r \notin Active /\ Active' = Active \cup {r}
        /\ h \in ToSet(freeSlots) /\ h \in Slots
        /\ ToSet(freeSlots') = ToSet(freeSlots) \ {h}
        /\ seqId'[r] = h /\ n \in 0..Full(r)
        /\ kv' = [kv EXCEPT ![h] = CachedPrefix(r, n)]
        /\ \A q \in Active : seqId'[q] = seqId[q] /\ nComputed'[q] = nComputed[q]
    BY <1>3, <1>a, <2>0, AdmitEffect
  <2>2. /\ Full(r) \in Nat
        /\ \A p \in 0..(Full(r) - 1) : ResumeTokens(r)[p + 1] = <<r, p>>
    BY <1>a, ResumeTokensExact, RequestTypes
  <2>3. /\ DOMAIN CachedPrefix(r, n) = 0..(n - 1)
        /\ \A p \in 0..(n - 1) : p < n /\ CachedPrefix(r, n)[p] = <<r, p>>
    <3>1. \A p \in 0..(n - 1) : p < n /\ p \in 0..(Full(r) - 1)
      BY <2>1, <2>2
    <3> QED BY <3>1, <2>2 DEF CachedPrefix
  <2>4. /\ kv'[h] = CachedPrefix(r, n)
        /\ \A s \in Slots \ {h} : kv'[s] = kv[s]
    BY <2>1, <1>a
  <2>5. \A s \in ToSet(freeSlots) : s \in Slots
    <3>1. freeSlots \in Seq(Slots)
      BY <1>a DEF TypeOK, QueueType
    <3> QED BY <3>1, ElementOfSeq, LenProperties DEF ToSet
  <2>6. \A s \in ToSet(freeSlots') : kv'[s] = << >>
    BY <2>1, <2>4, <2>5, <1>a DEF CacheOwned
  <2>7. \A q \in Active : kv'[seqId[q]] = kv[seqId[q]]
    BY <2>1, <2>4, <1>b
  <2>8. \A p \in DOMAIN kv'[seqId'[r]] :
           p < nComputed'[r] /\ kv'[seqId'[r]][p] = <<r, p>>
    BY <2>0, <2>1, <2>3, <2>4
  <2> QED BY <2>1, <2>6, <2>7, <2>8, <1>a DEF CacheOwned
<1>4. ASSUME NEW r \in Active, NEW k \in Nat, GrowsBy(r, k),
             UNCHANGED <<kv, freeSlots, active, seqId>>
      PROVE  CacheOwned'
  <2>1. nComputed[r] \in Nat /\ nComputed'[r] = nComputed[r] + k
    BY <1>4, <1>a, RequestTypes DEF GrowsBy
  <2>2. \A p \in DOMAIN kv[seqId[r]] : p \in Nat
    BY <1>a, <1>b DEF TypeOK, DataType, IsCache
  <2>3. \A p \in DOMAIN kv[seqId[r]] : p < nComputed'[r] /\ kv[seqId[r]][p] = <<r, p>>
    <3> SUFFICES ASSUME NEW p \in DOMAIN kv[seqId[r]]
                 PROVE  p < nComputed'[r] /\ kv[seqId[r]][p] = <<r, p>>
      OBVIOUS
    <3>1. p < nComputed[r] /\ kv[seqId[r]][p] = <<r, p>>
      BY <1>a DEF CacheOwned
    <3>2. p \in Nat
      BY <2>2
    <3>3. p < nComputed'[r]
      BY <3>1, <3>2, <2>1
    <3> QED BY <3>1, <3>3
  <2>4. \A q \in Active \ {r} : nComputed'[q] = nComputed[q]
    BY <1>4, <1>a DEF GrowsBy
  <2>5. Active' = Active
    BY <1>4 DEF Active
  <2> QED BY <1>4, <2>3, <2>4, <2>5, <1>a DEF CacheOwned
<1>5. ASSUME pc = "decode", kv' \in {kv, AfterDecode},
             UNCHANGED <<freeSlots, active, seqId, nComputed>>
      PROVE  CacheOwned'
  <2>1. CASE kv' = kv
    BY <1>5, <2>1, <1>1
  <2>2. CASE kv' = AfterDecode
    <3>1. Active' = Active
      BY <1>5 DEF Active
    <3> QED BY <1>5, <2>2, <3>1, DecodeEffect DEF CacheOwned
  <2> QED BY <1>5, <2>1, <2>2
<1>6. ASSUME NEW r \in Requests, Preempt(r) PROVE CacheOwned'
  BY <1>6, <1>2, <1>a, PreemptEffect
<1>7. CASE Retire
  BY <1>7, <1>2, <1>a, RetireEffect DEF requestVars
<1>8. ASSUME NEW r \in Requests, AddDecodeSlot(r) PROVE CacheOwned'
  BY <1>8, <1>4, AddEffect
<1>9. CASE PrefillChunk
  <2>0. PICK c : c = cur
    OBVIOUS
  <2> QED BY <1>9, <2>0, <1>4, ChunkEffect
<1>10. CASE Drain
  <2>1. /\ Active' = {}
        /\ kv' = [s \in Slots |-> IF \E q \in Active : seqId[q] = s THEN << >> ELSE kv[s]]
    BY <1>10 DEF Drain, Active, ToSet
  <2>2. \A s \in Slots : kv'[s] = << >>
    <3>1. \A s \in Slots : s \in ToSet(freeSlots) \/ \E q \in Active : seqId[q] = s
      BY DEF IInv, SlotsConserved
    <3> QED BY <3>1, <2>1, <1>a DEF CacheOwned
  <2>3. \A s \in ToSet(freeSlots') : s \in Slots
    <3>1. freeSlots' \in Seq(Slots)
      BY QueueTypeInductive DEF QueueType
    <3> QED BY <3>1, ElementOfSeq, LenProperties DEF ToSet
  <2> QED BY <2>1, <2>2, <2>3 DEF CacheOwned
<1> QED
  <2>1. CASE Decode \/ DecodeFails
    BY <2>1, <1>5 DEF Decode, DecodeFails, requestVars
  <2>2. CASE \/ Environment \/ StartStep \/ NoPreemption \/ SnapshotDone \/ FillDone
             \/ StepDone \/ AdvanceEos \/ AdvanceToken \/ AdvanceFails \/ FailNext
             \/ FailDone
    <3>1. UNCHANGED <<kv, freeSlots, active, seqId, nComputed>>
      BY <2>2 DEF Environment, SubmitCheck, SubmitAppend, Stop, Tick, StartStep,
         NoPreemption, SnapshotDone, FillDone, StepDone, AdvanceEos, AdvanceToken,
         AdvanceFails, FailNext, FailDone, requestVars
    <3> QED BY <3>1, <1>1
  <2>3. ASSUME NEW r \in Requests,
               ContinuePrefill(r) \/ SkipPrefilling(r) \/ MissingToken(r)
        PROVE  CacheOwned'
    <3>1. UNCHANGED <<kv, freeSlots, active, seqId, nComputed>>
      BY <2>3 DEF ContinuePrefill, SkipPrefilling, MissingToken, requestVars
    <3> QED BY <3>1, <1>1
  <2>4. CASE UNCHANGED vars
    BY <2>4, <1>1 DEF vars, requestVars
  <2> QED BY <2>1, <2>2, <2>3, <2>4, <1>3, <1>6, <1>7, <1>8, <1>9, <1>10
      DEF Next, Thread

(***************************************************************************)
(* What counts as computed is in the cache or on its way there.            *)
(***************************************************************************)
LEMMA CoverInductive ==
    ASSUME IInv, CInv, [Next]_vars
    PROVE  CoverInv'
<1>a. CoverInv /\ OutputInv /\ TypeOK /\ Active \subseteq Requests /\ DOMAIN kv = Slots
  BY ActiveRequests DEF CInv, IInv, TypeOK, DataType
<1>b. /\ \A q \in Active : seqId[q] \in Slots \ ToSet(freeSlots)
      /\ \A q, r \in Active : seqId[q] = seqId[r] => q = r
  BY DEF IInv, SlotsConserved
<1>1. ASSUME \A q \in Active' : /\ q \in Active
                                /\ seqId'[q] = seqId[q] /\ nComputed'[q] = nComputed[q]
                                /\ kv'[seqId[q]] = kv[seqId[q]],
             Building' => Sampling \/ (Building /\ UNCHANGED slots),
             Sampling' => Sampling
      PROVE  CoverInv'
  <2> SUFFICES ASSUME NEW q \in Active', NEW p \in 0..(nComputed'[q] - 1)
               PROVE  /\ Building' => p \in DOMAIN kv'[seqId'[q]] \/ InBatch(q, p)'
                      /\ Sampling' => p \in DOMAIN kv'[seqId'[q]]
    BY DEF CoverInv
  <2>1. /\ q \in Active /\ p \in 0..(nComputed[q] - 1)
        /\ kv'[seqId'[q]] = kv[seqId[q]] /\ seqId'[q] = seqId[q]
    BY <1>1
  <2>2. /\ Building => p \in DOMAIN kv[seqId[q]] \/ InBatch(q, p)
        /\ Sampling => p \in DOMAIN kv[seqId[q]]
    BY <2>1, <1>a DEF CoverInv
  <2>3. UNCHANGED slots => (InBatch(q, p)' <=> InBatch(q, p))
    BY <2>1 DEF InBatch
  <2> QED BY <2>1, <2>2, <2>3, <1>1
<1>2. CASE ~ Building' /\ ~ Sampling'
  BY <1>2 DEF CoverInv
<1>3. CASE Active' = {}
  BY <1>3 DEF CoverInv
<1>4. ASSUME NEW r \in Active, NEW k \in Nat, GrowsBy(r, k), Building, ~ Sampling',
             UNCHANGED <<kv, active, seqId>>
      PROVE  CoverInv'
  <2>1. nComputed[r] \in Nat /\ nComputed'[r] = nComputed[r] + k /\ Active' = Active
    BY <1>4, <1>a, RequestTypes DEF GrowsBy, Active
  <2> SUFFICES ASSUME NEW q \in Active, NEW p \in 0..(nComputed'[q] - 1)
               PROVE  p \in DOMAIN kv[seqId[q]] \/ InBatch(q, p)'
    BY <1>4, <2>1 DEF CoverInv
  <2>2. InBatch(q, p) => InBatch(q, p)'
    <3>1. \A i \in DOMAIN slots : i \in DOMAIN slots' /\ slots'[i] = slots[i]
      BY <1>4 DEF GrowsBy
    <3> QED BY <3>1, <1>4 DEF InBatch
  <2>3. CASE p \in 0..(nComputed[q] - 1)
    BY <2>2, <2>3, <1>4, <1>a DEF CoverInv
  <2>4. CASE ~ (p \in 0..(nComputed[q] - 1))
    <3>1. q = r
      BY <2>4, <1>4, <1>a DEF GrowsBy
    <3>2. PICK j \in 1..k : p = nComputed[r] + (j - 1)
      <4>1. (p - nComputed[r]) + 1 \in 1..k
            /\ p = nComputed[r] + (((p - nComputed[r]) + 1) - 1)
        BY <2>1, <2>4, <3>1
      <4> QED BY <4>1
    <3>3. /\ Len(slots) + j \in DOMAIN slots'
          /\ slots'[Len(slots) + j].seq = seqId[r] /\ slots'[Len(slots) + j].pos = p
      BY <1>4, <3>2 DEF GrowsBy
    <3> QED BY <3>1, <3>3, <1>4 DEF InBatch
  <2> QED BY <2>3, <2>4
<1>5. ASSUME NEW r \in Requests, Preempt(r) PROVE CoverInv'
  <2>1. /\ r \in Active /\ Active' = Active \ {r} /\ pc = "preempt" /\ pc' = "snapshot"
        /\ seqId[r] \in Slots /\ kv' = [kv EXCEPT ![seqId[r]] = << >>]
        /\ slots' = slots
        /\ \A q \in Active \ {r} : seqId'[q] = seqId[q] /\ nComputed'[q] = nComputed[q]
    BY <1>5, <1>a, PreemptEffect
  <2>2. \A q \in Active \ {r} : kv'[seqId[q]] = kv[seqId[q]]
    BY <2>1, <1>a, <1>b
  <2> QED BY <2>1, <2>2, <1>1 DEF Building, Sampling
<1>6. CASE Retire
  <2>0. PICK c : c = cur
    OBVIOUS
  <2>1. /\ c \in Active /\ Active' = Active \ {c} /\ pc = "retire"
        /\ pc' = IF reason = "error" THEN "failAll" ELSE "advance"
        /\ seqId[c] \in Slots /\ kv' = [kv EXCEPT ![seqId[c]] = << >>]
        /\ UNCHANGED <<seqId, nComputed>>
    BY <1>6, <2>0, RetireEffect DEF requestVars
  <2>2. \A q \in Active \ {c} : kv'[seqId[q]] = kv[seqId[q]]
    BY <2>1, <1>a, <1>b
  <2>3. ~ Building' /\ (Sampling' => Sampling)
    BY <2>1 DEF Building, Sampling
  <2> QED BY <2>1, <2>2, <2>3, <1>1
<1>7. ASSUME NEW r \in Requests, Admit(r) PROVE CoverInv'
  <2>0. PICK h, n : h = Head(freeSlots) /\ n = nComputed'[r]
    OBVIOUS
  <2>1. /\ r \notin Active /\ Active' = Active \cup {r} /\ pc = "fill" /\ pc' = "chunk"
        /\ h \in ToSet(freeSlots) /\ h \in Slots /\ seqId'[r] = h
        /\ kv' = [kv EXCEPT ![h] = CachedPrefix(r, n)] /\ slots' = slots
        /\ \A q \in Active : seqId'[q] = seqId[q] /\ nComputed'[q] = nComputed[q]
    BY <1>7, <1>a, <2>0, AdmitEffect
  <2>2. kv'[seqId'[r]] = CachedPrefix(r, n) /\ DOMAIN CachedPrefix(r, n) = 0..(n - 1)
    BY <2>1, <1>a DEF CachedPrefix
  <2>3. \A q \in Active : kv'[seqId'[q]] = kv[seqId[q]]
    BY <2>1, <1>a, <1>b
  <2>4. Building /\ ~ Sampling'
    BY <2>1 DEF Building, Sampling
  <2> SUFFICES ASSUME NEW q \in Active', NEW p \in 0..(nComputed'[q] - 1)
               PROVE  p \in DOMAIN kv'[seqId'[q]] \/ InBatch(q, p)'
    BY <2>4 DEF CoverInv
  <2>5. CASE q = r
    BY <2>5, <2>0, <2>2
  <2>6. CASE q \in Active
    <3>1. p \in DOMAIN kv[seqId[q]] \/ InBatch(q, p)
      BY <2>1, <2>4, <2>6, <1>a DEF CoverInv
    <3>2. InBatch(q, p)' <=> InBatch(q, p)
      BY <2>1, <2>6 DEF InBatch
    <3> QED BY <3>1, <3>2, <2>3, <2>6
  <2> QED BY <2>1, <2>5, <2>6
<1>8. ASSUME NEW r \in Requests, AddDecodeSlot(r) PROVE CoverInv'
  <2>1. /\ r \in Active /\ pc = "snapshot" /\ pc' = "snapshot" /\ GrowsBy(r, 1)
        /\ UNCHANGED <<kv, active, seqId>>
    BY <1>8, AddEffect
  <2> QED BY <2>1, <1>4 DEF Building, Sampling
<1>9. CASE PrefillChunk
  <2>0. PICK c : c = cur
    OBVIOUS
  <2>1. /\ c \in Active /\ pc = "chunk" /\ pc' = "fill" /\ \E k \in Nat : GrowsBy(c, k)
        /\ UNCHANGED <<kv, active, seqId>>
    BY <1>9, <2>0, ChunkEffect
  <2> QED BY <2>1, <1>4 DEF Building, Sampling
<1>10. CASE Decode
  <2>1. /\ pc = "decode" /\ kv' = AfterDecode /\ UNCHANGED <<active, seqId, nComputed>>
    BY <1>10 DEF Decode, requestVars
  <2>2. Active' = Active
    BY <2>1 DEF Active
  <2> QED BY <2>1, <2>2, DecodeEffect DEF CoverInv
<1>11. CASE AdvanceToken
  <2>1. /\ UNCHANGED <<active, seqId, nComputed, kv>> /\ pc = "advance"
        /\ pc' \in {"advance", "retire"}
    BY <1>11, AdvanceEffect
  <2> QED BY <2>1, <1>1 DEF Active, Building, Sampling
<1> QED
  <2>1. CASE \/ SubmitCheck \/ SubmitAppend \/ Stop \/ Tick \/ UNCHANGED vars
    <3>1. UNCHANGED <<active, seqId, nComputed, kv, slots, pc, reason>>
      BY <2>1 DEF SubmitCheck, SubmitAppend, Stop, Tick, vars, requestVars,
         threadVars, batchVars
    <3> QED BY <3>1, <1>1 DEF Active, Building, Sampling
  <2>2. CASE StartStep \/ NoPreemption \/ SnapshotDone
    <3>1. /\ UNCHANGED <<active, seqId, nComputed, kv, slots>>
          /\ pc \in {"loop", "preempt", "snapshot"}
          /\ pc' \in {"preempt", "snapshot", "fill"}
      BY <2>2 DEF StartStep, NoPreemption, SnapshotDone, requestVars
    <3> QED BY <3>1, <1>1 DEF Active, Building, Sampling
  <2>3. CASE FillDone
    <3>1. /\ UNCHANGED <<active, seqId, nComputed, kv, slots>>
          /\ pc = "fill" /\ pc' \in {"loop", "decode"}
      BY <2>3 DEF FillDone, LeaveStep, batchVars, requestVars
    <3> QED BY <3>1, <1>1 DEF Active, Building, Sampling
  <2>4. ASSUME NEW r \in Requests, ContinuePrefill(r) \/ SkipPrefilling(r)
        PROVE  CoverInv'
    <3>1. /\ UNCHANGED <<active, seqId, nComputed, kv, slots>>
          /\ pc \in {"snapshot", "fill"} /\ pc' \in {"snapshot", "chunk"}
      BY <2>4 DEF ContinuePrefill, SkipPrefilling, Visiting, batchVars, requestVars
    <3> QED BY <3>1, <1>1 DEF Active, Building, Sampling
  <2>5. CASE StepDone \/ AdvanceEos
    <3>1. /\ UNCHANGED <<active, seqId, nComputed, kv>> /\ pc = "advance"
      BY <2>5 DEF StepDone, AdvanceEos, requestVars
    <3> QED BY <3>1, <1>1 DEF Active, Sampling
  <2>6. CASE DecodeFails \/ AdvanceFails \/ FailNext \/ Drain
    <3>1. pc' \in {"failAll", "exited"} \/ (pc' = "retire" /\ reason' = "error")
      BY <2>6 DEF DecodeFails, AdvanceFails, FailNext, Drain, LeaveStep
    <3> QED BY <3>1, <1>2 DEF Building, Sampling
  <2>7. ASSUME NEW r \in Requests, MissingToken(r) PROVE CoverInv'
    BY <2>7, <1>2 DEF MissingToken, LeaveStep, Building, Sampling
  <2>8. CASE FailDone
    BY <2>8, <1>3 DEF FailDone, Active, ToSet
  <2> QED BY <2>1, <2>2, <2>3, <2>4, <2>5, <2>6, <2>7, <2>8, <1>5, <1>6, <1>7,
         <1>8, <1>9, <1>10, <1>11 DEF Next, Environment, Thread

(***************************************************************************)
(* The theorems.                                                           *)
(***************************************************************************)
LEMMA ContextInvariance == Spec => [](IInv /\ CInv)
<1>1. Init => CInv
  BY InitialContext
<1>2. IInv /\ CInv /\ [Next]_vars => CInv'
  <2> SUFFICES ASSUME IInv, CInv, [Next]_vars PROVE CInv'
    OBVIOUS
  <2>1. OutputInv' /\ HistoryInv' /\ PrefillInv' /\ PendingInv'
    BY OutputInductive, HistoryInductive, PrefillInductive, PendingInductive
  <2>2. BatchInv' /\ TargetInv' /\ CacheOwned' /\ CoverInv'
    BY BatchInductive, TargetInductive, CacheInductive, CoverInductive
  <2> QED BY <2>1, <2>2 DEF CInv
<1> QED BY <1>1, <1>2, Invariance, PTL DEF Spec

(***************************************************************************)
(* The KV cache of a slot holds nothing but its owner's tokens, each at    *)
(* its own position, and that of a free slot nothing, for any number of    *)
(* slots and requests and under every policy: the seq_rm of each path that *)
(* gives a slot back, and the positions of _step and _fill_prefills, are   *)
(* enough.                                                                 *)
(***************************************************************************)
THEOREM CachesAreOwned == Spec => []CacheOwned
<1>1. IInv /\ CInv => CacheOwned
  BY DEF CInv
<1> QED BY <1>1, ContextInvariance, PTL

(***************************************************************************)
(* Every token is sampled from its request's own last position, with the   *)
(* whole prompt and output in the cache and in the sampler's history: a    *)
(* request that was paused resumes exactly (restore_history, the batch     *)
(* indices of _step and _fill_prefills).                                   *)
(***************************************************************************)
THEOREM SamplesAreInContext == Spec => []SampledInContext
<1>1. IInv /\ CInv => SampledInContext
  BY TargetsInContext
<1> QED BY <1>1, ContextInvariance, PTL

(***************************************************************************)
(* A client is sent its own generation, no longer than max_tokens, and one *)
(* SENTINEL when its request ends (_advance, _retire, _drain).             *)
(***************************************************************************)
THEOREM StreamsAreExact == Spec => []StreamExact
<1>1. IInv /\ CInv => StreamExact
  <2> SUFFICES ASSUME IInv, CInv, NEW r \in Requests
               PROVE  /\ Len(output[r]) <= shape[r].maxTokens
                      /\ queue[r] = Generation(r, Len(output[r]))
                                      \o IF Ended(r) THEN <<SENTINEL>> ELSE << >>
    BY DEF StreamExact
  <2>1. /\ output[r] \in Seq(Tokens) /\ Len(output[r]) \in Nat
        /\ DOMAIN output[r] = 1..Len(output[r]) /\ PromptLen(r) \in Nat
    BY RequestTypes DEF IInv
  <2>2. /\ \A i \in 1..Len(output[r]) : output[r][i] = <<r, PromptLen(r) + i - 1>>
        /\ Len(output[r]) <= shape[r].maxTokens
        /\ queue[r] = IF Ended(r) THEN Append(output[r], SENTINEL) ELSE output[r]
    BY DEF CInv, OutputInv
  <2>3. output[r] = Generation(r, Len(output[r]))
    <3>1. output[r] = [i \in 1..Len(output[r]) |-> output[r][i]]
      BY <2>1
    <3> QED BY <2>2, <3>1 DEF Generation
  <2>4. output[r] \o << >> = output[r]
    BY <2>1
  <2>5. output[r] \o <<SENTINEL>> = Append(output[r], SENTINEL)
    BY <2>1
  <2> QED BY <2>2, <2>3, <2>4, <2>5
<1> QED BY <1>1, ContextInvariance, PTL
-----------------------------------------------------------------------------
(***************************************************************************)
(* The continuous engine implements the generation service, for every      *)
(* value of its constants: each of its steps accepts one request, delivers *)
(* one token, closes some streams, or is invisible to the clients.         *)
(***************************************************************************)
(* What the refinement mapping makes of the prompts and of the queues. *)
Prompts == [r \in Requests |-> IF r \in Accepted THEN PromptLen(r) ELSE 0]
Streams == [r \in Requests |-> IF r \in Closed THEN Front(queue[r]) ELSE queue[r]]

(* A stream is closed when its request has ended, and what its client has
   been sent is the output. *)
Mapped == /\ Closed = {r \in Requests : Ended(r)}
          /\ Streams = output

(***************************************************************************)
(* A SENTINEL is no token of a request, so it marks the end of a stream    *)
(* and nothing else.                                                       *)
(***************************************************************************)
LEMMA StreamsMapped ==
    ASSUME IInv, CInv
    PROVE  Mapped
<1>a. TypeOK /\ OutputInv /\ output \in [Requests -> Seq(Tokens)]
  BY DEF IInv, CInv, TypeOK, DataType
<1>b. 0 \notin Requests
  BY SchedulerAssumption DEF Requests
<1>1. ASSUME NEW r \in Requests, Ended(r)
      PROVE  r \in Closed /\ Front(queue[r]) = output[r]
  <2> DEFINE o == output[r]
             q == Append(o, SENTINEL)
             S == Tokens \cup {SENTINEL}
  <2>1. queue[r] = q
    BY <1>1, <1>a DEF OutputInv
  <2>2. o \in Seq(Tokens) /\ o \in Seq(S) /\ Len(o) \in Nat /\ SENTINEL \in S
    <3>1. o \in Seq(Tokens) /\ Len(o) \in Nat
      BY <1>a, LenProperties
    <3> QED BY <3>1
  <2> HIDE DEF o, S
  <2>3. /\ q \in Seq(S) /\ Len(q) = Len(o) + 1
        /\ \A i \in 1..Len(o) : q[i] = o[i]
        /\ q[Len(o) + 1] = SENTINEL /\ q # << >>
    BY <2>2, AppendProperties
  <2>4. r \in Closed
    BY <2>1, <2>3 DEF Closed, Last
  <2>5. Front(q) = [i \in 1..Len(o) |-> q[i]]
    BY <2>2, <2>3 DEF Front
  <2>6. o = [i \in 1..Len(o) |-> o[i]]
    BY <2>2, LenProperties
  <2>7. Front(q) = o
    BY <2>3, <2>5, <2>6
  <2> QED BY <2>1, <2>4, <2>7 DEF o
<1>2. ASSUME NEW r \in Requests, ~ Ended(r)
      PROVE  r \notin Closed /\ queue[r] = output[r]
  <2>1. queue[r] = output[r]
    BY <1>2, <1>a DEF OutputInv
  <2>2. ASSUME output[r] # << >> PROVE Last(output[r]) # SENTINEL
    <3>1. output[r] \in Seq(Tokens) /\ Len(output[r]) \in Nat \ {0}
      <4>1. output[r] \in Seq(Tokens)
        BY <1>a
      <4> QED BY <4>1, <2>2, EmptySeq, LenProperties
    <3>2. Len(output[r]) \in 1..Len(output[r])
      BY <3>1
    <3>3. PICK n : output[r][Len(output[r])] = <<r, n>>
      BY <3>2, <1>a DEF OutputInv
    <3> QED BY <3>3, <1>b DEF Last, SENTINEL
  <2> QED BY <2>1, <2>2 DEF Closed
<1>3. Closed = {r \in Requests : Ended(r)}
  BY <1>1, <1>2 DEF Closed
<1>4. Streams = output
  <2>1. \A r \in Requests :
           (IF r \in Closed THEN Front(queue[r]) ELSE queue[r]) = output[r]
    BY <1>1, <1>2
  <2>2. output = [r \in Requests |-> output[r]]
    BY <1>a
  <2> QED BY <2>1, <2>2 DEF Streams
<1> QED BY <1>3, <1>4 DEF Mapped

(***************************************************************************)
(* Each step of the engine is one of the service's or none at all.         *)
(***************************************************************************)
LEMMA StepOfService ==
    ASSUME IInv, CInv, Mapped, Mapped', [Next]_vars
    PROVE  [Service!Next]_(Service!vars)
<1>a. /\ TypeOK /\ OutputInv /\ output \in [Requests -> Seq(Tokens)]
      /\ stage \in [Requests -> Stages] /\ Active \subseteq Requests
  BY ActiveRequests DEF IInv, CInv, TypeOK, DataType, SchedulerType
<1>b. \A r \in Requests : PromptLen(r) \in Nat
  BY <1>a, RequestTypes
<1>c. /\ Closed = {r \in Requests : Ended(r)} /\ Closed' = {r \in Requests : Ended(r)'}
      /\ Streams = output /\ Streams' = output'
  BY DEF Mapped
<1>1. ASSUME UNCHANGED output,
             \A r \in Requests : Ended(r)' <=> Ended(r),
             \A r \in Requests : r \in Accepted' <=> r \in Accepted,
             \A r \in Accepted : PromptLen(r)' = PromptLen(r)
      PROVE  UNCHANGED Service!vars
  <2>1. Accepted' = Accepted
    BY <1>1 DEF Accepted
  <2>2. Prompts' = Prompts
    BY <1>1, <2>1 DEF Prompts
  <2>3. Streams' = Streams /\ Closed' = Closed
    BY <1>1, <1>c
  <2> QED BY <2>1, <2>2, <2>3 DEF Service!vars, Prompts, Streams
<1>2. ASSUME UNCHANGED <<output, shape, stage>> PROVE UNCHANGED Service!vars
  BY <1>2, <1>1 DEF Ended, Accepted, PromptLen
<1>3. CASE SubmitCheck
  <2>0. PICK n : n = arrived + 1
    OBVIOUS
  <2>1. /\ n \in Requests /\ stage[n] = "new" /\ stage'[n] \in {"queued", "refused"}
        /\ shape'[n] \in Shapes /\ output' = output
        /\ \A q \in Requests \ {n} : shape'[q] = shape[q] /\ stage'[q] = stage[q]
    BY <1>3, <2>0, SubmitEffect DEF requestVars
  <2>2. \A q \in Requests : Ended(q)' <=> Ended(q)
    BY <2>1 DEF Ended
  <2>3. n \notin Accepted /\ \A q \in Accepted : PromptLen(q)' = PromptLen(q)
    BY <2>1 DEF Accepted, PromptLen
  <2>4. CASE stage'[n] = "refused"
    <3>1. \A q \in Requests : q \in Accepted' <=> q \in Accepted
      BY <2>1, <2>4 DEF Accepted
    <3> QED BY <2>1, <2>2, <2>3, <3>1, <1>1
  <2>5. CASE stage'[n] = "queued"
    <3>1. Accepted' = Accepted \cup {n}
      BY <2>1, <2>5 DEF Accepted
    <3>2. PromptLen(n)' \in Nat
      BY <2>1, SchedulerAssumption DEF PromptLen
    <3>3. Prompts'[n] \in Nat /\ Prompts' = [Prompts EXCEPT ![n] = Prompts'[n]]
      BY <2>1, <2>3, <3>1, <3>2 DEF Prompts
    <3>4. Streams' = Streams /\ Closed' = Closed
      BY <2>1, <2>2, <1>c
    <3>5. Service!Accept(n)
      BY <2>3, <3>1, <3>3, <3>4 DEF Service!Accept, Prompts, Streams
    <3> QED BY <2>1, <3>5 DEF Service!Next
  <2> QED BY <2>1, <2>4, <2>5
<1>4. ASSUME NEW r \in Requests, Preempt(r) PROVE UNCHANGED Service!vars
  <2>1. /\ UNCHANGED <<output, shape>> /\ stage[r] = "decode" /\ stage'[r] = "preempted"
        /\ \A q \in Requests \ {r} : stage'[q] = stage[q]
    BY <1>4, PreemptEffect
  <2> QED BY <2>1, <1>1 DEF Ended, Accepted, PromptLen
<1>5. ASSUME NEW r \in Requests, Admit(r) PROVE UNCHANGED Service!vars
  <2>1. /\ UNCHANGED <<output, shape>> /\ r \in waiting /\ stage'[r] = "prefill"
        /\ \A q \in Requests \ {r} : stage'[q] = stage[q]
    BY <1>5, <1>a, AdmitEffect
  <2>2. stage[r] \in {"queued", "preempted"}
    BY <2>1 DEF IInv, RequestPlaced
  <2> QED BY <2>1, <2>2, <1>1 DEF Ended, Accepted, PromptLen
<1>6. CASE PrefillChunk
  <2>0. PICK c : c = cur
    OBVIOUS
  <2>1. c \in Requests /\ stage[c] = "prefill"
    BY <1>6, <2>0, ActiveRequests DEF PrefillChunk, IInv, ThreadConsistent
  <2>2. /\ UNCHANGED <<output, shape>> /\ stage'[c] \in {"prefill", "decode"}
        /\ \A q \in Requests \ {c} : stage'[q] = stage[q]
    BY <1>6, <2>0, <2>1, <1>a DEF PrefillChunk
  <2> QED BY <2>1, <2>2, <1>1 DEF Ended, Accepted, PromptLen
<1>7. CASE AdvanceToken
  <2>0. PICK r, tok : r = Head(targets).req /\ tok = <<r, Full(r)>>
    OBVIOUS
  <2>1. /\ r \in Requests /\ stage[r] = "decode" /\ UNCHANGED <<shape, stage>>
        /\ output'[r] = Append(output[r], tok)
        /\ \A q \in Requests \ {r} : output'[q] = output[q]
    BY <1>7, <2>0, AdvanceEffect
  <2>2. output' = [output EXCEPT ![r] = output'[r]]
    BY <1>7, <2>0 DEF AdvanceToken
  <2>3. Accepted' = Accepted /\ Prompts' = Prompts /\ Closed' = Closed
    BY <2>1, <1>c DEF Accepted, Prompts, PromptLen, Ended
  <2>4. r \in Accepted \ Closed /\ Prompts[r] = PromptLen(r)
    BY <2>1, <1>c DEF Accepted, Ended, Prompts
  <2>5. tok = <<r, Prompts[r] + Len(Streams[r])>>
    BY <2>0, <2>4, <1>c DEF Full
  <2>6. Streams' = [Streams EXCEPT
                      ![r] = Append(Streams[r], <<r, Prompts[r] + Len(Streams[r])>>)]
    BY <2>1, <2>2, <2>5, <1>c
  <2>7. Service!Deliver(r)
    BY <2>3, <2>4, <2>6 DEF Service!Deliver, Prompts, Streams
  <2> QED BY <2>1, <2>7 DEF Service!Next
<1>8. ASSUME NEW R \in SUBSET Requests, UNCHANGED <<output, shape>>,
             \A r \in R : r \in Accepted \ Closed /\ r \in Accepted' /\ Ended(r)',
             \A r \in Requests \ R : stage'[r] = stage[r]
      PROVE  [Service!Next]_(Service!vars)
  <2>1. Accepted' = Accepted
    BY <1>8 DEF Accepted
  <2>2. Prompts' = Prompts
    BY <1>8, <2>1 DEF Prompts, PromptLen
  <2>3. Streams' = Streams
    BY <1>8, <1>c
  <2>4. Closed' = Closed \cup R
    BY <1>8, <1>c DEF Ended
  <2>5. CASE R = {}
    BY <2>1, <2>2, <2>3, <2>4, <2>5 DEF Service!vars, Prompts, Streams
  <2>6. CASE R # {}
    <3>1. Service!Close(R)
      BY <1>8, <2>1, <2>2, <2>3, <2>4, <2>6 DEF Service!Close, Prompts, Streams
    <3> QED BY <3>1 DEF Service!Next
  <2> QED BY <2>5, <2>6
<1>9. CASE Retire
  <2>0. PICK c : c = cur
    OBVIOUS
  <2>1. /\ c \in Requests /\ UNCHANGED <<shape, output>>
        /\ stage[c] \in {"prefill", "decode"} /\ stage'[c] \in {"done", "aborted"}
        /\ \A q \in Requests \ {c} : stage'[q] = stage[q]
    BY <1>9, <2>0, RetireEffect DEF requestVars
  <2>2. c \in Accepted \ Closed /\ c \in Accepted' /\ Ended(c)'
    BY <2>1, <1>c DEF Accepted, Ended
  <2> QED BY <2>1, <2>2, <1>8
<1>10. CASE Drain
  <2>1. /\ UNCHANGED <<shape, output>>
        /\ stage' = [r \in Requests |->
              IF r \in DrainVictims THEN "aborted" ELSE stage[r]]
    BY <1>10 DEF Drain, requestVars
  <2>2. DrainVictims \subseteq Requests
    BY <1>a DEF DrainVictims, Active, TypeOK, QueueType
  <2>3. \A r \in DrainVictims :
           ~ Ended(r) /\ stage[r] \notin {"new", "refused"} /\ stage'[r] = "aborted"
    BY <2>1, <2>2 DEF DrainVictims, Ended, Active, IInv, RequestPlaced
  <2>4. \A r \in DrainVictims : r \in Accepted \ Closed /\ r \in Accepted' /\ Ended(r)'
    BY <2>2, <2>3, <1>c DEF Accepted, Ended
  <2> QED BY <2>1, <2>2, <2>4, <1>8
<1> QED
  <2>1. CASE \/ SubmitAppend \/ Stop \/ Tick \/ StartStep \/ NoPreemption \/ SnapshotDone
             \/ FillDone \/ Decode \/ DecodeFails \/ StepDone \/ AdvanceEos
             \/ AdvanceFails \/ FailNext \/ FailDone \/ UNCHANGED vars
    <3>1. UNCHANGED <<output, shape, stage>>
      BY <2>1 DEF SubmitAppend, Stop, Tick, StartStep, NoPreemption, SnapshotDone,
         FillDone, Decode, DecodeFails, StepDone, AdvanceEos, AdvanceFails, FailNext,
         FailDone, vars, schedulerVars, requestVars
    <3> QED BY <3>1, <1>2
  <2>2. ASSUME NEW r \in Requests,
               \/ ContinuePrefill(r) \/ SkipPrefilling(r) \/ AddDecodeSlot(r)
               \/ MissingToken(r)
        PROVE  UNCHANGED Service!vars
    <3>1. UNCHANGED <<output, shape, stage>>
      BY <2>2 DEF ContinuePrefill, SkipPrefilling, AddDecodeSlot, MissingToken,
         schedulerVars, requestVars
    <3> QED BY <3>1, <1>2
  <2> QED BY <2>1, <2>2, <1>3, <1>4, <1>5, <1>6, <1>7, <1>9, <1>10
      DEF Next, Environment, Thread

(***************************************************************************)
(* The safety half of the refinement: whatever the policy, preemptions,    *)
(* failures and shutdown do, a client sees a service that accepts its      *)
(* request, delivers the tokens of its generation in order and closes the  *)
(* stream once (engine/base.py; submit, _advance, _retire, _drain).        *)
(***************************************************************************)
THEOREM ServiceIsImplemented == Spec => ServiceSafety
<1>1. Init => Service!Init
  <2> SUFFICES ASSUME Init PROVE Service!Init
    OBVIOUS
  <2>1. \A r \in Requests : stage[r] = "new" /\ queue[r] = << >>
    BY DEF Init
  <2>2. Accepted = {} /\ Closed = {}
    BY <2>1 DEF Accepted, Closed
  <2>3. Prompts = [r \in Requests |-> 0] /\ Streams = [r \in Requests |-> << >>]
    BY <2>1, <2>2 DEF Prompts, Streams
  <2>4. Prompts \in [Requests -> {0}]
    BY <2>3
  <2> QED BY <2>2, <2>3, <2>4 DEF Service!Init, Prompts, Streams
<1>2. IInv /\ CInv => Mapped
  BY StreamsMapped
<1>3. IInv /\ CInv /\ Mapped /\ Mapped' /\ [Next]_vars => [Service!Next]_(Service!vars)
  BY StepOfService
<1> QED BY <1>1, <1>2, <1>3, ContextInvariance, PTL DEF Spec, ServiceSafety, Service!Spec
=============================================================================
