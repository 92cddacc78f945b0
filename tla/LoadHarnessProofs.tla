--------------------------- MODULE LoadHarnessProofs ---------------------------
(***************************************************************************)
(* Proofs about the API, its metrics and the load harness, for any number  *)
(* of requests, levels and guests, any schedule and any window.            *)
(*                                                                         *)
(* The counters of the registry count events, and what is promised of them *)
(* compares them with the requests as they stand; so the inductive         *)
(* invariant says of which requests each counter is the number.  A reset   *)
(* forgets the requests of before, whence two such accounts: one of all    *)
(* requests, which bounds the counters and, in a window that began with    *)
(* none in progress, tells in_flight; and one of the requests of the       *)
(* level, for a window nobody else has used.                               *)
(***************************************************************************)
EXTENDS LoadHarnessProperties, SequenceLemmas

(* The ranges of the variables. *)
Ranges ==
    /\ arrived \in Nat /\ finished \in Nat /\ errored \in Nat
    /\ rows \in Seq(Requests) /\ Len(rows) <= WINDOW
    /\ engine \in [Requests -> {"off", "running", "ended", "failed"}]
    /\ handler \in [Requests -> {"off", "streaming", "done", "gone"}]
    /\ answer \in [Requests -> Statuses \cup {NONE}]
    /\ phase \in {"reset", "run", "drain", "done"} /\ level \in 1..NumLevels
    /\ row \in [Requests -> Statuses \cup {"unsent", "sent", "timeout", "cancelled"}]
    /\ disturbed \in BOOLEAN

(* One request: what its handler, its engine, its answer and its row in the
   harness tell of each other. *)
RequestOK(r) ==
    /\ answer[r] # NONE <=> handler[r] = "done"
    /\ handler[r] = "off" => engine[r] = "off"
    /\ handler[r] = "streaming" => engine[r] # "off"
    /\ handler[r] = "done" => engine[r] # "running"
    /\ answer[r] \in {"503", "413"} => engine[r] = "off"
    /\ answer[r] = "200" => r \in Streaming \/ engine[r] = "ended"
    /\ row[r] \in Statuses => answer[r] = row[r]
    /\ handler[r] = "gone" => r \in Streaming

(* A request of the harness has been sent if and only if its level has come. *)
Level(i) == Range(Schedule[i])

SentOK(r) ==
    /\ r \notin Streaming => (row[r] = "unsent" <=> handler[r] = "off")
    /\ row[r] # "unsent" => \E i \in 1..level : r \in Level(i) /\ (phase = "reset" => i # level)

(* The counters are never ahead of the requests. *)
Seen     == {r \in Requests : handler[r] # "off"}
Answered == {r \in Requests : handler[r] = "done"}

CountersOK ==
    /\ arrived <= Cardinality(Seen)
    /\ finished <= Cardinality(Answered)
    /\ errored <= finished

Balanced == ~ disturbed => arrived - finished = Cardinality(Attending)

(* A window that only the level has used, and what the registry says in it. *)
Quiet ==
    /\ phase \in {"run", "drain"} /\ ~ disturbed
    /\ \A r \in Guests : handler[r] = "off"

Taken  == {r \in Mine : engine[r] # "off"}
Served == {r \in Mine : engine[r] # "off" /\ handler[r] = "done"}
Broken == {r \in Mine : engine[r] = "failed" /\ handler[r] = "done"}

WindowOK ==
    Quiet =>
        /\ Attending \subseteq Mine
        /\ arrived = Cardinality(Taken)
        /\ finished = Cardinality(Served)
        /\ errored = Cardinality(Broken)
        /\ finished <= WINDOW => IsInjective(rows) /\ Range(rows) = Served

IInv ==
    /\ Ranges
    /\ \A r \in Requests : RequestOK(r) /\ SentOK(r)
    /\ CountersOK
    /\ Balanced
    /\ WindowOK
-----------------------------------------------------------------------------
(***************************************************************************)
(* Percentiles.  A sample is ranked by how many are below it, so the order *)
(* the samples come in does not matter: with a position for each request,  *)
(* positions are counted by counting requests.                             *)
(***************************************************************************)
LEMMA CountThrough ==
    ASSUME NEW S, NEW s \in Seq(S), IsInjective(s), NEW T \in SUBSET Range(s)
    PROVE  /\ IsFiniteSet(T)
           /\ Cardinality({i \in DOMAIN s : s[i] \in T}) = Cardinality(T)
<1> DEFINE I == {i \in DOMAIN s : s[i] \in T}
           f == [i \in I |-> s[i]]
<1>1. DOMAIN s = 1..Len(s) /\ Len(s) \in Nat
  BY LenProperties
<1>2. IsFiniteSet(DOMAIN s)
  BY <1>1, FS_Interval
<1>3. IsFiniteSet(I)
  <2>1. I \in SUBSET DOMAIN s
    OBVIOUS
  <2> HIDE DEF I
  <2> QED BY <2>1, <1>2, FS_Subset
<1>4. f \in [I -> T]
  OBVIOUS
<1>5. \A a, b \in I : f[a] = f[b] => a = b
  BY DEF IsInjective
<1>6. \A t \in T : \E a \in I : f[a] = t
  <2> TAKE t \in T
  <2>1. PICK a \in DOMAIN s : s[a] = t
    BY DEF Range
  <2>2. a \in I /\ f[a] = t
    BY <2>1
  <2> QED BY <2>2
<1>7. IsFiniteSet(T) /\ Cardinality(T) = Cardinality(I)
  <2> HIDE DEF I, f
  <2> QED BY <1>3, <1>4, <1>5, <1>6, Renaming
<1> QED BY <1>7

LEMMA RankedByRequest ==
    ASSUME NEW s \in Seq(Requests), IsInjective(s), NEW v
    PROVE  /\ Cardinality({i \in DOMAIN Times(s) : Times(s)[i] < v})
                = Cardinality({r \in Range(s) : Latency[r] < v})
           /\ Cardinality({i \in DOMAIN Times(s) : Times(s)[i] <= v})
                = Cardinality({r \in Range(s) : Latency[r] <= v})
<1> DEFINE T == {r \in Range(s) : Latency[r] < v}
           U == {r \in Range(s) : Latency[r] <= v}
<1>1. \A i \in DOMAIN s : s[i] \in Range(s) /\ Times(s)[i] = Latency[s[i]]
  BY DEF Times, Range
<1>2. DOMAIN Times(s) = DOMAIN s
  BY DEF Times
<1>3. {i \in DOMAIN Times(s) : Times(s)[i] < v} = {i \in DOMAIN s : s[i] \in T}
  BY <1>1, <1>2
<1>4. {i \in DOMAIN Times(s) : Times(s)[i] <= v} = {i \in DOMAIN s : s[i] \in U}
  BY <1>1, <1>2
<1>5. T \in SUBSET Range(s) /\ U \in SUBSET Range(s)
  OBVIOUS
<1> HIDE DEF T, U
<1>6. Cardinality({i \in DOMAIN s : s[i] \in T}) = Cardinality(T)
  BY <1>5, CountThrough
<1>7. Cardinality({i \in DOMAIN s : s[i] \in U}) = Cardinality(U)
  BY <1>5, CountThrough
<1> QED BY <1>3, <1>4, <1>6, <1>7 DEF T, U

LEMMA OrderDoesNotMatter ==
    ASSUME NEW s \in Seq(Requests), NEW t \in Seq(Requests),
           IsInjective(s), IsInjective(t), Range(s) = Range(t), NEW k
    PROVE  Ranked(Times(s), k) = Ranked(Times(t), k)
<1> DEFINE P(v) == /\ Cardinality({i \in DOMAIN Times(s) : Times(s)[i] < v}) < k
                   /\ k <= Cardinality({i \in DOMAIN Times(s) : Times(s)[i] <= v})
           Q(v) == /\ Cardinality({i \in DOMAIN Times(t) : Times(t)[i] < v}) < k
                   /\ k <= Cardinality({i \in DOMAIN Times(t) : Times(t)[i] <= v})
<1>1. Range(Times(s)) = Range(Times(t))
  <2>1. Range(Times(s)) = {Latency[r] : r \in Range(s)}
    BY DEF Times, Range
  <2>2. Range(Times(t)) = {Latency[r] : r \in Range(t)}
    BY DEF Times, Range
  <2> QED BY <2>1, <2>2
<1>2. \A v : P(v) <=> Q(v)
  <2> TAKE v
  <2>1. Cardinality({i \in DOMAIN Times(s) : Times(s)[i] < v})
           = Cardinality({i \in DOMAIN Times(t) : Times(t)[i] < v})
    BY RankedByRequest
  <2>2. Cardinality({i \in DOMAIN Times(s) : Times(s)[i] <= v})
           = Cardinality({i \in DOMAIN Times(t) : Times(t)[i] <= v})
    BY RankedByRequest
  <2> QED BY <2>1, <2>2
<1>3. Ranked(Times(s), k) = (CHOOSE v \in Range(Times(s)) : P(v))
  BY DEF Ranked
<1>4. Ranked(Times(t), k) = (CHOOSE v \in Range(Times(t)) : Q(v))
  BY DEF Ranked
<1> HIDE DEF P, Q
<1>5. (CHOOSE v \in Range(Times(s)) : P(v)) = (CHOOSE v \in Range(Times(t)) : Q(v))
  BY <1>1, <1>2
<1> QED BY <1>3, <1>4, <1>5

LEMMA SetToSeqProperties ==
    ASSUME NEW S, IsFiniteSet(S)
    PROVE  /\ SetToSeq(S) \in Seq(S)
           /\ Len(SetToSeq(S)) = Cardinality(S)
           /\ IsInjective(SetToSeq(S))
           /\ Range(SetToSeq(S)) = S
<1>1. Cardinality(S) \in Nat /\ ExistsBijection(1..Cardinality(S), S)
  BY FS_CardinalityType
<1>2. PICK f \in [1..Cardinality(S) -> S] : IsInjective(f)
  BY <1>1 DEF ExistsBijection, Bijection, Injection
<1>3. SetToSeq(S) \in [1..Cardinality(S) -> S] /\ IsInjective(SetToSeq(S))
  BY <1>2 DEF SetToSeq
<1> DEFINE s == SetToSeq(S)
<1>4. s \in Injection(1..Cardinality(S), S)
  BY <1>3 DEF Injection
<1>5. IsFiniteSet(1..Cardinality(S)) /\ Cardinality(1..Cardinality(S)) = Cardinality(S)
  BY <1>1, FS_Interval
<1>6. s \in Surjection(1..Cardinality(S), S)
  <2> HIDE DEF s
  <2> QED BY <1>4, <1>5, FS_Injection
<1>7. s \in Seq(S) /\ Len(s) = Cardinality(S)
  BY <1>1, <1>3
<1>8. Range(s) = S
  BY <1>3, <1>6 DEF Surjection, Range
<1> QED BY <1>3, <1>7, <1>8

(* A percentile of the server, and one of the harness of the same requests
   where there are enough of them for the server to tell it. *)
LEMMA SamePercentile ==
    ASSUME NEW s \in Seq(Requests), NEW t \in Seq(Requests),
           IsInjective(s), IsInjective(t), Range(s) = Range(t),
           NEW q \in Nat, NEW floor \in Nat \ {0}
    PROVE  Pct(Times(s), q, floor)
             = IF Len(Times(t)) >= floor THEN HarnessPct(Times(t), q) ELSE Unknown
<1>1. Len(s) = Len(t) /\ Len(s) \in Nat
  <2>1. /\ DOMAIN s = 1..Len(s) /\ Len(s) \in Nat
        /\ DOMAIN t = 1..Len(t) /\ Len(t) \in Nat
    BY LenProperties
  <2>2. {i \in DOMAIN s : s[i] \in Range(s)} = DOMAIN s
    BY DEF Range
  <2>3. {i \in DOMAIN t : t[i] \in Range(s)} = DOMAIN t
    BY DEF Range
  <2>4. Cardinality(DOMAIN s) = Cardinality(Range(s))
    <3>1. Cardinality({i \in DOMAIN s : s[i] \in Range(s)}) = Cardinality(Range(s))
      BY CountThrough, Zenon
    <3> QED BY <3>1, <2>2, Zenon
  <2>5. Cardinality(DOMAIN t) = Cardinality(Range(s))
    <3>1. Cardinality({i \in DOMAIN t : t[i] \in Range(s)}) = Cardinality(Range(s))
      BY CountThrough, Zenon
    <3> QED BY <3>1, <2>3, Zenon
  <2>6. Cardinality(1..Len(s)) = Len(s) /\ Cardinality(1..Len(t)) = Len(t)
    <3>1. \A n \in Nat : Cardinality(1..n) = n
      <4> TAKE n \in Nat
      <4> QED BY FS_Interval
    <3> QED BY <2>1, <3>1
  <2> QED BY <2>1, <2>4, <2>5, <2>6
<1>2. /\ Times(s) \in Seq(Nat) /\ Len(Times(s)) = Len(s)
      /\ Times(t) \in Seq(Nat) /\ Len(Times(t)) = Len(t)
  <2>1. ASSUME NEW u \in Seq(Requests)
        PROVE  Times(u) \in Seq(Nat) /\ Len(Times(u)) = Len(u)
    <3>1. DOMAIN u = 1..Len(u) /\ Len(u) \in Nat /\ \A i \in 1..Len(u) : u[i] \in Requests
      BY LenProperties, ElementOfSeq
    <3>2. Times(u) = [i \in 1..Len(u) |-> Latency[u[i]]]
      BY <3>1 DEF Times
    <3>3. Times(u) \in [1..Len(u) -> Nat]
      BY <3>1, <3>2, ServingAssumption
    <3> QED BY <3>1, <3>3
  <2> QED BY <2>1
<1>3. Times(s) = << >> <=> Times(t) = << >>
  BY <1>1, <1>2, EmptySeq
<1>4. Times(s) # << >> => Len(Times(s)) >= 1
  BY <1>1, <1>2, EmptySeq
<1>5. \A k : Ranked(Times(s), k) = Ranked(Times(t), k)
  BY OrderDoesNotMatter
<1>6. ASSUME Times(s) # << >>
      PROVE  HarnessPct(Times(t), q) = Ranked(Times(s), RoundedPercent(q * (Len(Times(s)) - 1)) + 1)
  BY <1>1, <1>2, <1>3, <1>5, <1>6 DEF HarnessPct, HarnessRank
<1>7. CASE Times(s) = << >>
  BY <1>7, <1>3 DEF Pct, HarnessPct
<1>8. CASE Times(s) # << >>
  BY <1>8, <1>1, <1>2, <1>6 DEF Pct
<1> QED BY <1>7, <1>8

LEMMA SameSummary ==
    ASSUME NEW s \in Seq(Requests), NEW t \in Seq(Requests),
           IsInjective(s), IsInjective(t), Range(s) = Range(t)
    PROVE  LET mine == HarnessSummary(Times(t)) IN
           /\ Summary(Times(s)) = mine
           /\ Exposed(Times(s)) = {<<50, mine.p50>>, <<90, mine.p90>>, <<99, mine.p99>>}
                                    \ {<<q, Unknown>> : q \in {50, 90, 99}}
<1> DEFINE mine == HarnessSummary(Times(t))
<1>1. Floor90 \in Nat \ {0} /\ Floor99 \in Nat \ {0}
  BY ServingAssumption
<1>2. Pct(Times(s), 50, 1) = HarnessPct(Times(t), 50)
  <2>1. Pct(Times(s), 50, 1)
          = IF Len(Times(t)) >= 1 THEN HarnessPct(Times(t), 50) ELSE Unknown
    <3>1. 50 \in Nat /\ 1 \in Nat \ {0}
      OBVIOUS
    <3> QED BY <3>1, SamePercentile, Zenon
  <2>2. Len(Times(t)) >= 1 \/ Times(t) = << >>
    <3>1. /\ DOMAIN t = 1..Len(t) /\ Len(t) \in Nat
      BY LenProperties
    <3>2. Times(t) = [i \in 1..Len(t) |-> Latency[t[i]]]
      BY <3>1 DEF Times
    <3>3. CASE Len(t) = 0
      BY <3>2, <3>3
    <3>4. CASE Len(t) >= 1
      <4>1. Times(t) \in Seq({Latency[t[i]] : i \in 1..Len(t)}) /\ Len(Times(t)) = Len(t)
        BY <3>1, <3>2
      <4> QED BY <4>1, <3>4
    <3> QED BY <3>1, <3>3, <3>4
  <2> QED BY <2>1, <2>2 DEF HarnessPct
<1>3. /\ mine.p50 = HarnessPct(Times(t), 50)
      /\ mine.p90 = IF Len(Times(t)) >= Floor90 THEN HarnessPct(Times(t), 90) ELSE Unknown
      /\ mine.p99 = IF Len(Times(t)) >= Floor99 THEN HarnessPct(Times(t), 99) ELSE Unknown
      /\ mine = [p50 |-> mine.p50, p90 |-> mine.p90, p99 |-> mine.p99]
  BY DEF HarnessSummary
<1> HIDE DEF mine
<1>4. Pct(Times(s), 90, Floor90) = mine.p90
  <2>1. 90 \in Nat /\ Floor90 \in Nat \ {0}
    BY <1>1
  <2>2. Pct(Times(s), 90, Floor90)
          = IF Len(Times(t)) >= Floor90 THEN HarnessPct(Times(t), 90) ELSE Unknown
    BY <2>1, SamePercentile, Zenon
  <2> QED BY <2>2, <1>3
<1>5. Pct(Times(s), 99, Floor99) = mine.p99
  <2>1. 99 \in Nat /\ Floor99 \in Nat \ {0}
    BY <1>1
  <2>2. Pct(Times(s), 99, Floor99)
          = IF Len(Times(t)) >= Floor99 THEN HarnessPct(Times(t), 99) ELSE Unknown
    BY <2>1, SamePercentile, Zenon
  <2> QED BY <2>2, <1>3
<1>6. Summary(Times(s)) = mine
  BY <1>2, <1>3, <1>4, <1>5 DEF Summary
<1>7. Exposed(Times(s)) = {<<50, mine.p50>>, <<90, mine.p90>>, <<99, mine.p99>>}
                            \ {<<q, Unknown>> : q \in {50, 90, 99}}
  BY <1>2, <1>3, <1>4, <1>5 DEF Exposed
<1> QED BY <1>6, <1>7 DEF mine
-----------------------------------------------------------------------------
(***************************************************************************)
(* Sets of requests, and the levels of the schedule.                       *)
(***************************************************************************)
LEMMA FiniteRequests ==
    ASSUME NEW T \in SUBSET Requests
    PROVE  IsFiniteSet(T) /\ Cardinality(T) \in Nat
BY ServingAssumption, FS_Subset, FS_CardinalityType

LEMMA OneMore ==
    ASSUME NEW T \in SUBSET Requests, NEW r, r \notin T
    PROVE  Cardinality(T \cup {r}) = Cardinality(T) + 1
BY FiniteRequests, FS_AddElement

LEMMA OneLess ==
    ASSUME NEW T \in SUBSET Requests, NEW r \in T
    PROVE  Cardinality(T \ {r}) = Cardinality(T) - 1
BY FiniteRequests, FS_RemoveElement

LEMMA NotMore ==
    ASSUME NEW U \in SUBSET Requests, NEW T \in SUBSET U
    PROVE  Cardinality(T) <= Cardinality(U)
BY FiniteRequests, FS_Subset

LEMMA Apart ==
    ASSUME NEW T \in SUBSET Requests, NEW U \in SUBSET T
    PROVE  Cardinality(T \ U) = Cardinality(T) - Cardinality(U)
<1>1. T \cap U = U
  OBVIOUS
<1>2. Cardinality(T \ U) = Cardinality(T) - Cardinality(T \cap U)
  BY FiniteRequests, FS_Difference
<1> QED BY <1>1, <1>2

LEMMA Levels ==
    ASSUME NEW i \in 1..NumLevels
    PROVE  /\ Level(i) \subseteq Requests \ Streaming
           /\ Level(i) \in SUBSET Requests
           /\ \A j \in 1..NumLevels : i # j => Level(i) \cap Level(j) = {}
<1>1. Schedule[i] \in Seq(Requests \ Streaming)
  BY HarnessAssumption
<1>2. Level(i) \subseteq Requests \ Streaming
  BY <1>1, ElementOfSeq, LenProperties DEF Level, Range
<1>3. \A j \in 1..NumLevels : i # j => Level(i) \cap Level(j) = {}
  BY HarnessAssumption DEF Level
<1> QED BY <1>2, <1>3

LEMMA MineInLevel ==
    ASSUME Ranges
    PROVE  Mine = Level(level) /\ Mine \subseteq Requests \ Streaming /\ Mine \in SUBSET Requests
BY Levels DEF Mine, Level, Ranges
-----------------------------------------------------------------------------
(***************************************************************************)
(* The initial states.                                                     *)
(***************************************************************************)
LEMMA Initially == Init => IInv
<1> SUFFICES ASSUME Init PROVE IInv
  OBVIOUS
<1> USE DEF Init, ServerInit
<1>1. Ranges
  <2>1. rows \in Seq(Requests) /\ Len(rows) = 0
    BY EmptySeq
  <2>2. WINDOW \in Nat /\ NumLevels \in Nat \ {0}
    BY ServingAssumption, HarnessAssumption
  <2>3. Len(rows) <= WINDOW
    BY <2>1, <2>2
  <2>4. level \in 1..NumLevels
    BY <2>2
  <2>5. /\ engine \in [Requests -> {"off", "running", "ended", "failed"}]
        /\ handler \in [Requests -> {"off", "streaming", "done", "gone"}]
        /\ answer \in [Requests -> Statuses \cup {NONE}]
        /\ row \in [Requests -> Statuses \cup {"unsent", "sent", "timeout", "cancelled"}]
    OBVIOUS
  <2> QED BY <2>1, <2>3, <2>4, <2>5 DEF Ranges
<1>2. \A r \in Requests : RequestOK(r) /\ SentOK(r)
  BY DEF RequestOK, SentOK, NONE, Statuses
<1>3. Seen = {} /\ Answered = {} /\ Attending = {}
  BY DEF Seen, Answered, Attending
<1>4. Cardinality({}) = 0
  BY FS_EmptySet
<1>5. CountersOK
  BY <1>3, <1>4 DEF CountersOK
<1>6. Balanced
  BY <1>3, <1>4 DEF Balanced
<1>7. WindowOK
  BY DEF WindowOK, Quiet
<1> QED BY <1>1, <1>2, <1>5, <1>6, <1>7 DEF IInv
-----------------------------------------------------------------------------
(***************************************************************************)
(* A request is posted, by the harness or by a guest.                      *)
(***************************************************************************)
LEMMA PostRanges ==
    ASSUME Ranges, NEW r \in Requests, Post(r)
    PROVE  /\ arrived' \in Nat /\ finished' \in Nat /\ errored' \in Nat
           /\ rows' \in Seq(Requests) /\ Len(rows') <= WINDOW
           /\ engine' \in [Requests -> {"off", "running", "ended", "failed"}]
           /\ handler' \in [Requests -> {"off", "streaming", "done", "gone"}]
           /\ answer' \in [Requests -> Statuses \cup {NONE}]
           /\ handler'[r] # "off"
           /\ \A q \in Requests \ {r} : /\ handler'[q] = handler[q]
                                        /\ engine'[q] = engine[q]
                                        /\ answer'[q] = answer[q]
<1>1. CASE Accept(r)
  BY <1>1 DEF Accept, Ranges, Arrivals
<1>2. CASE Refuse(r)
  BY <1>2 DEF Refuse, Ranges, Arrivals, Statuses
<1> QED BY <1>1, <1>2 DEF Post

LEMMA PostRequest ==
    ASSUME Ranges, NEW r \in Requests, RequestOK(r), Post(r),
           row'[r] \notin Statuses
    PROVE  RequestOK(r)'
<1>1. CASE Accept(r)
  BY <1>1 DEF Accept, Ranges, RequestOK, Post, Statuses, NONE
<1>2. CASE Refuse(r)
  BY <1>2 DEF Refuse, Ranges, RequestOK, Post, Statuses, NONE
<1> QED BY <1>1, <1>2 DEF Post

LEMMA PostCounted ==
    ASSUME Ranges, NEW r \in Requests, RequestOK(r), Post(r),
           CountersOK, Balanced, disturbed' = disturbed
    PROVE  CountersOK' /\ Balanced'
<1>1. /\ Seen \in SUBSET Requests /\ Answered \in SUBSET Requests
      /\ Attending \in SUBSET Requests
      /\ r \notin Seen /\ r \notin Answered /\ r \notin Attending
  BY DEF Seen, Answered, Attending, Post
<1>2. /\ Cardinality(Seen) \in Nat /\ Cardinality(Answered) \in Nat
      /\ Cardinality(Attending) \in Nat
  BY <1>1, FiniteRequests
<1>3. Cardinality(Seen \cup {r}) = Cardinality(Seen) + 1
  BY <1>1, OneMore
<1>4. Seen' = Seen \cup {r}
  BY DEF Post, Accept, Refuse, Seen, Ranges
<1>5. CASE Accept(r)
  <2>1. /\ Attending' = Attending \cup {r} /\ Answered' = Answered
        /\ arrived' = arrived + 1 /\ finished' = finished /\ errored' = errored
    BY <1>5 DEF Accept, Attending, Answered, Post, Ranges, Arrivals
  <2>2. Cardinality(Attending \cup {r}) = Cardinality(Attending) + 1
    BY <1>1, OneMore
  <2>3. CountersOK'
    BY <1>2, <1>3, <1>4, <2>1 DEF CountersOK, Ranges
  <2>4. Balanced'
    BY <1>2, <2>1, <2>2 DEF Balanced, Ranges
  <2> QED BY <2>3, <2>4
<1>6. CASE Refuse(r)
  <2>1. /\ Attending' = Attending /\ Answered' = Answered \cup {r}
        /\ arrived' = arrived /\ finished' = finished /\ errored' = errored
    BY <1>6 DEF Refuse, Attending, Answered, Post, Ranges, Arrivals
  <2>2. Cardinality(Answered \cup {r}) = Cardinality(Answered) + 1
    BY <1>1, OneMore
  <2>3. CountersOK'
    BY <1>2, <1>3, <1>4, <2>1, <2>2 DEF CountersOK, Ranges
  <2>4. Balanced'
    BY <1>2, <2>1 DEF Balanced, Ranges
  <2> QED BY <2>3, <2>4
<1> QED BY <1>5, <1>6 DEF Post
-----------------------------------------------------------------------------
(***************************************************************************)
(* A response: what the ring buffer does, and the counters.                *)
(***************************************************************************)
LEMMA AsManyRows ==
    ASSUME NEW s \in Seq(Requests), IsInjective(s)
    PROVE  Cardinality(Range(s)) = Len(s)
<1>1. DOMAIN s = 1..Len(s) /\ Len(s) \in Nat
  BY LenProperties
<1>2. {i \in DOMAIN s : s[i] \in Range(s)} = DOMAIN s
  BY DEF Range
<1>3. Cardinality(DOMAIN s) = Cardinality(Range(s))
  BY <1>2, CountThrough
<1>4. \A n \in Nat : Cardinality(1..n) = n
  <2> TAKE n \in Nat
  <2> QED BY FS_Interval
<1> QED BY <1>1, <1>3, <1>4

LEMMA LastRowsProperties ==
    ASSUME Ranges, NEW r \in Requests
    PROVE  /\ LastRows(Append(rows, r)) \in Seq(Requests)
           /\ Len(LastRows(Append(rows, r))) <= WINDOW
           /\ Len(rows) < WINDOW => LastRows(Append(rows, r)) = Append(rows, r)
<1> DEFINE all == Append(rows, r)
<1>1. /\ all \in Seq(Requests) /\ Len(all) = Len(rows) + 1
      /\ Len(rows) \in Nat /\ Len(rows) <= WINDOW /\ WINDOW \in Nat
  BY AppendProperties, LenProperties, ServingAssumption DEF Ranges
<1>2. CASE Len(all) > WINDOW
  <2>1. all # << >>
    BY <1>1, EmptySeq
  <2>2. Tail(all) \in Seq(Requests) /\ Len(Tail(all)) = Len(all) - 1
    BY <1>1, <2>1, HeadTailProperties
  <2> HIDE DEF all
  <2> QED BY <1>1, <1>2, <2>2 DEF LastRows, all
<1>3. CASE ~ (Len(all) > WINDOW)
  <2> HIDE DEF all
  <2> QED BY <1>1, <1>3 DEF LastRows, all
<1> QED BY <1>2, <1>3

LEMMA RespondRanges ==
    ASSUME Ranges, NEW r \in Requests, Respond(r),
           UNCHANGED <<phase, level, row, disturbed>>
    PROVE  Ranges'
<1>1. rows' = LastRows(Append(rows, r))
  BY DEF Respond, OnFinish
<1>2. rows' \in Seq(Requests) /\ Len(rows') <= WINDOW
  BY <1>1, LastRowsProperties
<1>3. arrived' \in Nat /\ finished' \in Nat /\ errored' \in Nat
  BY DEF Respond, OnFinish, Finishes, Ranges
<1>4. /\ engine' \in [Requests -> {"off", "running", "ended", "failed"}]
      /\ handler' \in [Requests -> {"off", "streaming", "done", "gone"}]
      /\ answer' \in [Requests -> Statuses \cup {NONE}]
  BY DEF Respond, Ranges, Statuses
<1> QED BY <1>2, <1>3, <1>4 DEF Ranges

LEMMA RespondRequests ==
    ASSUME Ranges, \A q \in Requests : RequestOK(q) /\ SentOK(q),
           NEW r \in Requests, Respond(r),
           UNCHANGED <<phase, level, row, disturbed>>
    PROVE  \A q \in Requests : (RequestOK(q) /\ SentOK(q))'
<1> TAKE q \in Requests
<1>1. CASE q # r
  <2>1. handler'[q] = handler[q] /\ engine'[q] = engine[q] /\ answer'[q] = answer[q]
    BY <1>1 DEF Respond, Ranges
  <2> QED BY <2>1 DEF RequestOK, SentOK
<1>2. CASE q = r
  <2>1. /\ handler'[r] = "done" /\ engine'[r] = engine[r] /\ handler[r] = "streaming"
        /\ answer'[r] = IF engine[r] = "failed" /\ r \notin Streaming THEN "500" ELSE "200"
        /\ engine[r] \in {"ended", "failed"}
    BY DEF Respond, Ranges
  <2>2. answer[r] = NONE
    BY <2>1 DEF RequestOK
  <2>3. row[r] \notin Statuses
    BY <2>2 DEF RequestOK, Statuses, NONE
  <2> QED BY <1>2, <2>1, <2>3 DEF RequestOK, SentOK, NONE
<1> QED BY <1>1, <1>2

LEMMA RespondCounted ==
    ASSUME Ranges, NEW r \in Requests, Respond(r),
           CountersOK, Balanced, disturbed' = disturbed
    PROVE  CountersOK' /\ Balanced'
<1>1. /\ Seen \in SUBSET Requests /\ Answered \in SUBSET Requests
      /\ Attending \in SUBSET Requests
      /\ r \notin Answered /\ r \in Attending
  BY DEF Seen, Answered, Attending, Respond
<1>2. /\ Cardinality(Seen) \in Nat /\ Cardinality(Answered) \in Nat
      /\ Cardinality(Attending) \in Nat
  BY <1>1, FiniteRequests
<1>3. /\ Cardinality(Answered \cup {r}) = Cardinality(Answered) + 1
      /\ Cardinality(Attending \ {r}) = Cardinality(Attending) - 1
  BY <1>1, OneMore, OneLess
<1>4. /\ Seen' = Seen /\ Answered' = Answered \cup {r} /\ Attending' = Attending \ {r}
  BY DEF Respond, Seen, Answered, Attending, Ranges
<1>5. /\ arrived' = arrived /\ finished' = finished + 1
      /\ errored' = errored \/ errored' = errored + 1
  BY DEF Respond, OnFinish, Finishes
<1>6. CountersOK'
  BY <1>2, <1>3, <1>4, <1>5 DEF CountersOK, Ranges
<1>7. Balanced'
  BY <1>2, <1>3, <1>4, <1>5 DEF Balanced, Ranges
<1> QED BY <1>6, <1>7

LEMMA RespondWindow ==
    ASSUME Ranges, NEW r \in Requests, Respond(r), WindowOK,
           UNCHANGED <<phase, level, row, disturbed>>
    PROVE  WindowOK'
<1> SUFFICES ASSUME Quiet'
             PROVE  /\ (Attending \subseteq Mine)'
                    /\ (arrived = Cardinality(Taken))'
                    /\ (finished = Cardinality(Served))'
                    /\ (errored = Cardinality(Broken))'
                    /\ (finished <= WINDOW => IsInjective(rows) /\ Range(rows) = Served)'
  BY DEF WindowOK
<1>1. Quiet
  BY DEF Quiet, Respond, Ranges, Guests
<1>2. /\ Attending \subseteq Mine
      /\ arrived = Cardinality(Taken)
      /\ finished = Cardinality(Served)
      /\ errored = Cardinality(Broken)
      /\ finished <= WINDOW => IsInjective(rows) /\ Range(rows) = Served
  BY <1>1 DEF WindowOK
<1>3. /\ r \in Mine /\ handler[r] = "streaming" /\ engine[r] \in {"ended", "failed"}
      /\ handler' = [handler EXCEPT ![r] = "done"] /\ engine' = engine
  BY <1>2 DEF Respond, Attending
<1>4. Mine \in SUBSET Requests /\ Mine' = Mine
  BY MineInLevel DEF Mine
<1>5. /\ Attending' = Attending \ {r} /\ Taken' = Taken
      /\ Served' = Served \cup {r} /\ r \notin Served
      /\ Served \in SUBSET Requests
  BY <1>3, <1>4 DEF Attending, Taken, Served, Ranges
<1>6. /\ arrived' = arrived /\ finished' = finished + 1
      /\ errored' = IF engine[r] = "failed" THEN errored + 1 ELSE errored
      /\ rows' = LastRows(Append(rows, r))
  BY DEF Respond, OnFinish, Finishes
<1>7. Cardinality(Served \cup {r}) = Cardinality(Served) + 1
  BY <1>5, OneMore
<1>8. errored' = Cardinality(Broken')
  <2>1. /\ r \notin Broken /\ Broken \in SUBSET Requests
        /\ Broken' = IF engine[r] = "failed" THEN Broken \cup {r} ELSE Broken
    BY <1>3, <1>4 DEF Broken, Ranges
  <2>2. Cardinality(Broken \cup {r}) = Cardinality(Broken) + 1
    BY <2>1, OneMore
  <2> QED BY <1>2, <1>6, <2>1, <2>2
<1>9. ASSUME finished' <= WINDOW
      PROVE  IsInjective(rows') /\ Range(rows') = Served'
  <2>1. finished \in Nat /\ WINDOW \in Nat /\ rows \in Seq(Requests)
    BY ServingAssumption DEF Ranges
  <2>2. finished <= WINDOW /\ finished < WINDOW
    BY <1>6, <1>9, <2>1
  <2>3. IsInjective(rows) /\ Range(rows) = Served
    BY <1>2, <2>2
  <2>4. Len(rows) = finished
    BY <1>2, <2>1, <2>3, AsManyRows
  <2>5. rows' = Append(rows, r)
    BY <1>6, <2>2, <2>4, LastRowsProperties
  <2>6. r \notin ToSet(rows)
    BY <2>3, <1>5 DEF ToSet, Range
  <2>7. ToSet(Append(rows, r)) = ToSet(rows) \cup {r} /\ IsInjective(Append(rows, r))
    BY <2>1, <2>3, <2>6, AppendElements
  <2>8. Range(rows') = ToSet(rows') /\ Range(rows) = ToSet(rows)
    BY DEF Range, ToSet
  <2> QED BY <1>5, <2>3, <2>5, <2>7, <2>8
<1>10. (Attending \subseteq Mine)'
  BY <1>2, <1>4, <1>5
<1>11. finished' = Cardinality(Served')
  BY <1>2, <1>5, <1>6, <1>7
<1> QED BY <1>2, <1>5, <1>6, <1>8, <1>9, <1>10, <1>11
-----------------------------------------------------------------------------
(***************************************************************************)
(* The steps of the harness.                                               *)
(***************************************************************************)
LEMMA UnsentOfLevel ==
    ASSUME Ranges, Unsent # {}
    PROVE  /\ Schedule[level][Min(Unsent)] \in Mine
           /\ row[Schedule[level][Min(Unsent)]] = "unsent"
<1>1. Schedule[level] \in Seq(Requests \ Streaming)
  BY HarnessAssumption DEF Ranges
<1>2. Unsent \subseteq Nat
  BY <1>1, LenProperties DEF Unsent
<1>3. PICK n \in Unsent : \A m \in Unsent : n <= m
  BY <1>2, LeastNatural
<1>4. Min(Unsent) \in Unsent
  BY <1>3 DEF Min
<1> QED BY <1>4 DEF Unsent, Mine, Range

LEMMA FireKeepsInv ==
    ASSUME IInv, NEW r \in Requests, Fire(r)
    PROVE  IInv'
<1>1. /\ Ranges /\ RequestOK(r) /\ SentOK(r) /\ CountersOK /\ Balanced /\ WindowOK
      /\ \A q \in Requests : RequestOK(q) /\ SentOK(q)
  BY DEF IInv
<1>2. /\ Post(r) /\ row' = [row EXCEPT ![r] = "sent"]
      /\ phase = "run" /\ phase' = phase /\ level' = level /\ disturbed' = disturbed
      /\ r \in Mine /\ row[r] = "unsent"
  BY <1>1, UnsentOfLevel DEF Fire
<1>3. /\ Mine = Level(level) /\ Mine \subseteq Requests \ Streaming /\ Mine \in SUBSET Requests
      /\ Mine' = Mine
  BY <1>1, <1>2, MineInLevel DEF Mine
<1>4. /\ arrived' \in Nat /\ finished' \in Nat /\ errored' \in Nat
      /\ rows' \in Seq(Requests) /\ Len(rows') <= WINDOW
      /\ engine' \in [Requests -> {"off", "running", "ended", "failed"}]
      /\ handler' \in [Requests -> {"off", "streaming", "done", "gone"}]
      /\ answer' \in [Requests -> Statuses \cup {NONE}]
      /\ handler'[r] # "off"
      /\ \A q \in Requests \ {r} : /\ handler'[q] = handler[q]
                                   /\ engine'[q] = engine[q]
                                   /\ answer'[q] = answer[q]
  BY <1>1, <1>2, PostRanges
<1>5. row' \in [Requests -> Statuses \cup {"unsent", "sent", "timeout", "cancelled"}]
  BY <1>1, <1>2 DEF Ranges
<1>6. Ranges'
  BY <1>1, <1>2, <1>4, <1>5 DEF Ranges
<1>7. row'[r] = "sent" /\ \A q \in Requests \ {r} : row'[q] = row[q]
  BY <1>1, <1>2 DEF Ranges
<1>8. \A q \in Requests : (RequestOK(q) /\ SentOK(q))'
  <2> TAKE q \in Requests
  <2>1. CASE q # r
    BY <2>1, <1>1, <1>2, <1>4, <1>7 DEF RequestOK, SentOK
  <2>2. CASE q = r
    <3>1. row'[r] \notin Statuses
      BY <1>7 DEF Statuses
    <3>2. RequestOK(r)'
      BY <3>1, <1>1, <1>2, PostRequest
    <3>3. level \in 1..level /\ r \in Level(level)
      BY <1>1, <1>2, <1>3 DEF Ranges
    <3>4. SentOK(r)'
      BY <3>3, <1>2, <1>4, <1>7 DEF SentOK
    <3> QED BY <2>2, <3>2, <3>4
  <2> QED BY <2>1, <2>2
<1>9. CountersOK' /\ Balanced'
  BY <1>1, <1>2, PostCounted
<1>10. ASSUME Quiet'
       PROVE  /\ (Attending \subseteq Mine)'
              /\ (arrived = Cardinality(Taken))'
              /\ (finished = Cardinality(Served))'
              /\ (errored = Cardinality(Broken))'
              /\ (finished <= WINDOW => IsInjective(rows) /\ Range(rows) = Served)'
  <2>1. Quiet
    <3>1. /\ phase' \in {"run", "drain"} /\ ~ disturbed'
          /\ \A q \in Streaming : handler'[q] = "off"
      BY <1>10 DEF Quiet, Guests
    <3>2. phase \in {"run", "drain"} /\ ~ disturbed
      BY <3>1, <1>2
    <3>3. \A q \in Streaming : q \in Requests \ {r}
      BY <1>2, <1>3, ServingAssumption
    <3>4. \A q \in Streaming : handler[q] = "off"
      BY <1>4, <3>1, <3>3
    <3> QED BY <3>2, <3>4 DEF Quiet, Guests
  <2>2. /\ Attending \subseteq Mine
        /\ arrived = Cardinality(Taken)
        /\ finished = Cardinality(Served)
        /\ errored = Cardinality(Broken)
        /\ finished <= WINDOW => IsInjective(rows) /\ Range(rows) = Served
    BY <2>1, <1>1 DEF WindowOK
  <2>3. handler[r] = "off" /\ engine[r] = "off"
    BY <1>1, <1>2 DEF Post, RequestOK
  <2>4. (Attending \subseteq Mine)'
    BY <1>2, <1>3, <1>4, <2>2 DEF Attending
  <2>5. Served' = Served /\ Broken' = Broken
    <3>1. CASE Accept(r)
      <4>1. handler'[r] = "streaming"
        BY <3>1, <1>1 DEF Accept, Ranges
      <4> QED BY <4>1, <1>3, <1>4, <2>3 DEF Served, Broken
    <3>2. CASE Refuse(r)
      <4>1. engine' = engine
        BY <3>2 DEF Refuse
      <4> QED BY <4>1, <1>3, <1>4, <2>3 DEF Served, Broken
    <3> QED BY <3>1, <3>2, <1>2 DEF Post
  <2>6. finished' = finished /\ errored' = errored /\ rows' = rows
    BY <1>2 DEF Post, Accept, Refuse
  <2>7. arrived' = Cardinality(Taken')
    <3>1. CASE Accept(r)
      <4>1. Taken' = Taken \cup {r} /\ r \notin Taken /\ Taken \in SUBSET Requests
        BY <3>1, <1>1, <1>2, <1>3, <2>3 DEF Accept, Taken, Ranges
      <4>2. Cardinality(Taken \cup {r}) = Cardinality(Taken) + 1
        BY <4>1, OneMore
      <4> QED BY <3>1, <4>1, <4>2, <2>2 DEF Accept, Arrivals
    <3>2. CASE Refuse(r)
      <4>1. Taken' = Taken /\ arrived' = arrived
        BY <3>2, <1>3 DEF Refuse, Taken, Arrivals
      <4> QED BY <4>1, <2>2
    <3> QED BY <3>1, <3>2, <1>2 DEF Post
  <2> QED BY <2>2, <2>4, <2>5, <2>6, <2>7
<1>11. WindowOK'
  BY <1>10 DEF WindowOK
<1> QED BY <1>6, <1>8, <1>9, <1>11 DEF IInv

LEMMA BeginLevelKeepsInv ==
    ASSUME IInv, BeginLevel
    PROVE  IInv'
<1>1. /\ Ranges /\ CountersOK /\ Balanced /\ WindowOK
      /\ \A q \in Requests : RequestOK(q) /\ SentOK(q)
  BY DEF IInv
<1>2. /\ arrived' = 0 /\ finished' = 0 /\ errored' = 0 /\ rows' = << >>
      /\ engine' = engine /\ handler' = handler /\ answer' = answer
      /\ disturbed' = (Attending # {}) /\ phase = "reset" /\ phase' = "run"
      /\ level' = level /\ row' = row
  BY DEF BeginLevel, Reset
<1>3. Mine = Level(level) /\ Mine \subseteq Requests \ Streaming /\ Mine' = Mine
  BY <1>1, <1>2, MineInLevel DEF Mine
<1>4. << >> \in Seq(Requests) /\ Len(<< >>) = 0
  BY EmptySeq
<1>5. Ranges'
  <2>1. 0 <= WINDOW
    BY ServingAssumption
  <2>2. rows' \in Seq(Requests) /\ Len(rows') <= WINDOW
    BY <1>2, <1>4, <2>1
  <2> QED BY <2>2, <1>1, <1>2 DEF Ranges
<1>6. \A q \in Requests : (RequestOK(q) /\ SentOK(q))'
  BY <1>1, <1>2 DEF RequestOK, SentOK
<1>7. CountersOK'
  <2>1. Seen \in SUBSET Requests /\ Answered \in SUBSET Requests
    BY DEF Seen, Answered
  <2>2. Cardinality(Seen) \in Nat /\ Cardinality(Answered) \in Nat
    BY <2>1, FiniteRequests
  <2>3. Seen' = Seen /\ Answered' = Answered
    BY <1>2 DEF Seen, Answered
  <2> QED BY <1>2, <2>2, <2>3 DEF CountersOK
<1>8. Attending' = Attending /\ Cardinality({}) = 0
  BY <1>2, FS_EmptySet DEF Attending
<1>9. Balanced'
  <2> SUFFICES ASSUME ~ disturbed'
               PROVE  arrived' - finished' = Cardinality(Attending')
    BY DEF Balanced
  <2>1. Attending = {}
    BY <1>2
  <2>2. Attending' = {}
    BY <2>1, <1>8
  <2>3. Cardinality(Attending') = 0
    BY <2>2, FS_EmptySet
  <2> QED BY <1>2, <2>3
<1>10. ASSUME Quiet'
       PROVE  /\ (Attending \subseteq Mine)'
              /\ (arrived = Cardinality(Taken))'
              /\ (finished = Cardinality(Served))'
              /\ (errored = Cardinality(Broken))'
              /\ (finished <= WINDOW => IsInjective(rows) /\ Range(rows) = Served)'
  <2>1. Attending = {}
    BY <1>10, <1>2 DEF Quiet
  <2>2. \A r \in Mine : engine[r] = "off"
    <3> TAKE r \in Mine
    <3>1. r \in Requests /\ r \notin Streaming /\ r \in Level(level)
      BY <1>3
    <3>2. RequestOK(r) /\ SentOK(r)
      BY <1>1, <3>1
    <3>3. row[r] = "unsent"
      <4> SUFFICES ASSUME row[r] # "unsent" PROVE FALSE
        OBVIOUS
      <4>1. PICK i \in 1..level : r \in Level(i) /\ i # level
        BY <1>2, <3>2 DEF SentOK
      <4>2. i \in 1..NumLevels /\ level \in 1..NumLevels
        <5>1. level \in 1..NumLevels /\ NumLevels \in Nat
          BY <1>1, HarnessAssumption DEF Ranges
        <5> QED BY <5>1
      <4>3. Level(i) \cap Level(level) = {}
        BY <4>1, <4>2, Levels
      <4> QED BY <4>1, <4>3, <3>1
    <3> QED BY <3>1, <3>2, <3>3 DEF RequestOK, SentOK
  <2>3. Taken' = {} /\ Served' = {} /\ Broken' = {}
    BY <1>2, <1>3, <2>2 DEF Taken, Served, Broken
  <2>4. IsInjective(rows') /\ Range(rows') = {}
    BY <1>2 DEF IsInjective, Range
  <2> QED BY <1>2, <1>8, <2>1, <2>3, <2>4
<1>11. WindowOK'
  BY <1>10 DEF WindowOK
<1> QED BY <1>5, <1>6, <1>7, <1>9, <1>11 DEF IInv

(* The other steps of the harness change its rows and where it is, and
   nothing of the server. *)
LEMMA RowsKeepInv ==
    ASSUME IInv, UNCHANGED <<serverVars, phase, level, disturbed>>,
           row' \in [Requests -> Statuses \cup {"unsent", "sent", "timeout", "cancelled"}],
           \A r \in Requests : \/ row'[r] = row[r]
                               \/ /\ row[r] = "sent" /\ row'[r] # "unsent"
                                  /\ row'[r] \in Statuses => row'[r] = answer[r]
    PROVE  IInv'
<1> USE DEF serverVars, registryVars
<1>1. Ranges'
  BY DEF IInv, Ranges
<1>2. \A r \in Requests : (RequestOK(r) /\ SentOK(r))'
  BY DEF IInv, RequestOK, SentOK
<1>3. CountersOK' /\ Balanced'
  BY DEF IInv, CountersOK, Balanced, Seen, Answered, Attending
<1>4. WindowOK'
  <2>1. Quiet' = Quiet /\ Attending' = Attending /\ Mine' = Mine
    BY DEF Quiet, Attending, Mine
  <2>2. Taken' = Taken /\ Served' = Served /\ Broken' = Broken
    BY <2>1 DEF Taken, Served, Broken
  <2> QED BY <2>1, <2>2 DEF IInv, WindowOK
<1> QED BY <1>1, <1>2, <1>3, <1>4 DEF IInv

LEMMA DrainKeepsInv ==
    ASSUME IInv, Drain
    PROVE  IInv'
<1>1. /\ Ranges /\ CountersOK /\ Balanced
      /\ \A q \in Requests : RequestOK(q) /\ SentOK(q)
  BY DEF IInv
<1>2. /\ UNCHANGED <<arrived, finished, errored, rows, engine, handler, answer, row, disturbed>>
      /\ phase = "drain"
  BY DEF Drain, serverVars, registryVars
<1>3. \/ phase' = "done" /\ level' = level
      \/ phase' = "reset" /\ level' = level + 1 /\ level # NumLevels
  BY DEF Drain, NextLevel
<1>4. level' \in 1..NumLevels
  BY <1>1, <1>3, HarnessAssumption DEF Ranges
<1>5. Ranges'
  BY <1>1, <1>2, <1>3, <1>4 DEF Ranges
<1>6. \A q \in Requests : (RequestOK(q) /\ SentOK(q))'
  <2> TAKE q \in Requests
  <2>1. RequestOK(q)'
    BY <1>1, <1>2 DEF RequestOK
  <2>2. \A i \in 1..level : i \in 1..level' /\ (phase' = "reset" => i # level')
    BY <1>1, <1>3 DEF Ranges
  <2>3. SentOK(q)'
    BY <1>1, <1>2, <2>2 DEF SentOK
  <2> QED BY <2>1, <2>3
<1>7. CountersOK' /\ Balanced'
  BY <1>1, <1>2 DEF CountersOK, Balanced, Seen, Answered, Attending
<1>8. WindowOK'
  BY <1>3 DEF WindowOK, Quiet
<1> QED BY <1>5, <1>6, <1>7, <1>8 DEF IInv

(* EndLevel also moves on to the next phase, in which a window is as quiet. *)
LEMMA EndLevelKeepsInv ==
    ASSUME IInv, EndLevel
    PROVE  IInv'
<1> USE DEF serverVars, registryVars
<1>1. /\ Ranges /\ CountersOK /\ Balanced /\ WindowOK
      /\ \A q \in Requests : RequestOK(q) /\ SentOK(q)
  BY DEF IInv
<1>2. /\ UNCHANGED <<arrived, finished, errored, rows, engine, handler, answer, level, disturbed>>
      /\ phase = "run" /\ phase' = "drain"
      /\ row' = [r \in Requests |-> IF row[r] = "sent" THEN "cancelled" ELSE row[r]]
  BY DEF EndLevel
<1>3. \A r \in Requests : row'[r] = IF row[r] = "sent" THEN "cancelled" ELSE row[r]
  BY <1>2
<1>4. row' \in [Requests -> Statuses \cup {"unsent", "sent", "timeout", "cancelled"}]
  BY <1>1, <1>2 DEF Ranges
<1>5. Ranges'
  BY <1>1, <1>2, <1>4 DEF Ranges
<1>6. \A r \in Requests : (RequestOK(r) /\ SentOK(r))'
  BY <1>1, <1>2, <1>3 DEF RequestOK, SentOK, Statuses
<1>7. CountersOK' /\ Balanced'
  BY <1>1, <1>2 DEF CountersOK, Balanced, Seen, Answered, Attending
<1>8. WindowOK'
  <2>1. Quiet' = Quiet /\ Attending' = Attending /\ Mine' = Mine
    BY <1>2 DEF Quiet, Attending, Mine
  <2>2. Taken' = Taken /\ Served' = Served /\ Broken' = Broken
    BY <1>2, <2>1 DEF Taken, Served, Broken
  <2> QED BY <1>1, <1>2, <2>1, <2>2 DEF WindowOK
<1> QED BY <1>5, <1>6, <1>7, <1>8 DEF IInv

LEMMA ReceiveKeepsInv ==
    ASSUME IInv, NEW r \in Requests, Receive(r) \/ TimeOut(r)
    PROVE  IInv'
<1>1. Ranges
  BY DEF IInv
<1>2. /\ UNCHANGED <<serverVars, phase, level, disturbed>>
      /\ row[r] = "sent" /\ (row'[r] = answer[r] \/ row'[r] = "timeout")
      /\ answer[r] # NONE \/ row'[r] = "timeout"
      /\ \A q \in Requests \ {r} : row'[q] = row[q]
  BY <1>1 DEF Receive, TimeOut, Ranges
<1>3. row' \in [Requests -> Statuses \cup {"unsent", "sent", "timeout", "cancelled"}]
  <2>1. CASE Receive(r)
    <3>1. answer[r] \in Statuses
      BY <2>1, <1>1 DEF Receive, Ranges
    <3> QED BY <3>1, <2>1, <1>1 DEF Receive, Ranges
  <2>2. CASE TimeOut(r)
    BY <2>2, <1>1 DEF TimeOut, Ranges
  <2> QED BY <2>1, <2>2
<1>4. \A q \in Requests : \/ row'[q] = row[q]
                          \/ /\ row[q] = "sent" /\ row'[q] # "unsent"
                             /\ row'[q] \in Statuses => row'[q] = answer[q]
  <2>1. answer[r] \in Statuses \cup {NONE}
    BY <1>1 DEF Ranges
  <2>2. row'[r] # "unsent" /\ (row'[r] \in Statuses => row'[r] = answer[r])
    BY <2>1, <1>2 DEF Statuses, NONE
  <2> QED BY <1>2, <2>2
<1> QED BY <1>2, <1>3, <1>4, RowsKeepInv
-----------------------------------------------------------------------------
(***************************************************************************)
(* The steps of the guests and of the server.                              *)
(***************************************************************************)
LEMMA GuestPostsKeepsInv ==
    ASSUME IInv, NEW r \in Requests, GuestPosts(r)
    PROVE  IInv'
<1>1. /\ Ranges /\ RequestOK(r) /\ SentOK(r) /\ CountersOK /\ Balanced /\ WindowOK
      /\ \A q \in Requests : RequestOK(q) /\ SentOK(q)
  BY DEF IInv
<1>2. /\ Post(r) /\ r \in Streaming /\ handler[r] = "off"
      /\ UNCHANGED <<phase, level, row, disturbed>>
  BY DEF GuestPosts, harnessVars, Guests, Post
<1>3. /\ arrived' \in Nat /\ finished' \in Nat /\ errored' \in Nat
      /\ rows' \in Seq(Requests) /\ Len(rows') <= WINDOW
      /\ engine' \in [Requests -> {"off", "running", "ended", "failed"}]
      /\ handler' \in [Requests -> {"off", "streaming", "done", "gone"}]
      /\ answer' \in [Requests -> Statuses \cup {NONE}]
      /\ handler'[r] # "off"
      /\ \A q \in Requests \ {r} : /\ handler'[q] = handler[q]
                                   /\ engine'[q] = engine[q]
                                   /\ answer'[q] = answer[q]
  BY <1>1, <1>2, PostRanges
<1>4. Ranges'
  BY <1>1, <1>2, <1>3 DEF Ranges
<1>5. \A q \in Requests : (RequestOK(q) /\ SentOK(q))'
  <2> TAKE q \in Requests
  <2>1. CASE q # r
    BY <2>1, <1>1, <1>2, <1>3 DEF RequestOK, SentOK
  <2>2. CASE q = r
    <3>1. answer[r] = NONE
      BY <1>1, <1>2 DEF RequestOK
    <3>2. row'[r] \notin Statuses
      BY <3>1, <1>1, <1>2 DEF RequestOK, Statuses, NONE
    <3>3. RequestOK(r)'
      BY <3>2, <1>1, <1>2, PostRequest
    <3>4. SentOK(r)'
      BY <1>1, <1>2 DEF SentOK
    <3> QED BY <2>2, <3>3, <3>4
  <2> QED BY <2>1, <2>2
<1>6. CountersOK' /\ Balanced'
  BY <1>1, <1>2, PostCounted
<1>7. WindowOK'
  BY <1>2, <1>3 DEF WindowOK, Quiet, Guests
<1> QED BY <1>4, <1>5, <1>6, <1>7 DEF IInv

LEMMA GuestLeavesKeepsInv ==
    ASSUME IInv, NEW r \in Requests, GuestLeaves(r)
    PROVE  IInv'
<1>1. /\ Ranges /\ CountersOK
      /\ \A q \in Requests : RequestOK(q) /\ SentOK(q)
  BY DEF IInv
<1>2. /\ r \in Streaming /\ handler[r] = "streaming"
      /\ handler' = [handler EXCEPT ![r] = "gone"] /\ disturbed' = TRUE
      /\ UNCHANGED <<arrived, finished, errored, rows, engine, answer, phase, level, row>>
  BY DEF GuestLeaves, Disconnect, harnessVars, registryVars
<1>3. Ranges'
  BY <1>1, <1>2 DEF Ranges
<1>4. handler'[r] = "gone" /\ \A q \in Requests \ {r} : handler'[q] = handler[q]
  BY <1>1, <1>2 DEF Ranges
<1>5. \A q \in Requests : (RequestOK(q) /\ SentOK(q))'
  BY <1>1, <1>2, <1>4 DEF RequestOK, SentOK
<1>6. CountersOK'
  <2>1. Seen' = Seen /\ Answered' = Answered
    BY <1>2, <1>4 DEF Seen, Answered
  <2> QED BY <1>1, <1>2, <2>1 DEF CountersOK
<1>7. Balanced' /\ WindowOK'
  BY <1>2 DEF Balanced, WindowOK, Quiet
<1> QED BY <1>3, <1>5, <1>6, <1>7 DEF IInv

LEMMA EngineEndsKeepsInv ==
    ASSUME IInv, NEW r \in Requests, EngineEnds(r), UNCHANGED <<harnessVars, disturbed>>
    PROVE  IInv'
<1>1. /\ Ranges /\ RequestOK(r) /\ CountersOK /\ Balanced /\ WindowOK
      /\ \A q \in Requests : RequestOK(q) /\ SentOK(q)
  BY DEF IInv
<1>2. /\ engine[r] = "running" /\ engine'[r] \in {"ended", "failed"}
      /\ engine' \in [Requests -> {"off", "running", "ended", "failed"}]
      /\ \A q \in Requests \ {r} : engine'[q] = engine[q]
      /\ UNCHANGED <<arrived, finished, errored, rows, handler, answer, phase, level, row, disturbed>>
  BY <1>1 DEF EngineEnds, harnessVars, registryVars, Ranges
<1>3. Ranges'
  BY <1>1, <1>2 DEF Ranges
<1>4. \A q \in Requests : (RequestOK(q) /\ SentOK(q))'
  BY <1>1, <1>2 DEF RequestOK, SentOK
<1>5. CountersOK' /\ Balanced'
  BY <1>1, <1>2 DEF CountersOK, Balanced, Seen, Answered, Attending
<1>6. WindowOK'
  <2>1. Quiet' = Quiet /\ Attending' = Attending /\ Mine' = Mine /\ Mine \in SUBSET Requests
    BY <1>1, <1>2, MineInLevel DEF Quiet, Attending, Mine
  <2>2. handler[r] # "done"
    BY <1>1, <1>2 DEF RequestOK
  <2>3. Taken' = Taken /\ Served' = Served /\ Broken' = Broken
    BY <1>2, <2>1, <2>2 DEF Taken, Served, Broken
  <2> QED BY <1>1, <1>2, <2>1, <2>3 DEF WindowOK
<1> QED BY <1>3, <1>4, <1>5, <1>6 DEF IInv

LEMMA RespondKeepsInv ==
    ASSUME IInv, NEW r \in Requests, Respond(r), UNCHANGED <<harnessVars, disturbed>>
    PROVE  IInv'
<1>1. /\ Ranges /\ CountersOK /\ Balanced /\ WindowOK
      /\ \A q \in Requests : RequestOK(q) /\ SentOK(q)
  BY DEF IInv
<1>2. UNCHANGED <<phase, level, row, disturbed>>
  BY DEF harnessVars
<1>3. Ranges'
  BY <1>1, <1>2, RespondRanges
<1>4. \A q \in Requests : (RequestOK(q) /\ SentOK(q))'
  BY <1>1, <1>2, RespondRequests
<1>5. CountersOK' /\ Balanced'
  BY <1>1, <1>2, RespondCounted
<1>6. WindowOK'
  BY <1>1, <1>2, RespondWindow
<1> QED BY <1>3, <1>4, <1>5, <1>6 DEF IInv
-----------------------------------------------------------------------------
LEMMA StepKeepsInv ==
    ASSUME IInv, [Next]_vars
    PROVE  IInv'
<1>1. CASE BeginLevel
  BY <1>1, BeginLevelKeepsInv
<1>2. CASE EndLevel
  BY <1>2, EndLevelKeepsInv
<1>3. CASE Drain
  BY <1>3, DrainKeepsInv
<1>4. ASSUME NEW r \in Requests, Fire(r)
      PROVE  IInv'
  BY <1>4, FireKeepsInv
<1>5. ASSUME NEW r \in Requests, Receive(r) \/ TimeOut(r)
      PROVE  IInv'
  BY <1>5, ReceiveKeepsInv
<1>6. ASSUME NEW r \in Requests, GuestPosts(r)
      PROVE  IInv'
  BY <1>6, GuestPostsKeepsInv
<1>7. ASSUME NEW r \in Requests, GuestLeaves(r)
      PROVE  IInv'
  BY <1>7, GuestLeavesKeepsInv
<1>8. ASSUME NEW r \in Requests, Server(r)
      PROVE  IInv'
  BY <1>8, EngineEndsKeepsInv, RespondKeepsInv DEF Server
<1>9. CASE UNCHANGED vars
  <2>1. UNCHANGED <<serverVars, phase, level, disturbed>> /\ row' = row
    BY <1>9 DEF vars, harnessVars
  <2>2. row' \in [Requests -> Statuses \cup {"unsent", "sent", "timeout", "cancelled"}]
    BY <2>1 DEF IInv, Ranges
  <2>3. \A r \in Requests : \/ row'[r] = row[r]
                            \/ /\ row[r] = "sent" /\ row'[r] # "unsent"
                               /\ row'[r] \in Statuses => row'[r] = answer[r]
    BY <2>1
  <2> QED BY <2>1, <2>2, <2>3, RowsKeepInv
<1> QED BY <1>1, <1>2, <1>3, <1>4, <1>5, <1>6, <1>7, <1>8, <1>9 DEF Next, Harness

(* The inductive invariant holds of every reachable state. *)
THEOREM Invariance == Spec => []IInv
<1>1. Init => IInv
  BY Initially
<1>2. IInv /\ [Next]_vars => IInv'
  BY StepKeepsInv
<1> QED BY <1>1, <1>2, PTL DEF Spec
-----------------------------------------------------------------------------
(***************************************************************************)
(* The type invariant: the counters stay between what the requests allow,  *)
(* the ring buffer keeps its size, and a response is sent exactly when its *)
(* handler is done.                                                        *)
(***************************************************************************)
THEOREM TypeCorrect == Spec => []TypeOK
<1>1. IInv => TypeOK
  <2> SUFFICES ASSUME IInv PROVE TypeOK
    OBVIOUS
  <2>1. Ranges /\ CountersOK /\ \A r \in Requests : RequestOK(r)
    BY DEF IInv
  <2>2. /\ Seen \in SUBSET Requests /\ Answered \in SUBSET Requests
        /\ Requests \in SUBSET Requests
    BY DEF Seen, Answered
  <2>3. /\ Cardinality(Seen) \in Nat /\ Cardinality(Seen) <= Cardinality(Requests)
        /\ Cardinality(Answered) \in Nat /\ Cardinality(Answered) <= Cardinality(Requests)
        /\ Cardinality(Requests) \in Nat
    BY <2>2, NotMore, FiniteRequests
  <2>4. /\ arrived \in 0..Cardinality(Requests) /\ finished \in 0..Cardinality(Requests)
        /\ errored \in 0..finished
    BY <2>1, <2>3 DEF CountersOK, Ranges
  <2>5. rows \in SeqOf(Requests, WINDOW)
    <3>1. /\ Len(rows) \in Nat /\ Len(rows) <= WINDOW /\ WINDOW \in Nat
          /\ rows \in [1..Len(rows) -> Requests]
      BY <2>1, LenProperties, ServingAssumption DEF Ranges
    <3>2. Len(rows) \in 0..WINDOW
      BY <3>1
    <3> QED BY <3>1, <3>2 DEF SeqOf
  <2>6. \A r \in Requests : answer[r] \in Statuses <=> handler[r] = "done"
    <3> TAKE r \in Requests
    <3>1. answer[r] \in Statuses \cup {NONE} /\ NONE \notin Statuses
      BY <2>1 DEF Ranges, Statuses, NONE
    <3>2. answer[r] # NONE <=> handler[r] = "done"
      BY <2>1 DEF RequestOK
    <3> QED BY <3>1, <3>2
  <2>7. /\ engine \in [Requests -> {"off", "running", "ended", "failed"}]
        /\ handler \in [Requests -> {"off", "streaming", "done", "gone"}]
        /\ phase \in {"reset", "run", "drain", "done"} /\ level \in 1..NumLevels
        /\ row \in [Requests -> Statuses \cup {"unsent", "sent", "timeout", "cancelled"}]
    BY <2>1 DEF Ranges
  <2> QED BY <2>4, <2>5, <2>6, <2>7 DEF TypeOK
<1> QED BY <1>1, Invariance, PTL

(***************************************************************************)
(* The gauge of requests in flight: in every window that began with none   *)
(* in progress, and that no streaming client has left, arrivals minus      *)
(* completions is the number of requests in progress, however they         *)
(* overlap and however they end.                                           *)
(***************************************************************************)
THEOREM GaugeIsExact == Spec => []InFlightExact
<1>1. IInv => InFlightExact
  BY DEF IInv, Balanced, InFlightExact, Rendered, Snapshot, InFlight
<1> QED BY <1>1, Invariance, PTL
-----------------------------------------------------------------------------
(***************************************************************************)
(* What a level reports, in a window of its own.                           *)
(***************************************************************************)
LEMMA OwnWindowAccount ==
    ASSUME IInv, OwnWindow
    PROVE  /\ Mine \in SUBSET Requests /\ Mine \cap Streaming = {}
           /\ arrived = Cardinality(Taken)
           /\ finished = Cardinality(Served)
           /\ errored = Cardinality(Broken)
           /\ finished <= WINDOW => IsInjective(rows) /\ Range(rows) = Served
           /\ Broken \subseteq Served /\ Served \subseteq Taken /\ Taken \subseteq Mine
           /\ Completed \subseteq Served \ Broken
           /\ Rejected \cap Taken = {}
<1>1. /\ Ranges /\ WindowOK /\ \A r \in Requests : RequestOK(r)
  BY DEF IInv
<1>2. Quiet
  BY DEF OwnWindow, Quiet
<1>3. Mine \in SUBSET Requests /\ Mine \cap Streaming = {}
  BY <1>1, MineInLevel
<1>4. Broken \subseteq Served /\ Served \subseteq Taken /\ Taken \subseteq Mine
  BY DEF Broken, Served, Taken
<1>5. Completed \subseteq Served \ Broken
  <2> SUFFICES ASSUME NEW r \in Completed
               PROVE  r \in Served /\ r \notin Broken
    OBVIOUS
  <2>1. r \in Mine /\ row[r] = "200"
    BY DEF Completed, Rows
  <2>2. RequestOK(r) /\ r \notin Streaming
    BY <1>1, <1>3, <2>1
  <2>3. engine[r] = "ended" /\ handler[r] = "done"
    BY <2>1, <2>2 DEF RequestOK, Statuses, NONE
  <2> QED BY <2>1, <2>3 DEF Served, Broken
<1>6. Rejected \cap Taken = {}
  <2> SUFFICES ASSUME NEW r \in Rejected
               PROVE  r \notin Taken
    OBVIOUS
  <2>1. r \in Mine /\ row[r] = "503"
    BY DEF Rejected, Rows
  <2>2. RequestOK(r)
    BY <1>1, <1>3, <2>1
  <2>3. engine[r] = "off"
    BY <2>1, <2>2 DEF RequestOK, Statuses
  <2> QED BY <2>3 DEF Taken
<1> QED BY <1>1, <1>2, <1>3, <1>4, <1>5, <1>6 DEF WindowOK

LEMMA CountsAgreeFromInv ==
    ASSUME IInv
    PROVE  CountsAgree
<1> SUFFICES ASSUME OwnWindow
             PROVE  LET lost == Cardinality(Failed) + Cardinality(Unfinished) IN
                    /\ arrived \in Cardinality(Completed)..(Cardinality(Completed) + lost)
                    /\ finished - errored >= Cardinality(Completed)
                    /\ errored <= lost
                    /\ InFlight <= lost
  BY DEF CountsAgree, LevelSummary, Snapshot
<1>1. /\ Mine \in SUBSET Requests
      /\ arrived = Cardinality(Taken)
      /\ finished = Cardinality(Served)
      /\ errored = Cardinality(Broken)
      /\ Broken \subseteq Served /\ Served \subseteq Taken /\ Taken \subseteq Mine
      /\ Completed \subseteq Served \ Broken
      /\ Rejected \cap Taken = {}
  BY OwnWindowAccount
<1>2. Unfinished \subseteq Mine /\ Failed = Mine \ (Completed \cup Rejected \cup Unfinished)
  BY DEF Unfinished, Rows, Failed
<1> DEFINE given == Failed \cup Unfinished
<1>3. /\ given \in SUBSET Requests /\ Failed \in SUBSET Requests /\ Unfinished \in SUBSET Requests
      /\ Taken \in SUBSET Requests /\ Served \in SUBSET Taken /\ Broken \in SUBSET Served
      /\ Completed \in SUBSET (Served \ Broken) /\ Completed \in SUBSET Taken
      /\ Served \in SUBSET Requests /\ Served \ Broken \in SUBSET Requests
      /\ Taken \ Completed \in SUBSET given /\ Broken \in SUBSET given
      /\ Taken \ Served \in SUBSET given
      /\ Failed \cap Unfinished = {}
  BY <1>1, <1>2
<1>4. Cardinality(given) = Cardinality(Failed) + Cardinality(Unfinished)
  <2>1. IsFiniteSet(Failed) /\ IsFiniteSet(Unfinished)
    BY <1>3, FiniteRequests
  <2> QED BY <2>1, <1>3, DisjointUnion
<1> HIDE DEF given
<1>5. /\ Cardinality(given) \in Nat /\ Cardinality(Taken) \in Nat
      /\ Cardinality(Served) \in Nat
  BY <1>3, FiniteRequests
<1>6. Cardinality(Broken) \in Nat /\ Cardinality(Completed) \in Nat
  <2>1. Broken \in SUBSET Requests /\ Completed \in SUBSET Requests
    BY <1>3
  <2> QED BY <2>1, FiniteRequests
<1>7. Cardinality(Taken \ Completed) = Cardinality(Taken) - Cardinality(Completed)
  BY <1>3, Apart
<1>8. Cardinality(Served \ Broken) = Cardinality(Served) - Cardinality(Broken)
  BY <1>3, Apart
<1>9. Cardinality(Taken \ Served) = Cardinality(Taken) - Cardinality(Served)
  BY <1>3, Apart
<1>10. /\ Cardinality(Taken \ Completed) <= Cardinality(given)
       /\ Cardinality(Broken) <= Cardinality(given)
       /\ Cardinality(Taken \ Served) <= Cardinality(given)
  BY <1>3, NotMore
<1>11. Cardinality(Completed) <= Cardinality(Served \ Broken)
  BY <1>3, NotMore
<1>12. Cardinality(Completed) <= Cardinality(Taken)
  BY <1>3, NotMore
<1> QED BY <1>1, <1>4, <1>5, <1>6, <1>7, <1>8, <1>9, <1>10, <1>11, <1>12 DEF InFlight

LEMMA PercentilesAgreeFromInv ==
    ASSUME IInv
    PROVE  PercentilesAgree
<1> DEFINE mine == HarnessSummary(Samples)
<1> SUFFICES ASSUME OwnWindow, Cardinality(Completed) = Cardinality(Mine),
                    Cardinality(Mine) <= WINDOW
             PROVE  /\ Summary(Times(rows)) = mine
                    /\ Exposed(Times(rows)) = {<<50, mine.p50>>, <<90, mine.p90>>, <<99, mine.p99>>}
                                                \ {<<q, Unknown>> : q \in {50, 90, 99}}
                    /\ Len(rows) = finished
  BY DEF PercentilesAgree, LevelSummary, Snapshot, Rendered
<1>1. /\ Mine \in SUBSET Requests
      /\ finished = Cardinality(Served)
      /\ finished <= WINDOW => IsInjective(rows) /\ Range(rows) = Served
      /\ Broken \subseteq Served /\ Served \subseteq Taken /\ Taken \subseteq Mine
      /\ Completed \subseteq Served \ Broken
  BY OwnWindowAccount
<1>2. Completed = Mine /\ IsFiniteSet(Completed)
  <2>1. Completed \in SUBSET Mine /\ IsFiniteSet(Mine)
    BY <1>1, FiniteRequests
  <2>2. Completed = Mine
    BY <2>1, FS_Subset
  <2> QED BY <2>1, <2>2
<1>3. Served = Mine
  BY <1>1, <1>2
<1>4. IsInjective(rows) /\ Range(rows) = Completed
  BY <1>1, <1>2, <1>3
<1>5. rows \in Seq(Requests)
  BY DEF IInv, Ranges
<1> DEFINE t == SetToSeq(Completed)
<1>6. t \in Seq(Requests) /\ IsInjective(t) /\ Range(t) = Completed
  <2>1. /\ SetToSeq(Completed) \in Seq(Completed)
        /\ IsInjective(SetToSeq(Completed)) /\ Range(SetToSeq(Completed)) = Completed
    BY <1>2, SetToSeqProperties
  <2>2. Completed \subseteq Requests
    BY <1>1, <1>2
  <2> QED BY <2>1, <2>2
<1>7. Samples = Times(t)
  BY DEF Samples
<1> HIDE DEF t
<1>8. /\ Summary(Times(rows)) = mine
      /\ Exposed(Times(rows)) = {<<50, mine.p50>>, <<90, mine.p90>>, <<99, mine.p99>>}
                                  \ {<<q, Unknown>> : q \in {50, 90, 99}}
  BY <1>4, <1>5, <1>6, <1>7, SameSummary
<1>9. Len(rows) = finished
  BY <1>1, <1>2, <1>3, <1>4, <1>5, AsManyRows
<1> QED BY <1>8, <1>9

(***************************************************************************)
(* The report of a level and what the server says of the same window, for  *)
(* a level that had the server to itself: every completed request is       *)
(* counted as finished without an error, none that was rejected as         *)
(* arrived, the rest is what the harness gave up; and if all were served   *)
(* and the ring buffer holds them, the percentiles of the harness, of the  *)
(* JSON metrics and of the Prometheus text are the same numbers, in        *)
(* whatever order the requests finished.                                   *)
(***************************************************************************)
THEOREM ReportsOfALevelAgree == Spec => []ReportsAgree
<1>1. IInv => ReportsAgree
  BY CountsAgreeFromInv, PercentilesAgreeFromInv DEF ReportsAgree
<1> QED BY <1>1, Invariance, PTL
=============================================================================
