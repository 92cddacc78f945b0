----------------------------- MODULE LoadHarness -----------------------------
(***************************************************************************)
(* The open-loop load harness, bench/load.py, against the server: levels   *)
(* of load, one after another, each with a fresh window of metrics, a      *)
(* schedule of requests sent whatever the server does, a deadline, and a   *)
(* wait until the server is empty.  Other clients stream meanwhile, and    *)
(* may go away.                                                            *)
(*                                                                         *)
(* Time is not in the model: a timeout may come at any moment.  The        *)
(* schedule decides only when a request is sent.                           *)
(***************************************************************************)
EXTENDS Serving

CONSTANTS
    NumLevels,     \* levels times runs of each
    Schedule       \* the requests of each level, in the order of their times

ASSUME HarnessAssumption ==
    /\ NumLevels \in Nat \ {0}
    /\ DOMAIN Schedule = 1..NumLevels
    /\ \A i \in 1..NumLevels : Schedule[i] \in Seq(Requests \ Streaming)
    /\ \A i, j \in 1..NumLevels : i # j => Range(Schedule[i]) \cap Range(Schedule[j]) = {}

VARIABLES
    phase,         \* reset, run, drain, or done
    level,
    row,           \* the status in a request's row, once it is there
    disturbed      \* history: this window began with requests in progress, or
                   \* a client has left one

harnessVars == <<phase, level, row>>
vars == <<serverVars, harnessVars, disturbed>>

Guests == Streaming
Mine   == Range(Schedule[level])

Init ==
    /\ ServerInit
    /\ phase = "reset" /\ level = 1
    /\ row = [r \in Requests |-> "unsent"]
    /\ disturbed = FALSE
-----------------------------------------------------------------------------
BeginLevel ==
    /\ phase = "reset"
    /\ Reset
    /\ disturbed' = (Attending # {})
    /\ phase' = "run"
    /\ UNCHANGED <<level, row>>

(* one_request: post, and wait for the answer at most drain_timeout.  The
   schedule is fixed beforehand: no answer is waited for to send the next. *)
Unsent == {i \in DOMAIN Schedule[level] : row[Schedule[level][i]] = "unsent"}

Fire(r) ==
    /\ phase = "run" /\ Unsent # {} /\ r = Schedule[level][Min(Unsent)]
    /\ Post(r)
    /\ row' = [row EXCEPT ![r] = "sent"]
    /\ UNCHANGED <<phase, level, disturbed>>

Receive(r) ==
    /\ phase = "run" /\ row[r] = "sent" /\ answer[r] # NONE
    /\ row' = [row EXCEPT ![r] = answer[r]]
    /\ UNCHANGED <<serverVars, phase, level, disturbed>>

TimeOut(r) ==
    /\ phase = "run" /\ row[r] = "sent"
    /\ row' = [row EXCEPT ![r] = "timeout"]
    /\ UNCHANGED <<serverVars, phase, level, disturbed>>

(* asyncio.wait returns when all are done or the deadline, which is later than
   the last of the schedule, has passed; what is pending is cancelled. *)
EndLevel ==
    /\ phase = "run" /\ Unsent = {}
    /\ row' = [r \in Requests |-> IF row[r] = "sent" THEN "cancelled" ELSE row[r]]
    /\ phase' = "drain"
    /\ UNCHANGED <<serverVars, level, disturbed>>

(* drain: until nothing is in flight, or sixty seconds have passed; seeded
   fault: without the deadline. *)
NextLevel ==
    /\ phase' = IF level = NumLevels THEN "done" ELSE "reset"
    /\ level' = IF level = NumLevels THEN level ELSE level + 1

MayGiveUpFault == FALSE
MayGiveUp == TRUE

Drain ==
    /\ phase = "drain"
    /\ InFlight <= 0 \/ MayGiveUp
    /\ NextLevel
    /\ UNCHANGED <<serverVars, row, disturbed>>
-----------------------------------------------------------------------------
GuestPosts(r) ==
    /\ r \in Guests
    /\ Post(r)
    /\ UNCHANGED <<harnessVars, disturbed>>

GuestLeaves(r) ==
    /\ Disconnect(r)
    /\ disturbed' = TRUE
    /\ UNCHANGED harnessVars

Server(r) ==
    /\ EngineEnds(r) \/ Respond(r)
    /\ UNCHANGED <<harnessVars, disturbed>>

Harness ==
    \/ BeginLevel \/ EndLevel \/ Drain
    \/ \E r \in Requests : Fire(r) \/ Receive(r) \/ TimeOut(r)

Next ==
    \/ Harness
    \/ \E r \in Requests : GuestPosts(r) \/ GuestLeaves(r) \/ Server(r)

Spec == Init /\ [][Next]_vars

(* The harness runs on: its clocks do, and no await of it lacks a timeout.
   The server, the engine and the guests owe nothing. *)
FairSpec == Spec /\ WF_vars(Harness)
-----------------------------------------------------------------------------
(* The percentiles of a level: load.py has a function of its own, "the same
   convention as llama_serve.metrics._pct"; seeded fault: no rounding. *)
HarnessRankFault(n, q) == (q * (n - 1)) \div 100
HarnessRank(n, q) == RoundedPercent(q * (n - 1))
HarnessPct(values, q) ==
    IF values = << >> THEN Unknown
    ELSE Ranked(values, HarnessRank(Len(values), q) + 1)
HarnessSummary(values) ==
    [p50 |-> HarnessPct(values, 50),
     p90 |-> IF Len(values) >= Floor90 THEN HarnessPct(values, 90) ELSE Unknown,
     p99 |-> IF Len(values) >= Floor99 THEN HarnessPct(values, 99) ELSE Unknown]

(* What a run of the level reports of its requests. *)
Rows(statuses) == {r \in Mine : row[r] \in statuses}
Completed  == Rows({"200"})
Rejected   == Rows({"503"})
Unfinished == Rows({"cancelled"})
Failed     == Mine \ (Completed \cup Rejected \cup Unfinished)

(* The samples of the requests that were answered with 200. *)
Samples == Times(SetToSeq(Completed))

LevelSummary ==
    [scheduled |-> Cardinality(Mine), completed |-> Cardinality(Completed),
     rejected_503 |-> Cardinality(Rejected), failed |-> Cardinality(Failed),
     unfinished_at_deadline |-> Cardinality(Unfinished),
     latency |-> HarnessSummary(Samples)]
=============================================================================
