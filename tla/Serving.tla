------------------------------- MODULE Serving -------------------------------
(***************************************************************************)
(* The HTTP API (api.py) and the request metrics (metrics.py).  The engine *)
(* behind them is what the other modules promise of it: a request that is  *)
(* accepted ends once, with or without an error.                           *)
(*                                                                         *)
(* Handlers run on one event loop: what a handler does between two awaits  *)
(* is one step.  That of a plain request runs to its end also when its     *)
(* client is gone; that of a streaming one is a generator, which the       *)
(* framework drops where it stands.                                        *)
(*                                                                         *)
(* What a request takes is given, since nothing depends on it but the      *)
(* numbers reported; it stands for each of the four times of a row, which  *)
(* are treated alike.  The counters of tokens and the rates, and the texts *)
(* and formats of the answers, are left out.                               *)
(***************************************************************************)
EXTENDS Integers, FiniteSets, SequencesExt

CONSTANTS
    Requests,
    Streaming,     \* requests whose body has stream = true
    Latency,       \* what each request takes
    WINDOW,        \* how many rows the registry keeps
    Floor90,       \* how many samples a 90th percentile needs
    Floor99        \* and a 99th

ASSUME ServingAssumption ==
    /\ IsFiniteSet(Requests) /\ Streaming \subseteq Requests
    /\ Latency \in [Requests -> Nat]
    /\ WINDOW \in Nat \ {0}
    /\ {Floor90, Floor99} \subseteq Nat \ {0} /\ Floor90 <= Floor99

VARIABLES
    arrived, finished, errored,   \* the registry's counters
    rows,          \* its ring buffer: finished requests, a row for each
    engine,        \* per request: off, running, ended or failed
    handler,       \* off, streaming, done, or gone with its client
    answer         \* the status of the response

registryVars == <<arrived, finished, errored, rows>>
serverVars   == <<registryVars, engine, handler, answer>>

NONE == "none"
Statuses == {"200", "413", "500", "503"}

ServerInit ==
    /\ arrived = 0 /\ finished = 0 /\ errored = 0
    /\ rows = << >>
    /\ engine = [r \in Requests |-> "off"]
    /\ handler = [r \in Requests |-> "off"]
    /\ answer = [r \in Requests |-> NONE]
-----------------------------------------------------------------------------
(***************************************************************************)
(* Percentiles.  Python rounds a half to the even neighbour.               *)
(***************************************************************************)
RoundedPercent(n) ==
    LET up == (n + 50) \div 100
    IN  IF n % 100 = 50 /\ up % 2 = 1 THEN up - 1 ELSE up

(* sorted(values)[k - 1] *)
Ranked(values, k) ==
    CHOOSE v \in Range(values) :
        /\ Cardinality({i \in DOMAIN values : values[i] < v}) < k
        /\ k <= Cardinality({i \in DOMAIN values : values[i] <= v})

(* _pct, with q in percent; None is not a time. *)
Unknown == -1

Pct(values, q, minN) ==
    IF Len(values) < minN \/ values = << >> THEN Unknown
    ELSE Ranked(values, RoundedPercent(q * (Len(values) - 1)) + 1)

Times(requests) == [i \in DOMAIN requests |-> Latency[requests[i]]]

(* _summary, of the JSON metrics *)
Summary(values) ==
    [p50 |-> Pct(values, 50, 1), p90 |-> Pct(values, 90, Floor90),
     p99 |-> Pct(values, 99, Floor99)]

(* The quantiles of a Prometheus summary: those that are not known are left
   out. *)
Exposed(values) ==
    {<<50, Pct(values, 50, 1)>>, <<90, Pct(values, 90, Floor90)>>, <<99, Pct(values, 99, Floor99)>>}
        \ {<<q, Unknown>> : q \in {50, 90, 99}}

InFlight == arrived - finished

(* GET /metrics.json *)
Snapshot ==
    [arrived |-> arrived, finished |-> finished, errored |-> errored,
     in_flight |-> InFlight, latency |-> Summary(Times(rows))]

(* GET /metrics: the counters of the window, and the last rows of it. *)
Rendered ==
    [requests_arrived_total |-> Snapshot.arrived,
     requests_finished_total |-> Snapshot.finished,
     requests_errored_total |-> Snapshot.errored,
     requests_in_flight |-> Snapshot.in_flight,
     latency |-> Exposed(Times(rows)),
     latency_count |-> Len(rows)]
-----------------------------------------------------------------------------
Attending == {r \in Requests : handler[r] = "streaming"}

(* on_arrival; seeded fault: called before submit, which may refuse. *)
ArrivalsFault(accepted) == arrived + 1
Arrivals(accepted) == IF accepted THEN arrived + 1 ELSE arrived

(* generate, up to its first await: a request is counted when the engine has
   taken it on.  Whether it does depends on its queue and on the prompt. *)
Accept(r) ==
    /\ engine' = [engine EXCEPT ![r] = "running"]
    /\ handler' = [handler EXCEPT ![r] = "streaming"]
    /\ arrived' = Arrivals(TRUE)
    /\ UNCHANGED <<finished, errored, rows, answer>>

Refuse(r) ==
    /\ \E refusal \in {"503", "413"} : answer' = [answer EXCEPT ![r] = refusal]
    /\ handler' = [handler EXCEPT ![r] = "done"]
    /\ arrived' = Arrivals(FALSE)
    /\ UNCHANGED <<finished, errored, rows, engine>>

Post(r) == handler[r] = "off" /\ (Accept(r) \/ Refuse(r))

(* The engine closes the stream. *)
EngineEnds(r) ==
    /\ engine[r] = "running"
    /\ \E how \in {"ended", "failed"} : engine' = [engine EXCEPT ![r] = how]
    /\ UNCHANGED <<registryVars, handler, answer>>

(* on_finish; seeded fault: a failed request is not counted. *)
FinishesFault(r) == IF engine[r] = "failed" THEN finished ELSE finished + 1
Finishes(r) == finished + 1

(* deque(maxlen = WINDOW); seeded fault: without it. *)
LastRowsFault(all) == all
LastRows(all) == IF Len(all) > WINDOW THEN Tail(all) ELSE all

OnFinish(r) ==
    /\ finished' = Finishes(r)
    /\ errored' = IF engine[r] = "failed" THEN errored + 1 ELSE errored
    /\ rows' = LastRows(Append(rows, r))

(* generate or _sse, after the stream: the metrics come first, so that a
   failed request is counted also where an exception answers it. *)
Respond(r) ==
    /\ handler[r] = "streaming" /\ engine[r] \in {"ended", "failed"}
    /\ OnFinish(r)
    /\ handler' = [handler EXCEPT ![r] = "done"]
    /\ answer' = [answer EXCEPT ![r] =
                    IF engine[r] = "failed" /\ r \notin Streaming THEN "500" ELSE "200"]
    /\ UNCHANGED <<arrived, engine>>

(* The client of a streaming request goes away: on_finish is not called, and
   the engine, which nobody tells, goes on. *)
Disconnect(r) ==
    /\ r \in Streaming /\ handler[r] = "streaming"
    /\ handler' = [handler EXCEPT ![r] = "gone"]
    /\ UNCHANGED <<registryVars, engine, answer>>

(* POST /metrics/reset *)
Reset ==
    /\ arrived' = 0 /\ finished' = 0 /\ errored' = 0
    /\ rows' = << >>
    /\ UNCHANGED <<engine, handler, answer>>
=============================================================================
