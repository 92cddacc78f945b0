------------------------- MODULE LoadHarnessProperties -------------------------
(***************************************************************************)
(* What is checked of the API, its metrics, and the load harness.          *)
(***************************************************************************)
EXTENDS LoadHarness

(* The type invariant: in particular the ring buffer keeps its size, and a
   response is sent once its handler is done. *)
TypeOK ==
    /\ arrived \in 0..Cardinality(Requests) /\ finished \in 0..Cardinality(Requests)
    /\ errored \in 0..finished
    /\ rows \in SeqOf(Requests, WINDOW)
    /\ engine \in [Requests -> {"off", "running", "ended", "failed"}]
    /\ handler \in [Requests -> {"off", "streaming", "done", "gone"}]
    /\ \A r \in Requests : answer[r] \in Statuses <=> handler[r] = "done"
    /\ phase \in {"reset", "run", "drain", "done"} /\ level \in 1..NumLevels
    /\ row \in [Requests -> Statuses \cup {"unsent", "sent", "timeout", "cancelled"}]

(***************************************************************************)
(* in_flight (metrics.py:101) is the number of requests in progress, in    *)
(* every window that began with none and that no streaming client has      *)
(* left: a refusal, a failure and an error response are counted as often   *)
(* on one side as on the other.                                            *)
(***************************************************************************)
InFlightExact == ~ disturbed => Rendered.requests_in_flight = Cardinality(Attending)

(* When a level has ended, in a window of its own, with nobody else there. *)
OwnWindow ==
    /\ phase = "drain" /\ ~ disturbed
    /\ \A r \in Guests : handler[r] = "off"

(***************************************************************************)
(* Every request that the level reports as completed is counted by the     *)
(* server as finished, none that it reports as rejected as arrived, and    *)
(* one that ended in an error is not among the completed; what else has    *)
(* arrived was given up by the harness, which does not tell the server     *)
(* (bench/load.py:187-189, 198-200).                                       *)
(***************************************************************************)
CountsAgree ==
    OwnWindow =>
        LET lost == LevelSummary.failed + LevelSummary.unfinished_at_deadline IN
        /\ Snapshot.arrived \in LevelSummary.completed..(LevelSummary.completed + lost)
        /\ Snapshot.finished - Snapshot.errored >= LevelSummary.completed
        /\ Snapshot.errored <= lost
        /\ Snapshot.in_flight <= lost

(***************************************************************************)
(* "a percentile reported by this harness and one scraped from /metrics    *)
(* mean the same thing" (bench/load.py:88-90): for a level all of whose    *)
(* requests were served they are equal, as far as the window of the        *)
(* registry reaches.                                                       *)
(***************************************************************************)
PercentilesAgree ==
    OwnWindow /\ LevelSummary.completed = LevelSummary.scheduled
              /\ LevelSummary.scheduled <= WINDOW =>
        LET mine == LevelSummary.latency IN
        /\ Snapshot.latency = mine
        /\ Rendered.latency = {<<50, mine.p50>>, <<90, mine.p90>>, <<99, mine.p99>>}
                                \ {<<q, Unknown>> : q \in {50, 90, 99}}
        /\ Rendered.latency_count = Rendered.requests_finished_total

(***************************************************************************)
(* What the harness reports of a level and what the server reports of the  *)
(* same window do not contradict each other.                               *)
(***************************************************************************)
ReportsAgree == CountsAgree /\ PercentilesAgree

(***************************************************************************)
(* The harness comes to its end whatever the server, the engine and other  *)
(* clients do: also if a request is never answered, and if in_flight never *)
(* returns to zero because a streaming client has left.                    *)
(***************************************************************************)
HarnessEnds == <>(phase = "done")
=============================================================================
