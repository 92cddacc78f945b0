---------------------------- MODULE MCLoadHarness ----------------------------
(***************************************************************************)
(* Instances of the load harness for TLC.                                  *)
(***************************************************************************)
EXTENDS LoadHarnessProperties

(* Requests 1 and 2 are the first level, 3 the second, 4 streams. *)
TwoLevels == <<<<1, 2>>, <<3>>>>
Slower     == [r \in 1..4 |-> 5 - r]
=============================================================================
