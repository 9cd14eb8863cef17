--------------------------- MODULE MC_Collector ---------------------------
(***************************************************************************)
(* Model-checking instance of Collector: two main suites (so that a merge  *)
(* meets a known and a new suite, and map order has two outcomes), a       *)
(* success and a failure conclusion, one transport error.                  *)
(***************************************************************************)
EXTENDS Collector, TLC

CONSTANTS s1, s2

MCSuites == {s1, s2}

MCConclusions == {"SUCCESSFUL", "FAILED"}
=============================================================================
