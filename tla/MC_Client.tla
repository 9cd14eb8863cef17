------------------------------ MODULE MC_Client ------------------------------
(* Two main suites, a success and a failure conclusion, one transport error. *)
EXTENDS Client, TLC

CONSTANTS s1, s2

MCSuites == {s1, s2}
MCConclusions == {"SUCCESSFUL", "FAILED"}
====
