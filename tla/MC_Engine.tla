------------------------------ MODULE MC_Engine ------------------------------
(* The built-in testrun command and the example plugin's command; three    *)
(* directory entries, enough for two plugins offering one name and an      *)
(* entry that fails in between.                                            *)
EXTENDS Engine, TLC

MCNames == {"testrun", "example"}
MCBuiltins == {"testrun"}
====
