---------------------------- MODULE MCEventPath ----------------------------
(* Two tasks, a log with one free entry after boot, data of two parts.       *)
EXTENDS EventPath
=============================================================================
