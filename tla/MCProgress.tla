----------------------------- MODULE MCProgress -----------------------------
(* Progress instantiated for TLC: one goroutine that logs two stages and   *)
(* what becomes of one of them, and one that logs anything at any time.    *)
EXTENDS Progress

MCMaxRecords == [g \in Loggers |-> IF g = "stages" THEN 3 ELSE 1]

=============================================================================
