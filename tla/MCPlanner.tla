------------------------------ MODULE MCPlanner -----------------------------
(* Planner instantiated for TLC: two bases, the first also in lower case,  *)
(* and the sequence names of the first, two for most devices but only one  *)
(* for device 3, whose platform allows no longer ones.                     *)
EXTENDS Planner

MCNames == {"A", "a", "A-1", "a-1", "A-2", "a-2", "B"}

MCFold == [n \in MCNames |->
  IF n \in {"A", "a"} THEN 1
  ELSE IF n \in {"A-1", "a-1"} THEN 2
  ELSE IF n \in {"A-2", "a-2"} THEN 3 ELSE 4]

MCSuffixes == [d \in 1 .. 3 |-> [n \in MCNames |->
  IF n = "A" THEN IF d = 3 THEN <<"A-1">> ELSE <<"A-1", "A-2">>
  ELSE IF n = "a" THEN IF d = 3 THEN <<"a-1">> ELSE <<"a-1", "a-2">>
  ELSE <<>>]]

\* The names devices start with, and one name for the devices policy gives none.
CONSTANTS Held, Unused

MCInit ==
  /\ Init
  /\ \A d \in Devices : current[d] \in Held /\ (kind[d] = "out" => want[d] = Unused)

MCSpec == MCInit /\ [][Next]_vars

=============================================================================
