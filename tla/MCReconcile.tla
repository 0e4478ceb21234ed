----------------------------- MODULE MCReconcile ----------------------------
(* Reconcile instantiated for TLC.  Two devices and all their plans over   *)
(* many cycles are too many, so each behaviour has one of two scopes:      *)
(* "pool", where both devices may be renamed, to one name, by times 0 and  *)
(* 1; or "records", where only the first is, to any name, at any time, and *)
(* with saves that fail late.  A scope restricts what plans and clocks and *)
(* late failures give, never whether a step of the process can be taken.   *)
EXTENDS Reconcile

CONSTANT PoolTarget

VARIABLE scope

PoolScope ==
  /\ now' <= 1
  /\ \A d \in Devices : item'[d].rename => item'[d].desired = PoolTarget
  /\ disk' = intents'

RecordsScope == \A d \in Devices \ {1} : item'[d] = NoItem

MCInit == Init /\ scope \in {"pool", "records"}

MCNext ==
  /\ Next
  /\ UNCHANGED scope
  /\ scope = "pool" => PoolScope
  /\ scope = "records" => RecordsScope

MCSpec == MCInit /\ [][MCNext]_<<vars, scope>> /\ WF_vars(Process)

=============================================================================
