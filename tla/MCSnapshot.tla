------------------------------ MODULE MCSnapshot ----------------------------
(* Snapshot instantiated for TLC: one device in each of two sources, and   *)
(* records that differ in one field from each other.                       *)
EXTENDS Snapshot, TLC

MCSourceOf == [d \in Devices |-> IF d = "laptop" THEN "intune" ELSE "jamf"]

Rec(s, u, n, x) == [serial |-> s, user |-> u, name |-> n, detail |-> x]

MCRecordsOf ==
  "laptop" :> {Rec("S", "ann", "old", "x"), Rec("S", "ann", "new", "y"),
               Rec("T", "ann", "old", "y"), Rec("S", "bob", "old", "x")} @@
  "tablet" :> {Rec("U", "bob", "old", "x"), Rec("U", "nobody", "old", "x")}

=============================================================================
