------------------------------ MODULE MCLedger ------------------------------
(* Ledger instantiated for TLC; devices, serials and names are             *)
(* interchangeable.  Two devices that keep their serials, or one whose ID  *)
(* is reused for another serial: all of both at once is more than TLC has  *)
(* to see, since no step of the ledger reads another device's record.      *)
EXTENDS Ledger, FiniteSets, TLC

Symmetry ==
  Permutations(Keys) \cup Permutations(Serials) \cup Permutations(Names)

Uses(k, s) ==
  \/ \E x \in {intents'[k], disk'[k], told'[k]} : x \notin {NoIntent, NoGrant} /\ x.serial = s
  \/ \E r \in outstanding' : r.key = k /\ r.serial = s

InFocus ==
  \/ Cardinality({k \in Keys : \E s \in Serials : Uses(k, s)}) <= 1
  \/ Cardinality({s \in Serials : \E k \in Keys : Uses(k, s)}) <= 1

MCSpec == Init /\ [][Next /\ InFocus]_vars

=============================================================================
