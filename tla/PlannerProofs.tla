---------------------------- MODULE PlannerProofs ---------------------------
(***************************************************************************)
(* Theorems about Planner, for any number of devices, names and sequence   *)
(* names, and any policy: no plan gives a name twice, nor one that belongs *)
(* to a device outside the plan, fixed names are given exactly or not, and *)
(* plans that are carried out leave nothing to rename in the end.          *)
(***************************************************************************)
EXTENDS Planner, FiniteSetTheorems, WellFoundedInduction, TLAPS

Outside == {d \in Devices : kind[d] = "out"}

\* The statuses of each phase: nothing is given before all groups are seen.
Progression ==
  /\ \A d \in Devices : status[d] = "out" <=> kind[d] = "out"
  /\ phase = "groups" => \A d \in Devices : ~Managed(d)
  /\ phase = "done" => Losers = {}
  /\ \A d \in Devices : status[d] = "candidate" => name[d] = want[d]

\* A key is reserved for devices outside the plan from the start; and for
\* nobody else but devices the plan found invalid.
Reservations ==
  /\ KeysHeld(Outside) \subseteq reserved
  /\ reserved \subseteq KeysHeld({d \in Devices : status[d] \in {"out", "invalid"}})

\* A winner competed for its key, which no device outside the plan has.
WinnersCompete ==
  \A k \in KeysOf : winner[k] # 0 => winner[k] \in Group(k) /\ k \notin KeysHeld(Outside)

\* `occupied` covers whatever was reserved, and whatever was given.
Covered ==
  phase # "groups" =>
    /\ reserved \subseteq occupied
    /\ \A d \in Devices : Managed(d) => Fold[name[d]] \in occupied

\* The fate of a fixed name is settled when its group is seen.
FixedSettled ==
  \A d \in Devices : kind[d] = "fixed" =>
    /\ status[d] = "candidate" =>
         /\ phase = "groups"
         /\ Fold[want[d]] < cursor => winner[Fold[want[d]]] = d
    /\ Managed(d) => name[d] = want[d]

\* A single fixed name is not given only if somebody keeps it.
FixedKept ==
  \A d \in Devices :
    kind[d] = "fixed" /\ Fixed(Fold[want[d]]) = {d} /\ status[d] = "invalid"
      => \E e \in Devices \ {d} :
           /\ status[e] \in {"out", "invalid"}
           /\ current[e] # NoName
           /\ Fold[current[e]] = Fold[want[d]]

IInv ==
  /\ TypeOK /\ Progression /\ Reservations /\ WinnersCompete /\ Covered
  /\ UniqueNames /\ UnmanagedRespected
  /\ FixedSettled /\ FixedKept

-----------------------------------------------------------------------------
\* A round starts: nothing is given, and no group was seen.
Fresh ==
  /\ current \in [Devices -> Names \cup {NoName}]
  /\ want \in [Devices -> Names]
  /\ kind \in [Devices -> {"fixed", "rule", "out"}]
  /\ preserve \in BOOLEAN
  /\ status = StartStatus /\ name = want
  /\ reserved = KeysHeld(ReservedAtStart) /\ winner = NoWinners /\ occupied = {}
  /\ phase = "groups" /\ cursor = 1 /\ round \in Nat

LEMMA FreshHolds == Fresh => IInv
<1> SUFFICES ASSUME Fresh PROVE IInv
  OBVIOUS
<1> USE DEF Fresh
<1>1. \A k \in KeysOf : winner[k] = 0
  BY DEF NoWinners
<1>2. \A d \in Devices : status[d] = IF kind[d] = "out" THEN "out" ELSE "candidate"
  BY DEF StartStatus
<1>3. TypeOK
  <2>1. reserved \in SUBSET KeysOf
    BY PlannerAssumption DEF KeysHeld, ReservedAtStart
  <2>2. winner \in [KeysOf -> Devices \cup {0}] /\ cursor \in 1 .. K + 1
    BY PlannerAssumption DEF NoWinners
  <2>3. status \in [Devices -> {"out", "candidate", "invalid", "unchanged", "rename"}]
    BY DEF StartStatus
  <2>4. QED
    BY <2>1, <2>2, <2>3 DEF TypeOK
<1>4. \A d \in Devices : ~Managed(d)
  BY <1>2 DEF Managed
<1>5. Progression
  BY <1>2, <1>4 DEF Progression
<1>6. Reservations
  BY <1>2 DEF Reservations, KeysHeld, Outside, ReservedAtStart
<1>7. WinnersCompete /\ Covered
  BY <1>1 DEF WinnersCompete, Covered
<1>8. UniqueNames /\ UnmanagedRespected
  BY <1>4 DEF UniqueNames, UnmanagedRespected
<1>9. FixedSettled
  <2>1. \A d \in Devices : Fold[want[d]] \in 1 .. K
    BY PlannerAssumption DEF KeysOf
  <2>2. QED
    BY <1>2, <1>4, <2>1 DEF FixedSettled
<1>10. FixedKept
  BY <1>2 DEF FixedKept
<1>11. QED
  BY <1>3, <1>5, <1>6, <1>7, <1>8, <1>9, <1>10 DEF IInv

LEMMA FreshHoldsNext == Fresh' => IInv'
BY FreshHolds, PTL

LEMMA InitHolds == Init => IInv
<1>1. SUFFICES ASSUME Init PROVE IInv
  OBVIOUS
<1>2. want \in [Devices -> Names]
  BY <1>1, PlannerAssumption DEF Init
<1>3. QED
  BY <1>1, <1>2, FreshHolds DEF Init, Fresh

-----------------------------------------------------------------------------
(* The first pass.                                                         *)

\* Some candidates of group k become invalid and keep their names; the key may
\* get a winner instead.
LEMMA GroupHolds ==
  ASSUME IInv, NEW k \in KeysOf, AtGroup(k), NEW S \in SUBSET Group(k),
         Invalidate(S), reserved' = reserved \cup KeysHeld(S),
         \/ UNCHANGED winner
         \/ \E d \in Group(k) \ S : winner' = [winner EXCEPT ![k] = d] /\ k \notin reserved,
         \A d \in Fixed(k) : d \in S \/ (winner' = [winner EXCEPT ![k] = d]),
         \A d \in S : Fixed(k) = {d} => k \in reserved
  PROVE  IInv'
<1> USE DEF IInv, AtGroup, inputs
<1>1. /\ cursor' = cursor + 1 /\ cursor = k
      /\ phase = "groups" /\ phase' = "groups"
      /\ UNCHANGED <<current, want, kind, preserve, name, occupied, round>>
  OBVIOUS
<1>2. \A d \in Devices : status'[d] = IF d \in S THEN "invalid" ELSE status[d]
  BY DEF Invalidate, TypeOK
<1>3. /\ S \subseteq Devices
      /\ \A d \in S : kind[d] # "out" /\ Fold[want[d]] = k
  BY DEF Group
<1>4. winner' \in [KeysOf -> Devices \cup {0}]
  BY DEF Group, TypeOK
<1>5. KeysHeld(S) \subseteq KeysOf
  BY <1>3, PlannerAssumption DEF KeysHeld, TypeOK
<1>6. TypeOK'
  <2>1. status' \in [Devices -> {"out", "candidate", "invalid", "unchanged", "rename"}]
    BY DEF Invalidate, TypeOK
  <2>2. cursor' \in 1 .. K + 1
    BY <1>1, PlannerAssumption DEF KeysOf
  <2>3. QED
    BY <1>1, <1>4, <1>5, <2>1, <2>2 DEF TypeOK
<1>7. \A d \in Devices : ~Managed(d)'
  BY <1>1, <1>2 DEF Managed, Progression
<1>8. Progression'
  BY <1>1, <1>2, <1>3, <1>7 DEF Progression
<1>9. Reservations'
  <2>1. KeysHeld(Outside)' = KeysHeld(Outside)
    BY <1>1 DEF KeysHeld, Outside
  <2>2. ASSUME NEW x \in reserved'
        PROVE  x \in KeysHeld({d \in Devices : status[d] \in {"out", "invalid"}})'
    <3>1. PICK d \in Devices : /\ d \in S \/ status[d] \in {"out", "invalid"}
                               /\ current[d] # NoName /\ x = Fold[current[d]]
      BY <1>3, <2>2 DEF Reservations, KeysHeld
    <3>2. QED
      BY <1>1, <1>2, <3>1 DEF KeysHeld
  <2>3. QED
    BY <2>1, <2>2 DEF Reservations
<1>10. WinnersCompete'
  <2>1. KeysHeld(Outside)' = KeysHeld(Outside) /\ \A j \in KeysOf : Group(j)' = Group(j)
    BY <1>1 DEF KeysHeld, Outside, Group
  <2>2. CASE UNCHANGED winner
    BY <2>1, <2>2 DEF WinnersCompete
  <2>3. CASE \E d \in Group(k) \ S : winner' = [winner EXCEPT ![k] = d] /\ k \notin reserved
    <3>1. k \notin KeysHeld(Outside)
      BY <2>3 DEF Reservations
    <3>2. QED
      BY <2>1, <2>3, <3>1 DEF WinnersCompete, TypeOK
  <2>4. QED
    BY <2>2, <2>3
<1>11. Covered' /\ UniqueNames' /\ UnmanagedRespected'
  BY <1>1, <1>7 DEF Covered, UniqueNames, UnmanagedRespected
<1>12. FixedSettled'
  <2>1. SUFFICES ASSUME NEW d \in Devices, kind[d] = "fixed", status'[d] = "candidate",
                        Fold[want[d]] < cursor'
                 PROVE  winner'[Fold[want[d]]] = d
    BY <1>1, <1>7 DEF FixedSettled
  <2>2. status[d] = "candidate" /\ d \notin S /\ Fold[want[d]] \in KeysOf
    BY <1>2, <2>1, PlannerAssumption DEF TypeOK
  <2>3. CASE Fold[want[d]] = k
    <3>1. d \in Fixed(k)
      BY <2>1, <2>3 DEF Fixed, Group
    <3>2. QED
      BY <2>2, <2>3, <3>1 DEF TypeOK
  <2>4. CASE Fold[want[d]] # k
    <3>1. Fold[want[d]] < cursor
      BY <1>1, <2>1, <2>2, <2>4, PlannerAssumption DEF KeysOf
    <3>2. winner[Fold[want[d]]] = d
      BY <2>1, <2>2, <3>1 DEF FixedSettled
    <3>3. winner'[Fold[want[d]]] = winner[Fold[want[d]]]
      BY <2>2, <2>4 DEF TypeOK
    <3>4. QED
      BY <3>2, <3>3
  <2>5. QED
    BY <2>3, <2>4
<1>13. FixedKept'
  <2>1. SUFFICES ASSUME NEW d \in Devices, kind[d] = "fixed", Fixed(Fold[want[d]]) = {d},
                        status'[d] = "invalid"
                 PROVE  \E e \in Devices \ {d} :
                          /\ status'[e] \in {"out", "invalid"}
                          /\ current[e] # NoName
                          /\ Fold[current[e]] = Fold[want[d]]
    BY <1>1 DEF FixedKept, Fixed, Group
  <2>2. CASE status[d] = "invalid"
    <3>1. PICK e \in Devices \ {d} : /\ status[e] \in {"out", "invalid"}
                                     /\ current[e] # NoName
                                     /\ Fold[current[e]] = Fold[want[d]]
      BY <2>1, <2>2 DEF FixedKept
    <3>2. QED
      BY <1>2, <3>1
  <2>3. CASE status[d] # "invalid"
    <3>1. d \in S /\ k \in reserved
      BY <1>2, <1>3, <2>1, <2>3
    <3>2. PICK e \in Devices : /\ status[e] \in {"out", "invalid"}
                               /\ current[e] # NoName /\ k = Fold[current[e]]
      BY <3>1 DEF Reservations, KeysHeld
    <3>3. e # d
      BY <1>3, <2>3, <3>1, <3>2 DEF Progression
    <3>4. QED
      BY <1>2, <1>3, <3>1, <3>2, <3>3
  <2>4. QED
    BY <2>2, <2>3
<1>14. QED
  BY <1>6, <1>8, <1>9, <1>10, <1>11, <1>12, <1>13

LEMMA NothingInvalidated ==
  ASSUME TypeOK, UNCHANGED <<status, reserved>>
  PROVE  Invalidate({}) /\ reserved' = reserved \cup KeysHeld({})
BY DEF TypeOK, Invalidate, KeysHeld

LEMMA FirstPassHolds ==
  ASSUME IInv, FixedConflict \/ FixedReserved \/ FixedWins \/ RuleWins \/ NoWinner
  PROVE  IInv'
<1>1. TypeOK
  BY DEF IInv
<1>2. CASE FixedConflict
  <2>1. PICK k \in KeysOf : /\ AtGroup(k) /\ \E d, e \in Fixed(k) : d # e
                            /\ Invalidate(Group(k))
                            /\ reserved' = reserved \cup KeysHeld(Group(k))
                            /\ UNCHANGED winner
    BY <1>2 DEF FixedConflict
  <2>2. Group(k) \in SUBSET Group(k) /\ Fixed(k) \subseteq Group(k)
    BY DEF Fixed
  <2>3. \A d \in Group(k) : Fixed(k) # {d}
    BY <2>1
  <2>4. \A d \in Fixed(k) : d \in Group(k) \/ winner' = [winner EXCEPT ![k] = d]
    BY <2>2
  <2>5. QED
    BY <2>1, <2>2, <2>3, <2>4, GroupHolds
<1>3. CASE FixedReserved
  <2>1. PICK k \in KeysOf, d \in Devices :
          /\ AtGroup(k) /\ Fixed(k) = {d} /\ k \in reserved
          /\ Invalidate({d}) /\ reserved' = reserved \cup KeysHeld({d})
          /\ UNCHANGED winner
    BY <1>3 DEF FixedReserved
  <2>2. {d} \in SUBSET Group(k)
    BY <2>1 DEF Fixed
  <2>3. \A e \in Fixed(k) : e \in {d} \/ winner' = [winner EXCEPT ![k] = e]
    BY <2>1
  <2>4. QED
    BY <2>1, <2>2, <2>3, GroupHolds
<1>4. CASE FixedWins
  <2>1. PICK k \in KeysOf, d \in Devices :
          /\ AtGroup(k) /\ Fixed(k) = {d} /\ k \notin reserved
          /\ winner' = [winner EXCEPT ![k] = d] /\ UNCHANGED <<status, reserved>>
    BY <1>4 DEF FixedWins
  <2>2. d \in Group(k) \ {}
    BY <2>1 DEF Fixed
  <2>3. \A e \in Fixed(k) : e \in {} \/ winner' = [winner EXCEPT ![k] = e]
    BY <2>1
  <2>4. QED
    BY <1>1, <2>1, <2>2, <2>3, NothingInvalidated, GroupHolds
<1>5. CASE RuleWins
  <2>1. PICK k \in KeysOf, d \in Devices :
          /\ AtGroup(k) /\ Fixed(k) = {} /\ k \notin reserved /\ d \in Group(k)
          /\ winner' = [winner EXCEPT ![k] = d] /\ UNCHANGED <<status, reserved>>
    BY <1>5 DEF RuleWins, RuleMayWin
  <2>2. d \in Group(k) \ {}
    BY <2>1
  <2>3. \A e \in Fixed(k) : e \in {} \/ winner' = [winner EXCEPT ![k] = e]
    BY <2>1
  <2>4. QED
    BY <1>1, <2>1, <2>2, <2>3, NothingInvalidated, GroupHolds
<1>6. CASE NoWinner
  <2>1. PICK k \in KeysOf : /\ AtGroup(k) /\ Fixed(k) = {}
                            /\ UNCHANGED <<status, reserved, winner>>
    BY <1>6 DEF NoWinner
  <2>2. QED
    BY <1>1, <2>1, NothingInvalidated, GroupHolds
<1>7. QED
  BY <1>2, <1>3, <1>4, <1>5, <1>6

-----------------------------------------------------------------------------
(* The second pass.                                                        *)

\* The winners are the first to be given names.
LEMMA OccupyHolds ==
  ASSUME IInv, Occupy PROVE IInv'
<1> USE DEF IInv, Occupy, inputs
<1>1. \A d \in Devices :
        status'[d] = IF d \in Winners THEN Finished(d, want[d]) ELSE status[d]
  OBVIOUS
<1>2. \A d \in Winners : /\ d \in Devices /\ status[d] = "candidate" /\ name[d] = want[d]
                         /\ winner[Fold[want[d]]] = d /\ Fold[want[d]] \in KeysOf
  BY PlannerAssumption DEF Winners, Progression, TypeOK
<1>3. \A d \in Devices : Managed(d)' <=> d \in Winners
  BY <1>1 DEF Managed, Finished, Progression
<1>4. TypeOK'
  <2>1. status' \in [Devices -> {"out", "candidate", "invalid", "unchanged", "rename"}]
    BY DEF Finished, TypeOK
  <2>2. occupied' \in SUBSET KeysOf
    BY <1>2 DEF TypeOK
  <2>3. QED
    BY <2>1, <2>2 DEF TypeOK
<1>6. Progression'
  <2>1. \A d \in Devices : d \notin Winners => status'[d] = status[d]
    BY <1>1
  <2>2. \A d \in Winners : status[d] # "out" /\ status'[d] \notin {"out", "candidate"}
    BY <1>1, <1>2 DEF Finished
  <2>3. QED
    BY <1>2, <1>3, <2>1, <2>2 DEF Progression
<1>7. Reservations'
  <2>1. \A d \in Devices : status[d] \in {"out", "invalid"} => status'[d] = status[d]
    BY <1>1, <1>2
  <2>2. QED
    BY <2>1 DEF Reservations, KeysHeld, Outside
<1>8. WinnersCompete'
  BY DEF WinnersCompete, KeysHeld, Outside, Group
<1>9. Covered'
  BY <1>2, <1>3 DEF Covered
<1>10. UniqueNames'
  <2>1. SUFFICES ASSUME NEW d \in Winners, NEW e \in Winners, Fold[want[d]] = Fold[want[e]]
                 PROVE  d = e
    BY <1>2, <1>3 DEF UniqueNames
  <2>2. QED
    BY <1>2, <2>1
<1>11. UnmanagedRespected'
  <2>1. {e \in Devices : status'[e] = "out"} = Outside
    BY <1>6 DEF Progression, Outside
  <2>2. SUFFICES ASSUME NEW d \in Winners PROVE Fold[want[d]] \notin KeysHeld(Outside)
    BY <1>2, <1>3, <2>1 DEF UnmanagedRespected, KeysHeld
  <2>3. winner[Fold[want[d]]] # 0
    BY <1>2 DEF Devices
  <2>4. QED
    BY <1>2, <2>3 DEF WinnersCompete
<1>12. FixedSettled'
  <2>1. ASSUME NEW d \in Devices, kind[d] = "fixed" PROVE status'[d] # "candidate"
    <3>1. Fold[want[d]] < cursor
      BY <2>1, PlannerAssumption DEF TypeOK, KeysOf
    <3>2. status[d] = "candidate" => d \in Winners
      BY <2>1, <3>1 DEF FixedSettled, Winners
    <3>3. QED
      BY <1>1, <3>2 DEF Finished
  <2>2. QED
    BY <1>2, <1>3, <2>1 DEF FixedSettled
<1>13. FixedKept'
  BY <1>1, <1>2 DEF FixedKept, Fixed, Group, Finished
<1>14. QED
  BY <1>4, <1>6, <1>7, <1>8, <1>9, <1>10, <1>11, <1>12, <1>13

\* A name given to a loser is new to the plan.
LEMMA SuffixHolds ==
  ASSUME IInv, NEW d \in Devices, NEW n \in Names, NextLoser(d), Fold[n] \notin occupied,
         name' = [name EXCEPT ![d] = n],
         occupied' = occupied \cup {Fold[n]},
         status' = [status EXCEPT ![d] = Finished(d, n)],
         UNCHANGED <<inputs, reserved, winner, phase, cursor, round>>
  PROVE  IInv'
<1> USE DEF IInv, inputs
<1>1. /\ phase = "suffixes" /\ status[d] = "candidate"
      /\ name'[d] = n /\ Managed(d)'
      /\ \A e \in Devices \ {d} : /\ name'[e] = name[e] /\ status'[e] = status[e]
                                  /\ Managed(e)' <=> Managed(e)
  BY DEF NextLoser, Losers, TypeOK, Finished, Managed
<1>2. kind[d] = "rule"
  BY <1>1 DEF Progression, FixedSettled, TypeOK
<1>3. Fold[n] \in KeysOf
  BY PlannerAssumption
<1>4. TypeOK'
  BY <1>3 DEF TypeOK, Finished
<1>5. Progression'
  BY <1>1, <1>2 DEF Progression, Managed
<1>6. Reservations'
  BY <1>1 DEF Reservations, KeysHeld, Outside
<1>7. WinnersCompete'
  BY DEF WinnersCompete, KeysHeld, Outside, Group
<1>8. Covered'
  BY <1>1 DEF Covered
<1>9. UniqueNames'
  <2>1. SUFFICES ASSUME NEW e \in Devices \ {d}, Managed(e), Fold[name[e]] = Fold[n]
                 PROVE  FALSE
    BY <1>1 DEF UniqueNames
  <2>2. QED
    BY <1>1, <2>1 DEF Covered
<1>10. UnmanagedRespected'
  <2>1. {e \in Devices : status'[e] = "out"} = Outside /\ {e \in Devices : status[e] = "out"} = Outside
    BY <1>5 DEF Progression, Outside
  <2>2. Fold[n] \notin KeysHeld(Outside)
    BY <1>1 DEF Covered, Reservations
  <2>3. QED
    BY <1>1, <2>1, <2>2 DEF UnmanagedRespected, KeysHeld
<1>11. FixedSettled'
  BY <1>1, <1>2 DEF FixedSettled
<1>12. FixedKept'
  BY <1>1, <1>2 DEF FixedKept, Fixed, Group
<1>13. QED
  BY <1>4, <1>5, <1>6, <1>7, <1>8, <1>9, <1>10, <1>11, <1>12

LEMMA ExhaustedHolds ==
  ASSUME IInv, SuffixExhausted PROVE IInv'
<1> USE DEF IInv, inputs
<1>1. PICK d \in Devices :
        /\ NextLoser(d) /\ Invalidate({d})
        /\ occupied' = occupied \cup KeysHeld({d})
        /\ UNCHANGED <<inputs, name, reserved, winner, phase, cursor, round>>
  BY DEF SuffixExhausted
<1>2. /\ phase = "suffixes" /\ status[d] = "candidate" /\ status'[d] = "invalid"
      /\ \A e \in Devices \ {d} : status'[e] = status[e]
      /\ \A e \in Devices : Managed(e)' <=> Managed(e)
  BY <1>1 DEF NextLoser, Losers, TypeOK, Invalidate, Managed
<1>3. kind[d] = "rule"
  BY <1>2 DEF Progression, FixedSettled, TypeOK
<1>4. TypeOK'
  <2>1. KeysHeld({d}) \subseteq KeysOf
    BY PlannerAssumption DEF KeysHeld, TypeOK
  <2>2. QED
    BY <1>1, <2>1 DEF TypeOK, Invalidate
<1>5. Progression'
  BY <1>1, <1>2, <1>3 DEF Progression
<1>6. Reservations'
  BY <1>1, <1>2 DEF Reservations, KeysHeld, Outside
<1>7. WinnersCompete'
  BY <1>1 DEF WinnersCompete, KeysHeld, Outside, Group
<1>8. Covered' /\ UniqueNames'
  BY <1>1, <1>2 DEF Covered, UniqueNames
<1>9. UnmanagedRespected'
  BY <1>1, <1>2 DEF UnmanagedRespected, KeysHeld
<1>10. FixedSettled' /\ FixedKept'
  BY <1>1, <1>2, <1>3 DEF FixedSettled, FixedKept, Fixed, Group
<1>11. QED
  BY <1>4, <1>5, <1>6, <1>7, <1>8, <1>9, <1>10

\* Planning again starts afresh.
LEMMA ReplanFresh ==
  ASSUME IInv, Replan PROVE Fresh'
<1>1. current' \in [Devices -> Names \cup {NoName}]
  BY DEF Replan, IInv, TypeOK
<1>2. round' \in Nat
  BY DEF Replan, IInv, TypeOK
<1>3. /\ want' \in [Devices -> Names] /\ kind' \in [Devices -> {"fixed", "rule", "out"}]
      /\ preserve' \in BOOLEAN
  BY DEF Replan, IInv, TypeOK
<1>4. reserved' = KeysHeld(ReservedAtStart)'
  <2>1. \A d \in ReservedAtStart : current'[d] = current[d]
    BY DEF Replan, IInv, Progression, ReservedAtStart
  <2>2. ReservedAtStart' = ReservedAtStart
    BY DEF Replan, ReservedAtStart
  <2>3. QED
    BY <2>1, <2>2 DEF Replan, KeysHeld
<1>5. status' = StartStatus' /\ winner' = NoWinners'
  BY DEF Replan, StartStatus, NoWinners
<1>6. name' = want' /\ occupied' = {} /\ phase' = "groups" /\ cursor' = 1
  BY DEF Replan
<1>7. QED
  BY <1>1, <1>2, <1>3, <1>4, <1>5, <1>6 DEF Fresh

LEMMA NextHolds == IInv /\ [Next]_vars => IInv'
<1>1. SUFFICES ASSUME IInv, [Next]_vars PROVE IInv'
  OBVIOUS
<1>2. CASE FixedConflict \/ FixedReserved \/ FixedWins \/ RuleWins \/ NoWinner
  BY <1>1, <1>2, FirstPassHolds
<1>3. CASE Occupy
  BY <1>1, <1>3, OccupyHolds
<1>4. CASE Suffix
  <2>0. PICK d \in Devices : \E i \in Free(d) :
          /\ NextLoser(d)
          /\ name' = [name EXCEPT ![d] = Suffixes[d][want[d]][i]]
          /\ occupied' = occupied \cup {Fold[Suffixes[d][want[d]][i]]}
          /\ status' = [status EXCEPT ![d] = Finished(d, Suffixes[d][want[d]][i])]
          /\ UNCHANGED <<inputs, reserved, winner, phase, cursor, round>>
    BY <1>4 DEF Suffix, OccupiedBy
  <2>1. PICK i \in Free(d) :
          /\ NextLoser(d)
          /\ name' = [name EXCEPT ![d] = Suffixes[d][want[d]][i]]
          /\ occupied' = occupied \cup {Fold[Suffixes[d][want[d]][i]]}
          /\ status' = [status EXCEPT ![d] = Finished(d, Suffixes[d][want[d]][i])]
          /\ UNCHANGED <<inputs, reserved, winner, phase, cursor, round>>
    BY <2>0
  <2>2. Suffixes[d][want[d]] \in Seq(Names)
    BY <1>1, PlannerAssumption DEF IInv, TypeOK
  <2>3. Suffixes[d][want[d]][i] \in Names /\ Fold[Suffixes[d][want[d]][i]] \notin occupied
    BY <2>2 DEF Free
  <2>4. QED
    BY <1>1, <2>1, <2>3, SuffixHolds
<1>5. CASE SuffixExhausted
  BY <1>1, <1>5, ExhaustedHolds
<1>6. CASE Planned
  <2>1. /\ Losers = {} /\ phase = "suffixes" /\ phase' = "done"
        /\ UNCHANGED <<current, want, kind, preserve, status, name, reserved, winner,
                       occupied, cursor, round>>
    BY <1>6 DEF Planned, inputs
  <2>2. QED
    BY <1>1, <2>1 DEF IInv, TypeOK, Progression, Reservations, WinnersCompete, Covered,
      UniqueNames, UnmanagedRespected, FixedSettled, FixedKept, Managed, KeysHeld, Outside,
      Losers, Fixed, Group
<1>7. CASE Replan
  BY <1>1, <1>7, ReplanFresh, FreshHoldsNext
<1>8. CASE UNCHANGED vars
  BY <1>1, <1>8 DEF IInv, TypeOK, Progression, Reservations, WinnersCompete, Covered,
    UniqueNames, UnmanagedRespected, FixedSettled, FixedKept, Managed, KeysHeld, Outside,
    Losers, Fixed, Group, vars
<1>9. QED
  BY <1>1, <1>2, <1>3, <1>4, <1>5, <1>6, <1>7, <1>8 DEF Next

LEMMA Inductive == Spec => []IInv
BY InitHolds, NextHolds, PTL DEF Spec

-----------------------------------------------------------------------------
(* Every reachable state of the planner is well typed.                     *)
THEOREM TypeCorrect == Spec => []TypeOK
BY Inductive, PTL DEF IInv

(* No plan gives two devices names that are equal up to case, however many *)
(* compete and whatever their platforms allow.                             *)
THEOREM NamesAreUnique == Spec => []UniqueNames
BY Inductive, PTL DEF IInv

(* No device is given the name of a device outside the plan.               *)
THEOREM OthersKeepTheirNames == Spec => []UnmanagedRespected
BY Inductive, PTL DEF IInv

(* A fixed name is given exactly or not at all, never suffixed, and is not *)
(* given only if another override fixes it or another device keeps it.     *)
THEOREM FixedNamesStand == Spec => []FixedNamesExact
<1>1. IInv => FixedNamesExact
  BY DEF IInv, FixedSettled, FixedKept, FixedNamesExact, Losers
<1>2. QED
  BY <1>1, Inductive, PTL

-----------------------------------------------------------------------------
(* What a plan is, as a whole: F the devices its first pass finds invalid, *)
(* W the winner of each key, E those that have their names when it is made *)
(* and c the names once it is carried out.                                 *)

\* The keys of names held by devices in S.
HeldIn(c, S) == {Fold[c[d]] : d \in {e \in S : c[e] # NoName}}

Conflict(k) == \E d, e \in Fixed(k) : d # e

\* The keys that are reserved when group k is taken.
Kept(c, F, k) == HeldIn(c, Outside \cup {d \in F : Fold[want[d]] < k})

\* Before, for devices of E having their names.
Ahead(E, d, e) == IF preserve /\ (d \in E) # (e \in E) THEN d \in E ELSE d < e

Decides(c, F, W, E, k) ==
  /\ Conflict(k) => Group(k) \subseteq F /\ W[k] = 0
  /\ \A d \in Devices : Fixed(k) = {d} =>
       IF k \in Kept(c, F, k) THEN W[k] = 0 /\ \A e \in Group(k) : e \in F <=> e = d
       ELSE W[k] = d /\ \A e \in Group(k) : e \notin F
  /\ Fixed(k) = {} =>
       /\ \A e \in Group(k) : e \notin F
       /\ IF Group(k) = {} \/ k \in Kept(c, F, k) THEN W[k] = 0
          ELSE W[k] \in Group(k) /\ \A e \in Group(k) \ {W[k]} : Ahead(E, W[k], e)

Won(W) == {d \in Devices : kind[d] # "out" /\ W[Fold[want[d]]] = d}

Lost(F, W) == {d \in Devices : kind[d] # "out" /\ d \notin F /\ W[Fold[want[d]]] # d}

\* The order of the second pass.
Sooner(E, d, e) ==
  \/ Fold[want[d]] < Fold[want[e]]
  \/ Fold[want[d]] = Fold[want[e]] /\ Ahead(E, d, e)

\* The keys that are occupied when the second pass begins, and when it comes to d.
Base(c, F, W) == HeldIn(c, Outside \cup F) \cup {Fold[want[d]] : d \in Won(W)}

Taken(c, F, W, E, d) ==
  Base(c, F, W) \cup HeldIn(c, {e \in Lost(F, W) : e # d /\ Sooner(E, e, d)})

FreeOf(d, T) ==
  {i \in 1 .. Len(Suffixes[d][want[d]]) : Fold[Suffixes[d][want[d]][i]] \notin T}

\* n is the first name of d's sequence that T leaves free.
Takes(d, T, n) ==
  \E i \in FreeOf(d, T) : (\A j \in FreeOf(d, T) : i <= j) /\ n = Suffixes[d][want[d]][i]

HasBase(c, d) == c[d] # NoName /\ Fold[c[d]] = Fold[want[d]]

Settled(c, F, W, E) ==
  /\ \A d \in F : kind[d] # "out"
  /\ \A k \in KeysOf : Decides(c, F, W, E, k)
  /\ \A d \in Won(W) : c[d] = want[d]
  /\ \A d \in Lost(F, W) :
       /\ FreeOf(d, Taken(c, F, W, E, d)) # {} => Takes(d, Taken(c, F, W, E, d), c[d])
       /\ HasBase(c, d) => d \in E

\* The plan that is being made.
Holders == {d \in Devices : Existing(d)}

Refused == {d \in Devices : status[d] = "invalid" /\ (kind[d] = "fixed" \/ Conflict(Fold[want[d]]))}

After == [d \in Devices |-> IF status[d] = "rename" THEN name[d] ELSE current[d]]

FirstPassed ==
  /\ \A k \in KeysOf :
       IF k < cursor THEN Decides(current, Refused, winner, Holders, k) ELSE winner[k] = 0
  /\ \A d \in Refused : Fold[want[d]] < cursor
  /\ IF phase = "groups" THEN \A d \in Devices : status[d] = "invalid" => d \in Refused
     ELSE cursor = K + 1
  /\ reserved = HeldIn(current, Outside \cup Refused)

Passed(d) == status[d] # "candidate"

SecondPassed ==
  /\ \A d \in Devices : /\ status[d] = "unchanged" => current[d] = name[d]
                        /\ status[d] = "rename" => current[d] # name[d]
  /\ phase # "groups" =>
       LET L == Lost(Refused, winner) IN
       /\ \A d \in Won(winner) : Managed(d) /\ name[d] = want[d]
       /\ Losers \subseteq L
       /\ \A d, e \in L : Passed(d) /\ e # d /\ Sooner(Holders, e, d) => Passed(e)
       /\ occupied = Base(current, Refused, winner) \cup HeldIn(After, {d \in L : Passed(d)})
       /\ \A d \in L : Passed(d) =>
            LET T == Taken(After, Refused, winner, Holders, d) IN
            IF FreeOf(d, T) = {} THEN status[d] = "invalid" ELSE Managed(d) /\ Takes(d, T, name[d])

\* The losers that have the base names of their groups.
Lingering(F, W) == {d \in Lost(F, W) : Existing(d)}

Calm(F, W, E) == preserve => \A d \in Lost(F, W) : d \in E => Existing(d)

\* The names of a round are those that a plan before left; and the next plan
\* repeats it, or there are few enough losers left that have base names.
Foreseen ==
  round > 1 =>
    \E F \in SUBSET Devices, W \in [KeysOf -> Devices \cup {0}], E \in SUBSET Devices :
      /\ Settled(current, F, W, E)
      /\ Calm(F, W, E) \/ Cardinality(Lingering(F, W)) <= N - round

-----------------------------------------------------------------------------
(* Lemmas about these operators.                                           *)

\* The types of what a first pass comes to.
Plan(F, W) == F \in SUBSET Devices /\ W \in [KeysOf -> Devices \cup {0}]

\* A set of natural numbers has a least element.
LEMMA LeastNatural ==
  ASSUME NEW T \in SUBSET Nat, T # {}
  PROVE  \E x \in T : \A y \in T : x <= y
<1> DEFINE Less == {p \in Nat \X Nat : p[1] < p[2]}
<1>1. Less = OpToRel(<, Nat)
  BY DEF OpToRel
<1>2. IsWellFoundedOn(Less, Nat)
  BY <1>1, NatLessThanWellFounded
<1>3. \E x \in T : \A y \in T : <<y, x>> \notin Less
  <2> HIDE DEF Less
  <2> QED BY <1>2, WFMin, Zenon
<1>4. \A x, y \in Nat : <<y, x>> \notin Less => x <= y
  OBVIOUS
<1>5. QED
  BY <1>3, <1>4

LEMMA Keyed ==
  ASSUME TypeOK
  PROVE  /\ \A d \in Devices : Fold[want[d]] \in KeysOf /\ d \in Nat \ {0}
         /\ KeysOf \subseteq Nat /\ N \in Nat /\ K \in Nat
         /\ preserve \in BOOLEAN
BY PlannerAssumption DEF TypeOK, Devices, KeysOf

LEMMA AnyFixed ==
  ASSUME NEW k \in KeysOf
  PROVE  /\ Conflict(k) \/ Fixed(k) = {} \/ \E d \in Devices : Fixed(k) = {d}
         /\ ~(Conflict(k) /\ Fixed(k) = {})
         /\ \A d \in Devices : ~(Fixed(k) = {d} /\ (Conflict(k) \/ Fixed(k) = {}))
         /\ Fixed(k) \subseteq Group(k) /\ Group(k) \subseteq Devices
<1>1. Fixed(k) \subseteq Group(k) /\ Group(k) \subseteq Devices
  BY DEF Fixed, Group
<1>2. Conflict(k) \/ Fixed(k) = {} \/ \E d \in Devices : Fixed(k) = {d}
  <2>1. SUFFICES ASSUME ~Conflict(k), Fixed(k) # {} PROVE \E d \in Devices : Fixed(k) = {d}
    OBVIOUS
  <2>2. PICK d \in Fixed(k) : TRUE
    BY <2>1
  <2>3. Fixed(k) = {d}
    BY <2>1, <2>2 DEF Conflict
  <2>4. QED
    BY <1>1, <2>3
<1>3. QED
  BY <1>1, <1>2 DEF Conflict

\* What has the keys of a set of names.
LEMMA HeldBy ==
  ASSUME NEW c, NEW S, NEW x
  PROVE  x \in HeldIn(c, S) <=> \E d \in S : c[d] # NoName /\ x = Fold[c[d]]
BY DEF HeldIn

LEMMA HeldSame ==
  ASSUME NEW b, NEW c, NEW S, \A d \in S : b[d] = c[d]
  PROVE  HeldIn(b, S) = HeldIn(c, S)
BY DEF HeldIn

LEMMA HeldUnion ==
  ASSUME NEW c, NEW S, NEW T
  PROVE  HeldIn(c, S \cup T) = HeldIn(c, S) \cup HeldIn(c, T)
BY DEF HeldIn

\* The order of competitors is strict and total.
LEMMA AheadOrders ==
  ASSUME TypeOK, NEW E, NEW d \in Devices, NEW e \in Devices, d # e
  PROVE  /\ Ahead(E, d, e) <=> ~Ahead(E, e, d)
         /\ Sooner(E, d, e) <=> ~Sooner(E, e, d)
<1>1. Ahead(E, d, e) <=> ~Ahead(E, e, d)
  BY Keyed DEF Ahead
<1>2. QED
  BY <1>1, Keyed DEF Sooner

LEMMA BeforeIsAhead ==
  ASSUME NEW d \in Devices, NEW e \in Devices
  PROVE  Before(d, e) <=> Ahead(Holders, d, e)
<1>1. /\ d \in Holders <=> Existing(d)
      /\ e \in Holders <=> Existing(e)
  BY DEF Holders
<1>2. Existing(d) \in BOOLEAN /\ Existing(e) \in BOOLEAN
  BY DEF Existing
<1>3. CASE (d \in Holders) # (e \in Holders)
  BY <1>1, <1>2, <1>3 DEF Before, Ahead
<1>4. CASE (d \in Holders) = (e \in Holders)
  BY <1>1, <1>2, <1>4 DEF Before, Ahead
<1>5. QED
  BY <1>3, <1>4

\* Some device of a set comes soonest.
LEMMA Soonest ==
  ASSUME TypeOK, NEW E, NEW T \in SUBSET Devices, T # {}
  PROVE  \E d \in T : \A e \in T : e # d => ~Sooner(E, e, d)
<1> DEFINE Keys == {Fold[want[d]] : d \in T}
<1>1. Keys \in SUBSET Nat /\ Keys # {}
  BY Keyed
<1>2. PICK k \in Keys : \A j \in Keys : k <= j
  <2> HIDE DEF Keys
  <2> QED BY <1>1, LeastNatural
<1> DEFINE Firsts == {d \in T : Fold[want[d]] = k}
           Best == IF preserve /\ Firsts \cap E # {} THEN Firsts \cap E ELSE Firsts
<1>3. Best \in SUBSET Nat /\ Best # {} /\ Best \subseteq Firsts
  BY <1>2, Keyed
<1>4. PICK d \in Best : \A e \in Best : d <= e
  <2> HIDE DEF Best
  <2> QED BY <1>3, LeastNatural
<1>5. d \in T /\ Fold[want[d]] = k
  BY <1>3, <1>4
<1>6. ASSUME NEW e \in T, e # d PROVE ~Sooner(E, e, d)
  <2>1. Fold[want[e]] \in Keys /\ k \in Nat /\ Fold[want[e]] \in Nat
    BY <1>1
  <2>2. k <= Fold[want[e]]
    BY <1>2, <2>1
  <2>3. CASE Fold[want[e]] # k
    BY <1>5, <2>1, <2>2, <2>3 DEF Sooner
  <2>4. CASE Fold[want[e]] = k
    <3>1. e \in Firsts /\ d \in Firsts /\ d \in Nat /\ e \in Nat
      BY <1>3, <1>4, <1>5, <2>4, Keyed
    <3>2. Ahead(E, d, e)
      <4>1. CASE preserve /\ Firsts \cap E # {}
        BY <1>4, <1>6, <3>1, <4>1 DEF Ahead
      <4>2. CASE ~(preserve /\ Firsts \cap E # {})
        BY <1>4, <1>6, <3>1, <4>2 DEF Ahead
      <4>3. QED
        BY <4>1, <4>2
    <3>3. QED
      BY <1>5, <1>6, <2>1, <2>4, <3>2, AheadOrders DEF Sooner
  <2>5. QED
    BY <2>3, <2>4
<1>7. QED
  BY <1>5, <1>6

\* Whoever loses a base name loses it to somebody, whose key is occupied.
LEMMA LostToSomebody ==
  ASSUME TypeOK, NEW c, NEW F, NEW W, NEW E, Plan(F, W),
         \A k \in KeysOf : Decides(c, F, W, E, k), NEW d \in Lost(F, W)
  PROVE  Fold[want[d]] \in Base(c, F, W) /\ \E e \in Devices : e \notin Lost(F, W)
<1> DEFINE k == Fold[want[d]]
<1>1. d \in Devices /\ kind[d] # "out" /\ d \notin F /\ W[k] # d /\ k \in KeysOf /\ d \in Group(k)
  BY Keyed DEF Lost, Group
<1>2. Decides(c, F, W, E, k)
  BY <1>1
<1>3. CASE k \in Kept(c, F, k)
  <2>1. PICK e \in Outside \cup {f \in F : Fold[want[f]] < k} : c[e] # NoName /\ k = Fold[c[e]]
    BY <1>3, HeldBy DEF Kept
  <2>2. e \in Outside \cup F /\ e \in Devices
    BY <2>1 DEF Outside, Plan
  <2>3. k \in HeldIn(c, Outside \cup F)
    BY <2>1, <2>2, HeldBy
  <2>4. e \notin Lost(F, W)
    BY <2>2 DEF Lost, Outside
  <2>5. QED
    BY <2>2, <2>3, <2>4 DEF Base
<1>4. CASE \E e \in Devices : e \in Group(k) /\ W[k] = e
  <2>1. PICK e \in Devices : e \in Group(k) /\ W[k] = e
    BY <1>4
  <2>2. e \in Won(W) /\ Fold[want[e]] = k /\ e \notin Lost(F, W)
    BY <2>1 DEF Won, Lost, Group
  <2>3. QED
    BY <2>1, <2>2 DEF Base
<1>5. CASE Conflict(k)
  BY <1>1, <1>2, <1>5 DEF Decides
<1>6. CASE Fixed(k) = {} /\ k \notin Kept(c, F, k)
  BY <1>1, <1>2, <1>4, <1>6, AnyFixed DEF Decides
<1>7. CASE k \notin Kept(c, F, k) /\ \E e \in Devices : Fixed(k) = {e}
  BY <1>1, <1>2, <1>4, <1>7, AnyFixed DEF Decides
<1>8. QED
  <2> HIDE DEF k
  <2> QED BY <1>1, <1>3, <1>5, <1>6, <1>7, AnyFixed

\* A group's fate depends on the groups before it and on itself.
LEMMA DecidesLocally ==
  ASSUME NEW c, NEW E, NEW k \in KeysOf,
         NEW F \in SUBSET Devices, NEW G \in SUBSET Devices, NEW W, NEW V, W[k] = V[k],
         \A d \in Devices : ~(k < Fold[want[d]]) => (d \in F <=> d \in G),
         TypeOK, Decides(c, F, W, E, k)
  PROVE  Decides(c, G, V, E, k)
<1>1. {d \in F : Fold[want[d]] < k} = {d \in G : Fold[want[d]] < k}
  BY Keyed
<1>2. Kept(c, F, k) = Kept(c, G, k)
  BY <1>1 DEF Kept
<1>3. \A e \in Group(k) : e \in Devices /\ (e \in F <=> e \in G)
  BY Keyed DEF Group
<1>4. Conflict(k) => Group(k) \subseteq G /\ V[k] = 0
  BY <1>3 DEF Decides
<1>5. ASSUME NEW d \in Devices, Fixed(k) = {d}
      PROVE  IF k \in Kept(c, G, k) THEN V[k] = 0 /\ \A e \in Group(k) : e \in G <=> e = d
             ELSE V[k] = d /\ \A e \in Group(k) : e \notin G
  BY <1>2, <1>3, <1>5 DEF Decides
<1>6. ASSUME Fixed(k) = {}
      PROVE  /\ \A e \in Group(k) : e \notin G
             /\ IF Group(k) = {} \/ k \in Kept(c, G, k) THEN V[k] = 0
                ELSE V[k] \in Group(k) /\ \A e \in Group(k) \ {V[k]} : Ahead(E, V[k], e)
  BY <1>2, <1>3, <1>6 DEF Decides
<1>7. QED
  BY <1>4, <1>5, <1>6 DEF Decides

\* The first pass finds the same devices invalid, whatever order the names
\* before it make.
LEMMA RefusedAlike ==
  ASSUME TypeOK, NEW c, NEW E, NEW D, NEW F, NEW G, NEW W, NEW V, Plan(F, W), Plan(G, V),
         \A d \in F \cup G : kind[d] # "out",
         \A k \in KeysOf : Decides(c, F, W, E, k) /\ Decides(c, G, V, D, k)
  PROVE  F = G
<1>1. SUFFICES ASSUME F # G PROVE FALSE
  OBVIOUS
<1> DEFINE Diff == {d \in Devices : ~(d \in F <=> d \in G)}
           Keys == {Fold[want[d]] : d \in Diff}
<1>2. Keys \in SUBSET Nat /\ Keys # {}
  <2>1. Diff # {}
    BY <1>1 DEF Plan
  <2>2. QED
    BY <2>1, Keyed
<1>3. PICK k \in Keys : \A j \in Keys : k <= j
  <2> HIDE DEF Keys
  <2> QED BY <1>2, LeastNatural
<1>4. PICK d \in Diff : k = Fold[want[d]]
  BY <1>3
<1>5. d \in Group(k) /\ k \in KeysOf
  BY <1>4, Keyed DEF Group, Plan
<1>6. \A e \in Devices : Fold[want[e]] < k => (e \in F <=> e \in G)
  <2>1. ASSUME NEW e \in Devices, Fold[want[e]] < k, ~(e \in F <=> e \in G) PROVE FALSE
    <3>1. Fold[want[e]] \in Keys /\ Fold[want[e]] \in Nat /\ k \in Nat
      BY <1>2, <1>3, <2>1
    <3>2. k <= Fold[want[e]]
      BY <1>3, <3>1
    <3>3. QED
      BY <2>1, <3>1, <3>2
  <2>2. QED
    BY <2>1
<1>7. {e \in F : Fold[want[e]] < k} = {e \in G : Fold[want[e]] < k}
  BY <1>6 DEF Plan
<1>8. Kept(c, F, k) = Kept(c, G, k)
  BY <1>7 DEF Kept
<1>9. Decides(c, F, W, E, k) /\ Decides(c, G, V, D, k)
  BY <1>5
<1>10. CASE Conflict(k)
  BY <1>4, <1>5, <1>9, <1>10 DEF Decides
<1>11. CASE Fixed(k) = {}
  BY <1>4, <1>5, <1>9, <1>11 DEF Decides
<1>12. CASE \E e \in Devices : Fixed(k) = {e}
  <2>1. PICK e \in Devices : Fixed(k) = {e}
    BY <1>12
  <2>2. CASE k \in Kept(c, F, k)
    BY <1>4, <1>5, <1>8, <1>9, <2>1, <2>2 DEF Decides
  <2>3. CASE k \notin Kept(c, F, k)
    BY <1>4, <1>5, <1>8, <1>9, <2>1, <2>3 DEF Decides
  <2>4. QED
    BY <2>2, <2>3
<1>13. QED
  BY <1>5, <1>10, <1>11, <1>12, AnyFixed

\* And the same device wins each name, once the winners have theirs.
LEMMA WonAlike ==
  ASSUME TypeOK, NEW F, NEW W, NEW E, NEW V, Plan(F, W), Plan(F, V),
         Settled(current, F, W, E),
         \A k \in KeysOf : Decides(current, F, V, Holders, k)
  PROVE  V = W
<1>1. SUFFICES ASSUME NEW k \in KeysOf PROVE V[k] = W[k]
  BY DEF Plan
<1>2. Decides(current, F, V, Holders, k) /\ Decides(current, F, W, E, k)
  BY DEF Settled
<1>3. CASE Conflict(k)
  BY <1>2, <1>3 DEF Decides
<1>4. CASE \E e \in Devices : Fixed(k) = {e}
  <2>1. PICK e \in Devices : Fixed(k) = {e}
    BY <1>4
  <2>2. QED
    BY <1>2, <2>1 DEF Decides
<1>5. CASE Fixed(k) = {}
  <2>1. CASE Group(k) = {} \/ k \in Kept(current, F, k)
    BY <1>2, <1>5, <2>1 DEF Decides
  <2>2. CASE ~(Group(k) = {} \/ k \in Kept(current, F, k))
    <3> DEFINE v == V[k]
               w == W[k]
    <3>1. /\ v \in Group(k) /\ \A e \in Group(k) \ {v} : Ahead(Holders, v, e)
          /\ w \in Group(k) /\ \A e \in Group(k) \ {w} : Ahead(E, w, e)
          /\ v \notin F
      BY <1>2, <1>5, <2>2 DEF Decides
    <3> HIDE DEF v, w
    <3>2. SUFFICES ASSUME v # w PROVE FALSE
      BY DEF v, w
    <3>3. /\ v \in Devices /\ kind[v] # "out" /\ Fold[want[v]] = k
          /\ w \in Devices /\ kind[w] # "out" /\ Fold[want[w]] = k
      BY <3>1 DEF Group
    <3>4. w \in Won(W) /\ v \in Lost(F, W)
      BY <3>1, <3>2, <3>3 DEF w, Won, Lost
    <3>5. w \in Holders
      <4>1. current[w] = want[w] /\ want[w] \in Names
        BY <3>3, <3>4 DEF Settled, TypeOK
      <4>2. QED
        BY <3>3, <4>1, PlannerAssumption DEF Holders, Existing
    <3>6. Ahead(Holders, v, w) /\ Ahead(E, w, v)
      BY <3>1, <3>2
    <3>7. v \in Holders => v \in E
      BY <3>4 DEF Settled, Holders, Existing, HasBase
    <3>8. QED
      BY <3>3, <3>5, <3>6, <3>7, Keyed DEF Ahead
  <2>3. QED
    BY <2>1, <2>2
<1>6. QED
  BY <1>3, <1>4, <1>5, AnyFixed

LEMMA PlanTyped ==
  ASSUME TypeOK, Progression
  PROVE  Plan(Refused, winner) /\ \A d \in Refused : kind[d] # "out"
BY DEF TypeOK, Progression, Refused, Plan

LEMMA AfterGiven ==
  ASSUME SecondPassed, NEW d \in Devices
  PROVE  /\ Managed(d) => After[d] = name[d]
         /\ ~Managed(d) => After[d] = current[d] /\ status[d] # "rename"
         /\ After[d] = current[d] => status[d] # "rename"
BY DEF SecondPassed, After, Managed

\* The first pass comes to what the plan before came to.
LEMMA FirstPassRepeats ==
  ASSUME TypeOK, Progression, FirstPassed, phase = "done",
         NEW F, NEW W, NEW E, Plan(F, W), Settled(current, F, W, E)
  PROVE  F = Refused /\ W = winner
<1>1. \A k \in KeysOf : Decides(current, Refused, winner, Holders, k)
  BY Keyed DEF FirstPassed, KeysOf
<1>2. F = Refused
  BY <1>1, PlanTyped, RefusedAlike DEF Settled
<1>3. QED
  BY <1>1, <1>2, PlanTyped, WonAlike

\* With the losers in the order of the plan before, the plan is the plan before.
LEMMA CalmPlansRepeat ==
  ASSUME TypeOK, Progression, FirstPassed, SecondPassed, phase = "done",
         NEW F, NEW W, NEW E, Plan(F, W), Settled(current, F, W, E), Calm(F, W, E)
  PROVE  \A d \in Devices : After[d] = current[d]
<1> DEFINE L == Lost(F, W)
<1>1. F = Refused /\ W = winner
  BY FirstPassRepeats
<1>2. \A d \in Devices : d \notin L => After[d] = current[d]
  <2>1. SUFFICES ASSUME NEW d \in Devices, d \notin L PROVE After[d] = current[d]
    OBVIOUS
  <2>2. CASE kind[d] = "out" \/ d \in F
    BY <1>1, <2>2 DEF Progression, Refused, After
  <2>3. CASE d \in Won(W)
    BY <1>1, <2>3, AfterGiven DEF SecondPassed, Settled
  <2>4. QED
    BY <2>1, <2>2, <2>3 DEF Lost, Won
<1>3. \A d, e \in L : Sooner(Holders, d, e) <=> Sooner(E, d, e)
  <2>1. \A d \in L : preserve => (d \in E <=> d \in Holders)
    BY DEF Calm, Settled, Holders, Existing, HasBase, Lost
  <2>2. QED
    BY <2>1 DEF Sooner, Ahead
<1>4. ASSUME NEW T \in SUBSET L, T # {}, \A d \in T : After[d] # current[d],
             \A d \in L \ T : After[d] = current[d]
      PROVE  FALSE
  <2>1. PICK d \in T : \A e \in T : e # d => ~Sooner(E, e, d)
    BY <1>4, Soonest DEF Lost
  <2>2. d \in L /\ d \in Devices /\ status[d] # "candidate"
    BY <2>1 DEF Lost, Progression, Losers
  <2> DEFINE S == {e \in L : e # d /\ Sooner(E, e, d)}
  <2>3. S = {e \in L : e # d /\ Sooner(Holders, e, d)}
    BY <1>3, <2>2
  <2>4. \A e \in S : After[e] = current[e]
    BY <1>4, <2>1
  <2>5. HeldIn(After, S) = HeldIn(current, S)
    BY <2>4, HeldSame
  <2>6. HeldIn(After, Outside \cup F) = HeldIn(current, Outside \cup F)
    <3>1. \A e \in Outside \cup F : After[e] = current[e]
      BY <1>2 DEF Outside, Lost, Plan
    <3>2. QED
      BY <3>1, HeldSame
  <2> DEFINE O == Taken(current, F, W, E, d)
  <2>7. Taken(After, Refused, winner, Holders, d) = O
    BY <1>1, <2>3, <2>5, <2>6 DEF Taken, Base
  <2>8. /\ FreeOf(d, O) # {} => Takes(d, O, current[d])
        /\ IF FreeOf(d, O) = {} THEN status[d] = "invalid" ELSE Managed(d) /\ Takes(d, O, name[d])
    <3> HIDE DEF O
    <3>1. FreeOf(d, O) # {} => Takes(d, O, current[d])
      BY <2>2 DEF Settled, O
    <3>2. IF FreeOf(d, O) = {} THEN status[d] = "invalid" ELSE Managed(d) /\ Takes(d, O, name[d])
      BY <1>1, <2>2, <2>7 DEF SecondPassed, Passed
    <3>3. QED
      BY <3>1, <3>2
  <2> HIDE DEF O
  <2>9. CASE FreeOf(d, O) = {}
    BY <2>1, <2>2, <2>8, <2>9, <1>4, AfterGiven DEF Managed
  <2>10. CASE FreeOf(d, O) # {}
    <3>1. FreeOf(d, O) \subseteq Int
      BY DEF FreeOf
    <3>2. name[d] = current[d]
      BY <2>8, <2>10, <3>1 DEF Takes
    <3>3. QED
      BY <1>4, <2>1, <2>2, <2>8, <2>10, <3>2, AfterGiven
  <2>11. QED
    BY <2>9, <2>10
<1>5. \A d \in L : After[d] = current[d]
  <2> DEFINE T == {d \in L : After[d] # current[d]}
  <2>1. T = {}
    BY <1>4
  <2>2. QED
    BY <2>1
<1>6. QED
  BY <1>2, <1>5

-----------------------------------------------------------------------------
(* The plan that is being made.                                            *)

LEMMA OperatorsKept ==
  ASSUME UNCHANGED <<want, kind, preserve>>
  PROVE  /\ \A k : Group(k)' = Group(k) /\ Fixed(k)' = Fixed(k) /\ Conflict(k)' = Conflict(k)
         /\ Outside' = Outside
         /\ \A E, d, e : /\ Ahead(E, d, e)' <=> Ahead(E, d, e)
                         /\ Sooner(E, d, e)' <=> Sooner(E, d, e)
         /\ \A c, F, k : Kept(c, F, k)' = Kept(c, F, k)
         /\ \A W : Won(W)' = Won(W)
         /\ \A F, W : Lost(F, W)' = Lost(F, W)
         /\ \A d, T : FreeOf(d, T)' = FreeOf(d, T)
         /\ \A d, T, n : Takes(d, T, n)' <=> Takes(d, T, n)
<1>1. \A k : Group(k)' = Group(k) /\ Fixed(k)' = Fixed(k)
  BY DEF Group, Fixed
<1>2. \A k : Conflict(k)' = Conflict(k)
  BY <1>1 DEF Conflict
<1>3. Outside' = Outside
  BY DEF Outside
<1>4. \A E, d, e : Ahead(E, d, e)' <=> Ahead(E, d, e)
  BY DEF Ahead
<1>5. \A E, d, e : Sooner(E, d, e)' <=> Sooner(E, d, e)
  BY <1>4 DEF Sooner
<1>6. \A c, F, k : Kept(c, F, k)' = Kept(c, F, k)
  BY <1>3 DEF Kept
<1>7. \A W : Won(W)' = Won(W)
  BY DEF Won
<1>8. \A F, W : Lost(F, W)' = Lost(F, W)
  BY DEF Lost
<1>9. \A d, T : FreeOf(d, T)' = FreeOf(d, T)
  BY DEF FreeOf
<1>10. \A d, T, n : Takes(d, T, n)' <=> Takes(d, T, n)
  BY <1>9 DEF Takes
<1>11. QED
  BY <1>1, <1>2, <1>3, <1>4, <1>5, <1>6, <1>7, <1>8, <1>9, <1>10

LEMMA PlansKept ==
  ASSUME UNCHANGED <<want, kind, preserve>>
  PROVE  /\ \A c, F, W, E, k : Decides(c, F, W, E, k)' <=> Decides(c, F, W, E, k)
         /\ \A c, F, W : Base(c, F, W)' = Base(c, F, W)
         /\ \A c, F, W, E, d : Taken(c, F, W, E, d)' = Taken(c, F, W, E, d)
<1>1. \A c, F, W, E, k : Decides(c, F, W, E, k)' <=> Decides(c, F, W, E, k)
  BY OperatorsKept DEF Decides
<1>2. \A c, F, W : Base(c, F, W)' = Base(c, F, W)
  BY OperatorsKept DEF Base
<1>3. \A c, F, W, E, d : Taken(c, F, W, E, d)' = Taken(c, F, W, E, d)
  BY <1>2, OperatorsKept DEF Taken
<1>4. QED
  BY <1>1, <1>2, <1>3

\* A step of the first pass, for group k.
LEMMA GroupPasses ==
  ASSUME IInv, FirstPassed, SecondPassed, NEW k \in KeysOf, AtGroup(k), NEW S \in SUBSET Group(k),
         NEW V \in [KeysOf -> Devices \cup {0}], winner' = V,
         \A j \in KeysOf : j # k => V[j] = winner[j],
         Invalidate(S), reserved' = reserved \cup KeysHeld(S),
         Conflict(k) => S = Group(k) /\ V[k] = 0,
         \A d \in Devices : Fixed(k) = {d} =>
           IF k \in reserved THEN V[k] = 0 /\ S = {d} ELSE V[k] = d /\ S = {},
         Fixed(k) = {} =>
           /\ S = {}
           /\ IF Group(k) = {} \/ k \in reserved THEN V[k] = 0
              ELSE V[k] \in Group(k) /\ \A e \in Group(k) \ {V[k]} : Before(V[k], e)
  PROVE  FirstPassed' /\ SecondPassed'
<1> DEFINE F == Refused \cup S
<1>1. TypeOK /\ Progression
  BY DEF IInv
<1>2. /\ phase = "groups" /\ cursor = k /\ cursor' = k + 1
      /\ UNCHANGED <<current, want, kind, preserve, name, phase>>
  BY DEF AtGroup, inputs
<1>3. S \subseteq Devices /\ \A d \in S : Fold[want[d]] = k /\ kind[d] # "out"
  BY DEF Group
<1>4. \A d \in Devices : status'[d] = IF d \in S THEN "invalid" ELSE status[d]
  BY <1>1 DEF Invalidate, TypeOK
<1>5. \A d \in S : kind[d] = "fixed" \/ Conflict(k)
  BY <1>3, AnyFixed DEF Fixed
<1>6. \A d \in Refused : Fold[want[d]] < k /\ d \in Devices
  BY <1>2 DEF FirstPassed, Refused
<1>7. \A j : Conflict(j)' = Conflict(j)
  BY <1>2, OperatorsKept
<1>8. Refused' = F
  BY <1>2, <1>3, <1>4, <1>5, <1>7 DEF Refused
<1>9. Holders' = Holders
  BY <1>2 DEF Holders, Existing
<1>10. F \in SUBSET Devices /\ Refused \in SUBSET Devices
  BY <1>3, <1>6
<1>11. {d \in F : Fold[want[d]] < k} = Refused
  BY <1>3, <1>6, Keyed, <1>1
<1>12. Kept(current, F, k) = reserved
  BY <1>11 DEF Kept, FirstPassed
<1>13. \A e \in Group(k) : e \in F <=> e \in S
  BY <1>6, Keyed, <1>1 DEF Group
<1>14. Decides(current, F, V, Holders, k)
  <2> HIDE DEF F
  <2>1. Conflict(k) => Group(k) \subseteq F /\ V[k] = 0
    BY <1>13
  <2>2. ASSUME NEW d \in Devices, Fixed(k) = {d}
        PROVE  IF k \in Kept(current, F, k)
               THEN V[k] = 0 /\ \A e \in Group(k) : e \in F <=> e = d
               ELSE V[k] = d /\ \A e \in Group(k) : e \notin F
    BY <1>12, <1>13, <2>2
  <2>3. ASSUME Fixed(k) = {}
        PROVE  /\ \A e \in Group(k) : e \notin F
               /\ IF Group(k) = {} \/ k \in Kept(current, F, k) THEN V[k] = 0
                  ELSE V[k] \in Group(k) /\ \A e \in Group(k) \ {V[k]} : Ahead(Holders, V[k], e)
    <3>1. \A d, e \in Group(k) : Before(d, e) <=> Ahead(Holders, d, e)
      BY BeforeIsAhead, AnyFixed
    <3>2. QED
      BY <1>12, <1>13, <2>3, <3>1
  <2>4. QED
    BY <2>1, <2>2, <2>3 DEF Decides
<1>15. ASSUME NEW j \in KeysOf
       PROVE  IF j < k + 1 THEN Decides(current, F, V, Holders, j) ELSE V[j] = 0
  <2>1. CASE j < k
    <3>1. Decides(current, Refused, winner, Holders, j)
      BY <1>2, <2>1 DEF FirstPassed
    <3>2. \A d \in Devices : ~(j < Fold[want[d]]) => (d \in Refused <=> d \in F)
      BY <1>3, <2>1, Keyed, <1>1
    <3>3. winner[j] = V[j]
      BY <2>1, Keyed, <1>1
    <3>4. Decides(current, F, V, Holders, j)
      BY <1>1, <1>10, <3>1, <3>2, <3>3, DecidesLocally
    <3>5. QED
      BY <2>1, <3>4, Keyed, <1>1
  <2>2. CASE j = k
    BY <1>14, <2>2, Keyed, <1>1
  <2>3. CASE ~(j < k) /\ j # k
    <3>1. V[j] = 0
      BY <1>2, <2>3 DEF FirstPassed
    <3>2. QED
      BY <2>3, <3>1, Keyed, <1>1
  <2>4. QED
    BY <2>1, <2>2, <2>3
<1>16. reserved' = HeldIn(current, Outside \cup F)
  <2>1. KeysHeld(S) = HeldIn(current, S)
    BY DEF KeysHeld, HeldIn
  <2>2. HeldIn(current, Outside \cup F) = HeldIn(current, Outside \cup Refused) \cup HeldIn(current, S)
    BY DEF HeldIn
  <2>3. QED
    BY <2>1, <2>2 DEF FirstPassed
<1>17. \A d \in F : Fold[want[d]] < k + 1
  BY <1>3, <1>6, <1>10, Keyed, <1>1
<1>18. \A d \in Devices : status'[d] = "invalid" => d \in F
  BY <1>2, <1>4 DEF FirstPassed
<1> HIDE DEF F
<1>19. FirstPassed'
  <2>1. \A j \in KeysOf : IF j < cursor' THEN Decides(current, Refused, winner, Holders, j)'
                          ELSE winner'[j] = 0
    BY <1>2, <1>8, <1>9, <1>15, PlansKept
  <2>2. Outside' = Outside
    BY <1>2, OperatorsKept
  <2>3. reserved' = HeldIn(current, Outside \cup Refused)'
    BY <1>2, <1>8, <1>16, <2>2
  <2>4. \A d \in Refused' : Fold[want'[d]] < cursor'
    BY <1>2, <1>8, <1>17
  <2>5. QED
    BY <1>2, <1>8, <1>18, <2>1, <2>3, <2>4 DEF FirstPassed
<1>20. SecondPassed'
  BY <1>2, <1>4 DEF SecondPassed
<1>21. QED
  BY <1>19, <1>20

LEMMA GroupsPass ==
  ASSUME IInv, FirstPassed, SecondPassed,
         FixedConflict \/ FixedReserved \/ FixedWins \/ RuleWins \/ NoWinner
  PROVE  FirstPassed' /\ SecondPassed'
<1>1. TypeOK /\ winner \in [KeysOf -> Devices \cup {0}]
  BY DEF IInv, TypeOK
<1>2. \A k \in KeysOf : AtGroup(k) => winner[k] = 0
  BY <1>1, Keyed DEF AtGroup, FirstPassed
<1>3. CASE FixedConflict
  <2>1. PICK k \in KeysOf : /\ AtGroup(k) /\ Conflict(k) /\ Invalidate(Group(k))
                            /\ reserved' = reserved \cup KeysHeld(Group(k))
                            /\ UNCHANGED winner
    BY <1>3 DEF FixedConflict, Conflict
  <2>2. /\ \A d \in Devices : Fixed(k) # {d}
        /\ Fixed(k) # {}
    BY <2>1, AnyFixed
  <2>3. Group(k) \in SUBSET Group(k) /\ winner' = winner
    BY <2>1
  <2>4. QED
    BY <1>1, <1>2, <2>1, <2>2, <2>3, GroupPasses
<1>4. CASE FixedReserved
  <2>1. PICK k \in KeysOf, d \in Devices :
          /\ AtGroup(k) /\ Fixed(k) = {d} /\ k \in reserved
          /\ Invalidate({d}) /\ reserved' = reserved \cup KeysHeld({d})
          /\ UNCHANGED winner
    BY <1>4 DEF FixedReserved
  <2>2. /\ {d} \in SUBSET Group(k) /\ winner' = winner /\ ~Conflict(k) /\ Fixed(k) # {}
        /\ \A e \in Devices : Fixed(k) = {e} => {d} = {e}
    BY <2>1, AnyFixed
  <2>3. QED
    BY <1>1, <1>2, <2>1, <2>2, GroupPasses
<1>5. CASE FixedWins \/ RuleWins
  <2>1. PICK k \in KeysOf, d \in Devices :
          /\ AtGroup(k) /\ k \notin reserved
          /\ winner' = [winner EXCEPT ![k] = d] /\ UNCHANGED <<status, reserved>>
          /\ \/ Fixed(k) = {d}
             \/ Fixed(k) = {} /\ d \in Group(k) /\ \A e \in Group(k) \ {d} : Before(d, e)
    BY <1>5 DEF FixedWins, RuleWins, RuleMayWin
  <2> DEFINE V == [winner EXCEPT ![k] = d]
  <2>2. /\ V \in [KeysOf -> Devices \cup {0}] /\ V[k] = d /\ winner' = V
        /\ \A j \in KeysOf : j # k => V[j] = winner[j]
    BY <1>1, <2>1
  <2>3. Invalidate({}) /\ reserved' = reserved \cup KeysHeld({}) /\ {} \in SUBSET Group(k)
    BY <1>1, <2>1, NothingInvalidated
  <2> HIDE DEF V
  <2>4. ~Conflict(k)
    BY <2>1, AnyFixed
  <2>5. \A e \in Devices : Fixed(k) = {e} => V[k] = e
    BY <2>1, <2>2
  <2>6. Fixed(k) = {} => V[k] \in Group(k) /\ \A e \in Group(k) \ {V[k]} : Before(V[k], e)
    BY <2>1, <2>2
  <2>7. Fixed(k) = {} => Group(k) # {}
    BY <2>6
  <2>8. QED
    BY <2>1, <2>2, <2>3, <2>4, <2>5, <2>6, <2>7, GroupPasses
<1>6. CASE NoWinner
  <2>1. PICK k \in KeysOf : /\ AtGroup(k) /\ Fixed(k) = {}
                            /\ Group(k) = {} \/ k \in reserved
                            /\ UNCHANGED <<status, reserved, winner>>
    BY <1>6 DEF NoWinner
  <2>2. Invalidate({}) /\ reserved' = reserved \cup KeysHeld({}) /\ {} \in SUBSET Group(k)
    BY <1>1, <2>1, NothingInvalidated
  <2>3. ~Conflict(k) /\ winner' = winner /\ Fixed(k) = {} /\ AtGroup(k)
    BY <2>1, AnyFixed
  <2>4. \A d \in Devices : Fixed(k) # {d}
    BY <2>3
  <2>5. QED
    BY <1>1, <1>2, <2>1, <2>2, <2>3, <2>4, GroupPasses
<1>7. QED
  BY <1>3, <1>4, <1>5, <1>6

\* No plan has been made yet.
LEMMA FreshPasses == Fresh => FirstPassed /\ SecondPassed
<1>1. SUFFICES ASSUME Fresh PROVE FirstPassed /\ SecondPassed
  OBVIOUS
<1>2. \A d \in Devices : status[d] \in {"out", "candidate"}
  BY <1>1 DEF Fresh, StartStatus
<1>3. Refused = {}
  BY <1>2 DEF Refused
<1>4. reserved = HeldIn(current, Outside \cup Refused)
  BY <1>1, <1>3 DEF Fresh, KeysHeld, HeldIn, Outside, ReservedAtStart
<1>5. \A k \in KeysOf : ~(k < cursor) /\ winner[k] = 0
  BY <1>1 DEF Fresh, NoWinners, KeysOf
<1>6. FirstPassed
  BY <1>1, <1>2, <1>3, <1>4, <1>5 DEF Fresh, FirstPassed
<1>7. SecondPassed
  BY <1>1, <1>2 DEF Fresh, SecondPassed
<1>8. QED
  BY <1>6, <1>7

LEMMA FreshPassesNext == Fresh' => FirstPassed' /\ SecondPassed'
BY FreshPasses, PTL

\* No winner is invalid.
LEMMA WonNotRefused ==
  ASSUME TypeOK, NEW c, NEW F, NEW W, NEW E, Plan(F, W),
         \A k \in KeysOf : Decides(c, F, W, E, k), NEW d \in Won(W)
  PROVE  d \notin F /\ d \in Devices /\ d # 0 /\ Fold[want[d]] \in KeysOf
<1> DEFINE k == Fold[want[d]]
<1>1. d \in Devices /\ kind[d] # "out" /\ W[k] = d /\ k \in KeysOf /\ d \in Group(k) /\ d # 0
  BY Keyed DEF Won, Group
<1>2. Decides(c, F, W, E, k)
  BY <1>1
<1> HIDE DEF k
<1>3. d \notin F
  BY <1>1, <1>2, AnyFixed DEF Decides
<1>4. QED
  BY <1>1, <1>3 DEF k

\* Between the passes the winners are given their names.
LEMMA OccupyPasses ==
  ASSUME IInv, FirstPassed, SecondPassed, Occupy PROVE FirstPassed' /\ SecondPassed'
<1>1. TypeOK /\ Progression
  BY DEF IInv
<1>2. /\ phase = "groups" /\ cursor = K + 1 /\ phase' = "suffixes" /\ cursor' = K + 1
      /\ UNCHANGED <<current, want, kind, preserve, name, reserved, winner>>
      /\ occupied' = reserved \cup {Fold[want[d]] : d \in Winners}
  BY DEF Occupy, inputs
<1>3. \A d \in Devices : status'[d] = IF d \in Winners THEN Finished(d, want[d]) ELSE status[d]
  BY DEF Occupy
<1>4. \A k \in KeysOf : Decides(current, Refused, winner, Holders, k)
  BY <1>1, <1>2, Keyed DEF FirstPassed, KeysOf
<1>5. Winners = Won(winner)
  <2>1. \A d \in Won(winner) : d \in Devices /\ d \notin Refused
    BY <1>1, <1>4, WonNotRefused, PlanTyped
  <2>2. \A d \in Won(winner) : status[d] = "candidate"
    BY <1>1, <1>2, <2>1 DEF Won, FirstPassed, Progression, TypeOK, Managed
  <2>3. \A d \in Winners : d \in Won(winner)
    BY <1>1 DEF Winners, Won, Progression
  <2>4. QED
    BY <2>1, <2>2, <2>3 DEF Winners, Won
<1>6. Refused' = Refused
  <2>1. \A j : Conflict(j)' = Conflict(j)
    BY <1>2, OperatorsKept
  <2>2. \A d \in Devices : status'[d] = "invalid" <=> status[d] = "invalid"
    BY <1>3 DEF Winners, Finished
  <2>3. QED
    BY <1>2, <2>1, <2>2 DEF Refused
<1>7. Holders' = Holders
  BY <1>2 DEF Holders, Existing
<1>8. FirstPassed'
  <2>1. Outside' = Outside
    BY <1>2, OperatorsKept
  <2>2. \A k \in KeysOf : Decides(current, Refused, winner, Holders, k)'
    BY <1>2, <1>4, <1>6, <1>7, PlansKept
  <2>3. \A k \in KeysOf : k < cursor'
    BY <1>1, <1>2, Keyed DEF KeysOf
  <2>4. QED
    BY <1>2, <1>6, <2>1, <2>2, <2>3 DEF FirstPassed
<1> DEFINE L == Lost(Refused, winner)
<1>9. \A d \in L : status'[d] = "candidate"
  <2>1. \A d \in L : d \in Devices /\ d \notin Winners /\ status[d] = "candidate"
    BY <1>1, <1>2, <1>5 DEF Lost, Won, FirstPassed, Progression, TypeOK, Managed
  <2>2. QED
    BY <1>3, <2>1
<1>10. SecondPassed'
  <2>1. /\ Lost(Refused, winner)' = L /\ Won(winner)' = Won(winner)
        /\ Base(current, Refused, winner)' = Base(current, Refused, winner)
    BY <1>2, <1>6, OperatorsKept, PlansKept
  <2>2. \A d \in Devices : /\ status'[d] = "unchanged" => current'[d] = name'[d]
                           /\ status'[d] = "rename" => current'[d] # name'[d]
    BY <1>1, <1>2, <1>3 DEF Finished, Winners, Progression, SecondPassed
  <2>3. \A d \in Won(winner) : Managed(d)' /\ name'[d] = want'[d]
    BY <1>1, <1>2, <1>3, <1>5 DEF Finished, Winners, Progression, Managed
  <2>4. Losers' \subseteq L
    <3>1. ASSUME NEW d \in Losers' PROVE d \in L
      <4>1. d \in Devices /\ status[d] = "candidate" /\ d \notin Winners
        BY <1>3, <3>1 DEF Losers, Finished
      <4>2. QED
        BY <1>1, <1>5, <4>1 DEF Lost, Won, Refused, Progression
    <3>2. QED
      BY <3>1
  <2>5. {d \in L : Passed(d)'} = {}
    BY <1>9 DEF Passed
  <2>6. reserved = HeldIn(current, Outside \cup Refused)
    BY DEF FirstPassed
  <2>7. occupied' = Base(current, Refused, winner) \cup HeldIn(After', {})
    BY <1>2, <1>5, <2>6 DEF Base, HeldIn
  <2> HIDE DEF L
  <2>8. QED
    BY <1>2, <1>6, <2>1, <2>2, <2>3, <2>4, <2>5, <2>7 DEF SecondPassed
<1>11. QED
  BY <1>8, <1>10

\* A loser is given the first name that the keys occupied so far leave free,
\* or found to be without one.
LEMMA LoserPasses ==
  ASSUME IInv, FirstPassed, SecondPassed, NEW d \in Devices, NEW n \in Names, NextLoser(d),
         UNCHANGED <<inputs, reserved, winner, phase, cursor, round>>,
         \A e \in Devices : e # d => status'[e] = status[e] /\ name'[e] = name[e],
         name'[d] = n,
         IF FreeOf(d, occupied) = {}
         THEN status'[d] = "invalid" /\ occupied' = occupied \cup KeysHeld({d})
         ELSE /\ status'[d] = Finished(d, n) /\ occupied' = occupied \cup {Fold[n]}
              /\ Takes(d, occupied, n)
  PROVE  FirstPassed' /\ SecondPassed'
<1> DEFINE L == Lost(Refused, winner)
           P == {e \in L : Passed(e)}
<1>1. TypeOK /\ Progression
  BY DEF IInv
<1>2. /\ phase = "suffixes" /\ cursor = K + 1 /\ cursor' = K + 1 /\ phase' = "suffixes"
      /\ UNCHANGED <<current, want, kind, preserve, reserved, winner>>
      /\ status[d] = "candidate" /\ d \in L
  BY DEF NextLoser, Losers, FirstPassed, SecondPassed, inputs
<1>3. \A k \in KeysOf : Decides(current, Refused, winner, Holders, k)
  BY <1>1, <1>2, Keyed DEF FirstPassed, KeysOf
<1>4. kind[d] = "rule"
  BY <1>1, <1>2 DEF IInv, Progression, FixedSettled, TypeOK
<1>5. d \notin Refused /\ Fold[want[d]] \in KeysOf /\ d \in Group(Fold[want[d]])
  BY <1>1, <1>2, <1>4, Keyed DEF Lost, Group
<1>6. ~Conflict(Fold[want[d]])
  BY <1>3, <1>5 DEF Decides
<1>7. Refused' = Refused
  <2>1. \A k : Conflict(k)' = Conflict(k)
    BY <1>2, OperatorsKept
  <2>2. d \notin Refused'
    BY <1>2, <1>4, <1>6, <2>1 DEF Refused
  <2>3. \A e \in Devices : e # d => (e \in Refused' <=> e \in Refused)
    BY <1>2, <2>1 DEF Refused
  <2>4. QED
    BY <1>5, <2>2, <2>3 DEF Refused
<1>8. Holders' = Holders
  BY <1>2 DEF Holders, Existing
<1>9. FirstPassed'
  <2>1. Outside' = Outside
    BY <1>2, OperatorsKept
  <2>2. \A k \in KeysOf : Decides(current, Refused, winner, Holders, k)'
    BY <1>2, <1>3, <1>7, <1>8, PlansKept
  <2>3. \A k \in KeysOf : k < cursor'
    BY <1>1, <1>2, Keyed DEF KeysOf
  <2>4. QED
    BY <1>2, <1>7, <2>1, <2>2, <2>3 DEF FirstPassed
<1>10. /\ L' = L /\ Won(winner)' = Won(winner)
       /\ Base(current, Refused, winner)' = Base(current, Refused, winner)
  BY <1>2, <1>7, OperatorsKept, PlansKept
<1>11. /\ \A e \in Won(winner) : Managed(e) /\ name[e] = want[e] /\ e \in Devices
       /\ Losers \subseteq L /\ L \subseteq Devices
       /\ \A e, f \in L : Passed(e) /\ f # e /\ Sooner(Holders, f, e) => Passed(f)
       /\ occupied = Base(current, Refused, winner) \cup HeldIn(After, P)
       /\ \A e \in L : Passed(e) =>
            LET T == Taken(After, Refused, winner, Holders, e) IN
            IF FreeOf(e, T) = {} THEN status[e] = "invalid" ELSE Managed(e) /\ Takes(e, T, name[e])
  BY <1>2 DEF SecondPassed, Won, Lost
<1>12. P = {e \in L : e # d /\ Sooner(Holders, e, d)}
  <2>1. ASSUME NEW e \in L, Passed(e) PROVE e # d /\ Sooner(Holders, e, d)
    <3>1. e # d
      BY <1>2, <2>1 DEF Passed
    <3>2. ~Sooner(Holders, d, e)
      BY <1>2, <1>11, <2>1, <3>1 DEF Passed
    <3>3. QED
      BY <1>1, <1>11, <3>1, <3>2, AheadOrders
  <2>2. ASSUME NEW e \in L, e # d, Sooner(Holders, e, d), ~Passed(e) PROVE FALSE
    <3>1. e \in Losers \ {d}
      BY <1>11, <2>2 DEF Losers, Passed
    <3>2. Sooner(Holders, d, e)
      BY <1>11, <3>1, BeforeIsAhead DEF NextLoser, Sooner
    <3>3. QED
      BY <1>1, <1>11, <2>2, <3>2, AheadOrders
  <2>3. QED
    BY <2>1, <2>2
<1>13. /\ \A e \in Devices : e # d => After'[e] = After[e]
       /\ IF FreeOf(d, occupied) = {} THEN After'[d] = current[d] ELSE After'[d] = n
  BY <1>2 DEF After, Finished
<1>14. \A S : d \notin S /\ S \subseteq Devices => HeldIn(After', S) = HeldIn(After, S)
  <2>1. \A S : d \notin S /\ S \subseteq Devices => \A e \in S : After'[e] = After[e]
    BY <1>13
  <2>2. QED
    BY <2>1, HeldSame
<1>15. /\ {e \in L : Passed(e)'} = P \cup {d} /\ d \notin P
       /\ \A e \in L : Passed(e)' <=> Passed(e) \/ e = d
  BY <1>2, <1>11 DEF Passed, Finished
<1>16. occupied' = Base(current, Refused, winner) \cup HeldIn(After', P \cup {d})
  <2>1. HeldIn(After', P \cup {d}) = HeldIn(After', P) \cup HeldIn(After', {d})
    BY HeldUnion
  <2>2. HeldIn(After', P) = HeldIn(After, P)
    BY <1>11, <1>14, <1>15
  <2>3. CASE FreeOf(d, occupied) = {}
    <3>1. HeldIn(After', {d}) = KeysHeld({d})
      BY <1>13, <2>3 DEF HeldIn, KeysHeld
    <3>2. QED
      BY <1>11, <2>1, <2>2, <2>3, <3>1
  <2>4. CASE FreeOf(d, occupied) # {}
    <3>1. HeldIn(After', {d}) = {Fold[n]}
      BY <1>13, <2>4, PlannerAssumption DEF HeldIn
    <3>2. QED
      BY <1>11, <2>1, <2>2, <2>4, <3>1
  <2>5. QED
    BY <2>3, <2>4
<1>17. \A e, f \in L : Passed(e)' /\ f # e /\ Sooner(Holders, f, e) => Passed(f)'
  BY <1>11, <1>12, <1>15
<1>18. ASSUME NEW e \in L, d \notin {f \in L : f # e /\ Sooner(Holders, f, e)}
       PROVE  Taken(After', Refused, winner, Holders, e) = Taken(After, Refused, winner, Holders, e)
  <2> DEFINE S == {f \in L : f # e /\ Sooner(Holders, f, e)}
  <2>1. HeldIn(After', S) = HeldIn(After, S)
    BY <1>11, <1>14, <1>18
  <2>2. HeldIn(After', Outside \cup Refused) = HeldIn(After, Outside \cup Refused)
    BY <1>4, <1>5, <1>14 DEF Outside, Refused
  <2>3. QED
    BY <2>1, <2>2 DEF Taken, Base
<1>19. Base(After, Refused, winner) = Base(current, Refused, winner)
  <2>1. \A e \in Outside \cup Refused : After[e] = current[e]
    BY <1>1 DEF After, Outside, Refused, Progression
  <2>2. QED
    BY <2>1, HeldSame DEF Base
<1>20. Taken(After', Refused, winner, Holders, d) = occupied
  <2>1. Taken(After, Refused, winner, Holders, d) = occupied
    BY <1>11, <1>12, <1>19 DEF Taken
  <2>2. QED
    BY <1>2, <1>18, <2>1
<1> DEFINE Shows(e) ==
       LET T == Taken(After', Refused, winner, Holders, e) IN
       IF FreeOf(e, T) = {} THEN status'[e] = "invalid" ELSE Managed(e)' /\ Takes(e, T, name'[e])
<1>21. ASSUME NEW e \in L, Passed(e)' PROVE Shows(e)
  <2>1. CASE e = d
    BY <1>20, <2>1 DEF Managed, Finished
  <2>2. CASE e # d
    <3>0. e \in Devices /\ ~Passed(d)
      BY <1>2, <1>11 DEF Passed
    <3>1. Passed(e) /\ e \in Devices /\ ~Passed(d)
      BY <1>15, <1>21, <2>2, <3>0
    <3>2. d \notin {f \in L : f # e /\ Sooner(Holders, f, e)}
      BY <1>11, <3>1
    <3>3. Taken(After', Refused, winner, Holders, e) = Taken(After, Refused, winner, Holders, e)
      BY <1>18, <3>2
    <3>4. status'[e] = status[e] /\ name'[e] = name[e] /\ (Managed(e)' <=> Managed(e))
      BY <2>2, <3>1 DEF Managed
    <3>5. QED
      BY <1>11, <3>1, <3>3, <3>4
  <2>3. QED
    BY <2>1, <2>2
<1>22. SecondPassed'
  <2>1. \A e \in Devices : /\ status'[e] = "unchanged" => current'[e] = name'[e]
                           /\ status'[e] = "rename" => current'[e] # name'[e]
    BY <1>2 DEF SecondPassed, Finished
  <2>2. \A e \in Won(winner) : Managed(e)' /\ name'[e] = want'[e]
    <3>1. \A e \in Won(winner) : e # d
      BY <1>2, <1>11 DEF Managed
    <3>2. QED
      BY <1>2, <1>11, <3>1 DEF Managed
  <2>3. Losers' \subseteq L
    BY <1>2, <1>11 DEF Losers, Finished
  <2>4. \A e, f \in L : Passed(e)' /\ f # e /\ Sooner(Holders, f, e)' => Passed(f)'
    BY <1>2, <1>8, <1>17, OperatorsKept
  <2>5. \A e \in L : Passed(e)' =>
          IF FreeOf(e, Taken(After, Refused, winner, Holders, e))' = {} THEN status'[e] = "invalid"
          ELSE Managed(e)' /\ Takes(e, Taken(After, Refused, winner, Holders, e), name[e])'
    BY <1>2, <1>7, <1>8, <1>21, OperatorsKept, PlansKept
  <2>6. occupied' = Base(current, Refused, winner)' \cup HeldIn(After', {e \in L : Passed(e)'})
    BY <1>10, <1>15, <1>16
  <2> HIDE DEF L, P, Shows
  <2>7. QED
    BY <1>10, <2>1, <2>2, <2>3, <2>4, <2>5, <2>6 DEF SecondPassed, L
<1>23. QED
  BY <1>9, <1>22

LEMMA LosersPass ==
  ASSUME IInv, FirstPassed, SecondPassed, Suffix \/ SuffixExhausted
  PROVE  FirstPassed' /\ SecondPassed'
<1>1. TypeOK
  BY DEF IInv
<1>2. \A d \in Devices : Free(d) = FreeOf(d, occupied)
  BY DEF Free, FreeOf
<1>3. CASE Suffix
  <2>1. PICK d \in Devices, i \in Nat :
          /\ i \in Free(d) /\ NextLoser(d) /\ \A j \in Free(d) : i <= j
          /\ name' = [name EXCEPT ![d] = Suffixes[d][want[d]][i]]
          /\ occupied' = occupied \cup {Fold[Suffixes[d][want[d]][i]]}
          /\ status' = [status EXCEPT ![d] = Finished(d, Suffixes[d][want[d]][i])]
          /\ UNCHANGED <<inputs, reserved, winner, phase, cursor, round>>
    <3>1. PICK d \in Devices : \E i \in Free(d) :
            /\ NextLoser(d) /\ \A j \in Free(d) : i <= j
            /\ name' = [name EXCEPT ![d] = Suffixes[d][want[d]][i]]
            /\ occupied' = occupied \cup {Fold[Suffixes[d][want[d]][i]]}
            /\ status' = [status EXCEPT ![d] = Finished(d, Suffixes[d][want[d]][i])]
            /\ UNCHANGED <<inputs, reserved, winner, phase, cursor, round>>
      BY <1>3 DEF Suffix, OccupiedBy
    <3>2. Suffixes[d][want[d]] \in Seq(Names) /\ Free(d) \subseteq Nat
      BY <1>1, PlannerAssumption DEF TypeOK, Free
    <3>3. QED
      BY <3>1, <3>2
  <2> DEFINE n == Suffixes[d][want[d]][i]
  <2>2. Suffixes[d][want[d]] \in Seq(Names)
    BY <1>1, PlannerAssumption DEF TypeOK
  <2>3. n \in Names /\ Takes(d, occupied, n) /\ FreeOf(d, occupied) # {}
    BY <1>2, <2>1, <2>2 DEF Takes, Free
  <2> HIDE DEF n
  <2>4. /\ \A e \in Devices : e # d => status'[e] = status[e] /\ name'[e] = name[e]
        /\ name'[d] = n /\ status'[d] = Finished(d, n) /\ occupied' = occupied \cup {Fold[n]}
    BY <1>1, <2>1 DEF TypeOK, n
  <2>5. QED
    BY <2>1, <2>3, <2>4, LoserPasses
<1>4. CASE SuffixExhausted
  <2>1. PICK d \in Devices :
          /\ NextLoser(d) /\ Free(d) = {} /\ Invalidate({d})
          /\ occupied' = occupied \cup KeysHeld({d})
          /\ UNCHANGED <<inputs, name, reserved, winner, phase, cursor, round>>
    BY <1>4 DEF SuffixExhausted
  <2>2. /\ \A e \in Devices : e # d => status'[e] = status[e] /\ name'[e] = name[e]
        /\ name'[d] = name[d] /\ name[d] \in Names /\ status'[d] = "invalid"
        /\ UNCHANGED <<inputs, reserved, winner, phase, cursor, round>>
    BY <1>1, <2>1 DEF Invalidate, TypeOK
  <2>3. QED
    BY <1>2, <2>1, <2>2, LoserPasses
<1>5. QED
  BY <1>3, <1>4

-----------------------------------------------------------------------------
(* From plan to plan.                                                      *)

LEMMA SettledKept ==
  ASSUME UNCHANGED <<want, kind, preserve>>
  PROVE  \A c, F, W, E : Settled(c, F, W, E)' <=> Settled(c, F, W, E)
<1>1. \A c, d : HasBase(c, d)' <=> HasBase(c, d)
  BY DEF HasBase
<1>2. QED
  BY <1>1, OperatorsKept, PlansKept DEF Settled

\* What a finished plan comes to once it is carried out.
LEMMA CarriedOut ==
  ASSUME TypeOK, Progression, FirstPassed, SecondPassed, phase = "done"
  PROVE  Settled(After, Refused, winner, Holders)
<1> DEFINE L == Lost(Refused, winner)
           Avoids(d) == Taken(After, Refused, winner, Holders, d)
<1>1. Plan(Refused, winner) /\ \A d \in Refused : kind[d] # "out"
  BY PlanTyped
<1>2. \A d \in Outside \cup Refused : After[d] = current[d]
  BY DEF After, Outside, Refused, Progression
<1>3. \A k \in KeysOf : Decides(After, Refused, winner, Holders, k)
  <2>1. SUFFICES ASSUME NEW k \in KeysOf PROVE Decides(After, Refused, winner, Holders, k)
    OBVIOUS
  <2>2. Decides(current, Refused, winner, Holders, k)
    BY Keyed DEF FirstPassed, KeysOf
  <2>3. Kept(After, Refused, k) = Kept(current, Refused, k)
    BY <1>2, HeldSame DEF Kept
  <2>4. QED
    BY <2>2, <2>3 DEF Decides
<1>4. \A d \in Won(winner) : After[d] = want[d]
  BY AfterGiven DEF SecondPassed, Won
<1>5. ASSUME NEW d \in L
      PROVE  /\ d \in Devices
             /\ IF FreeOf(d, Avoids(d)) = {} THEN status[d] = "invalid"
                ELSE Managed(d) /\ Takes(d, Avoids(d), name[d])
  BY DEF Progression, SecondPassed, Passed, Losers, Lost
<1>6. ASSUME NEW d \in L
      PROVE  /\ FreeOf(d, Avoids(d)) # {} => Takes(d, Avoids(d), After[d])
             /\ HasBase(After, d) => d \in Holders
  <2>1. CASE FreeOf(d, Avoids(d)) = {}
    <3>1. After[d] = current[d] /\ d \in Devices
      BY <1>5, <2>1, AfterGiven DEF Managed
    <3>2. QED
      BY <2>1, <3>1 DEF HasBase, Holders, Existing
  <2>2. CASE FreeOf(d, Avoids(d)) # {}
    <3>1. After[d] = name[d] /\ Takes(d, Avoids(d), name[d])
      BY <1>5, <2>2, AfterGiven
    <3>2. Fold[name[d]] \notin Avoids(d)
      BY <3>1 DEF Takes, FreeOf
    <3>3. Fold[want[d]] \in Avoids(d)
      BY <1>1, <1>3, LostToSomebody DEF Taken
    <3>4. QED
      BY <3>1, <3>2, <3>3 DEF HasBase
  <2>3. QED
    BY <2>1, <2>2
<1>7. QED
  BY <1>1, <1>3, <1>4, <1>6 DEF Settled

\* Either all losers that have the base names of their groups still do, and
\* nothing will change any more; or they become fewer.
LEMMA LosersShrink ==
  ASSUME TypeOK, Progression, FirstPassed, SecondPassed, Foreseen, phase = "done",
         round \in Nat \ {0}
  PROVE  LET L == Lost(Refused, winner) IN
         \/ \A d \in L : d \in Holders => HasBase(After, d)
         \/ ~preserve
         \/ Cardinality({d \in L : HasBase(After, d)}) <= N - (round + 1)
<1> DEFINE L == Lost(Refused, winner)
           A == Lingering(Refused, winner)
           B == {d \in L : HasBase(After, d)}
<1>1. SUFFICES ASSUME preserve, NEW d \in L, d \in Holders, ~HasBase(After, d)
               PROVE  Cardinality(B) <= N - (round + 1)
  OBVIOUS
<1>2. Settled(After, Refused, winner, Holders) /\ Plan(Refused, winner)
  BY CarriedOut, PlanTyped
<1>3. L \subseteq Devices
  BY DEF Lost
<1>4. B \subseteq A /\ d \in A /\ d \notin B /\ A \subseteq L
  BY <1>1, <1>2 DEF Settled, Lingering, Holders, Existing
<1> HIDE DEF B, A, L
<1>5. IsFiniteSet(Devices) /\ Cardinality(Devices) = N /\ N \in Nat
  <2>1. N \in Nat
    BY PlannerAssumption
  <2>2. QED
    BY <2>1, FS_Interval DEF Devices
<1>6. /\ IsFiniteSet(A) /\ Cardinality(A) <= N /\ (Cardinality(A) = N => A = Devices)
      /\ Cardinality(A) \in Nat
  BY <1>3, <1>4, <1>5, FS_Subset, FS_CardinalityType
<1>7. Cardinality(B) \in Nat /\ Cardinality(B) < Cardinality(A)
  <2>1. /\ IsFiniteSet(B) /\ Cardinality(B) <= Cardinality(A)
        /\ Cardinality(A) = Cardinality(B) => A = B
    BY <1>4, <1>6, FS_Subset
  <2>2. Cardinality(B) \in Nat
    BY <2>1, FS_CardinalityType
  <2>3. QED
    BY <1>4, <1>6, <2>1, <2>2
<1>8. Cardinality(A) <= N - round
  <2>1. CASE round = 1
    <3>1. \E e \in Devices : e \notin L
      BY <1>1, <1>2, LostToSomebody DEF Settled, L
    <3>2. Cardinality(A) # N
      BY <1>4, <1>6, <3>1
    <3>3. QED
      BY <1>5, <1>6, <2>1, <3>2
  <2>2. CASE round > 1
    <3>1. PICK F \in SUBSET Devices, W \in [KeysOf -> Devices \cup {0}], E \in SUBSET Devices :
            /\ Settled(current, F, W, E)
            /\ Calm(F, W, E) \/ Cardinality(Lingering(F, W)) <= N - round
      BY <2>2 DEF Foreseen
    <3>2. Plan(F, W)
      BY <3>1 DEF Plan
    <3>3. F = Refused /\ W = winner
      BY <3>1, <3>2, FirstPassRepeats
    <3>4. ~Calm(F, W, E)
      <4>1. SUFFICES ASSUME Calm(F, W, E) PROVE FALSE
        OBVIOUS
      <4>2. After[d] = current[d]
        BY <1>1, <1>3, <3>1, <3>2, <4>1, CalmPlansRepeat
      <4>3. QED
        BY <1>1, <4>2 DEF Holders, Existing, HasBase
    <3>5. QED
      BY <3>1, <3>3, <3>4 DEF A
  <2>3. QED
    BY <2>1, <2>2
<1>9. QED
  BY <1>5, <1>6, <1>7, <1>8

LEMMA ReplanForesees ==
  ASSUME IInv, FirstPassed, SecondPassed, Foreseen, round # 0, Replan
  PROVE  Foreseen'
<1>1. TypeOK /\ Progression /\ round \in Nat \ {0}
  BY DEF IInv, TypeOK
<1>2. /\ phase = "done" /\ round' = round + 1 /\ current' = After
      /\ UNCHANGED <<want, kind, preserve>>
  BY DEF Replan, After
<1>3. PICK F \in SUBSET Devices, W \in [KeysOf -> Devices \cup {0}], E \in SUBSET Devices :
        F = Refused /\ W = winner /\ E = Holders
  <2>1. Holders \in SUBSET Devices
    BY DEF Holders
  <2>2. QED
    BY <1>1, <2>1, PlanTyped DEF Plan
<1>4. Settled(After, F, W, E)
  BY <1>1, <1>2, <1>3, CarriedOut
<1>5. \/ \A d \in Lost(F, W) : d \in E => HasBase(After, d)
      \/ ~preserve
      \/ Cardinality({d \in Lost(F, W) : HasBase(After, d)}) <= N - (round + 1)
  BY <1>1, <1>2, <1>3, LosersShrink
<1>6. Settled(current, F, W, E)'
  BY <1>2, <1>4, SettledKept
<1>7. \A d : Existing(d)' <=> HasBase(After, d)
  BY <1>2 DEF Existing, HasBase
<1>8. Lost(F, W)' = Lost(F, W)
  BY <1>2, OperatorsKept
<1>9. Lingering(F, W)' = {d \in Lost(F, W) : HasBase(After, d)}
  BY <1>7, <1>8 DEF Lingering
<1>10. Calm(F, W, E)' \/ Cardinality(Lingering(F, W))' <= N - round'
  BY <1>2, <1>5, <1>7, <1>8, <1>9 DEF Calm
<1>11. QED
  BY <1>6, <1>10 DEF Foreseen

\* Within a round the names are the ones it began with.
LEMMA ForeseenKept ==
  ASSUME Foreseen, UNCHANGED <<current, want, kind, preserve, round>> PROVE Foreseen'
<1>1. \A c, F, W, E : Settled(c, F, W, E)' <=> Settled(c, F, W, E)
  BY SettledKept
<1>2. \A F, W : Lost(F, W)' = Lost(F, W)
  BY OperatorsKept
<1>3. \A d : Existing(d)' <=> Existing(d)
  BY DEF Existing
<1>4. \A F, W : Lingering(F, W)' = Lingering(F, W)
  BY <1>2, <1>3 DEF Lingering
<1>5. \A F, W, E : Calm(F, W, E)' <=> Calm(F, W, E)
  BY <1>2, <1>3 DEF Calm
<1>6. QED
  BY <1>1, <1>4, <1>5 DEF Foreseen

\* The invariant of single plans, and what one owes the plan before.
PlansInv == IInv /\ FirstPassed /\ SecondPassed /\ Foreseen /\ round # 0

LEMMA PlansNext == PlansInv /\ [Next]_vars => PlansInv'
<1>1. SUFFICES ASSUME PlansInv, [Next]_vars PROVE PlansInv'
  OBVIOUS
<1>2. IInv' /\ round \in Nat
  BY <1>1, NextHolds DEF PlansInv, IInv, TypeOK
<1>3. CASE Replan
  <2>1. Foreseen'
    BY <1>1, <1>3, ReplanForesees DEF PlansInv
  <2>2. FirstPassed' /\ SecondPassed'
    BY <1>1, <1>3, ReplanFresh, FreshPassesNext DEF PlansInv
  <2>3. round' # 0
    BY <1>2, <1>3 DEF Replan
  <2>4. QED
    BY <1>2, <2>1, <2>2, <2>3 DEF PlansInv
<1>4. CASE FixedConflict \/ FixedReserved \/ FixedWins \/ RuleWins \/ NoWinner
  <2>1. UNCHANGED <<current, want, kind, preserve, round>>
    BY <1>4 DEF FixedConflict, FixedReserved, FixedWins, RuleWins, NoWinner, AtGroup, inputs
  <2>2. QED
    BY <1>1, <1>2, <1>4, <2>1, GroupsPass, ForeseenKept DEF PlansInv
<1>5. CASE Occupy
  <2>1. UNCHANGED <<current, want, kind, preserve, round>>
    BY <1>5 DEF Occupy, inputs
  <2>2. QED
    BY <1>1, <1>2, <1>5, <2>1, OccupyPasses, ForeseenKept DEF PlansInv
<1>6. CASE Suffix \/ SuffixExhausted
  <2>1. UNCHANGED <<current, want, kind, preserve, round>>
    BY <1>6 DEF Suffix, SuffixExhausted, inputs
  <2>2. QED
    BY <1>1, <1>2, <1>6, <2>1, LosersPass, ForeseenKept DEF PlansInv
<1>7. CASE Planned \/ UNCHANGED vars
  <2>1. /\ UNCHANGED <<current, want, kind, preserve, status, name, reserved, winner, occupied,
                       cursor, round>>
        /\ phase' = phase \/ (phase = "suffixes" /\ phase' = "done")
    BY <1>7 DEF Planned, vars, inputs
  <2>2. /\ Refused' = Refused /\ Holders' = Holders /\ After' = After /\ Losers' = Losers
        /\ Outside' = Outside
        /\ \A d : (Passed(d)' <=> Passed(d)) /\ (Managed(d)' <=> Managed(d))
    BY <2>1, OperatorsKept DEF Refused, Holders, Existing, After, Losers, Passed, Managed
  <2>3. FirstPassed'
    BY <1>1, <2>1, <2>2, PlansKept DEF PlansInv, FirstPassed
  <2>4. SecondPassed'
    <3>1. CASE phase = "groups"
      BY <1>1, <2>1, <3>1 DEF PlansInv, SecondPassed
    <3>2. CASE phase # "groups"
      BY <1>1, <2>1, <2>2, <3>2, OperatorsKept, PlansKept DEF PlansInv, SecondPassed
    <3>3. QED
      BY <3>1, <3>2
  <2>5. QED
    BY <1>1, <1>2, <2>1, <2>3, <2>4, ForeseenKept DEF PlansInv
<1>8. QED
  BY <1>1, <1>3, <1>4, <1>5, <1>6, <1>7 DEF Next

LEMMA PlansInit == Init => PlansInv
<1>1. SUFFICES ASSUME Init PROVE PlansInv
  OBVIOUS
<1>2. want \in [Devices -> Names]
  BY <1>1, PlannerAssumption DEF Init
<1>3. Fresh /\ round = 1
  BY <1>1, <1>2 DEF Init, Fresh
<1>4. QED
  BY <1>3, FreshHolds, FreshPasses DEF PlansInv, Foreseen

(* Carrying plans out comes to an end: after one plan, or with             *)
(* preserve_existing as many as there are devices, nothing is renamed.     *)
THEOREM PlansConverge == Spec => []Converges
<1>1. PlansInv => Converges
  <2>1. SUFFICES ASSUME PlansInv, phase = "done", round > (IF preserve THEN N ELSE 1),
                        NEW d \in Devices
                 PROVE  status[d] # "rename"
    BY DEF Converges
  <2>2. TypeOK /\ Progression /\ FirstPassed /\ SecondPassed /\ round > 1
    BY <2>1, Keyed DEF PlansInv, IInv, TypeOK, Devices
  <2>3. PICK F \in SUBSET Devices, W \in [KeysOf -> Devices \cup {0}], E \in SUBSET Devices :
          /\ Settled(current, F, W, E)
          /\ Calm(F, W, E) \/ Cardinality(Lingering(F, W)) <= N - round
    BY <2>1, <2>2 DEF PlansInv, Foreseen
  <2>4. Cardinality(Lingering(F, W)) \in Nat
    <3>1. IsFiniteSet(Devices)
      BY PlannerAssumption, FS_Interval DEF Devices
    <3>2. Lingering(F, W) \in SUBSET Devices
      BY DEF Lingering, Lost
    <3>3. QED
      BY <3>1, <3>2, FS_Subset, FS_CardinalityType
  <2>5. Calm(F, W, E)
    BY <2>1, <2>2, <2>3, <2>4, Keyed DEF Calm, TypeOK
  <2>6. Plan(F, W)
    BY <2>3 DEF Plan
  <2>7. After[d] = current[d]
    BY <2>1, <2>2, <2>3, <2>5, <2>6, CalmPlansRepeat
  <2>8. QED
    BY <2>2, <2>7, AfterGiven
<1>2. QED
  BY <1>1, PlansInit, PlansNext, PTL DEF Spec

=============================================================================
