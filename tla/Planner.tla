------------------------------- MODULE Planner ------------------------------
(***************************************************************************)
(* Collision resolution in the planner (internal/planner/planner.go:       *)
(* resolveCollisions), group by group and then loser by loser, for any     *)
(* outcome of policy evaluation, and over rounds: the plan is applied and  *)
(* the next snapshot planned again.                                        *)
(*                                                                         *)
(* Devices are numbered by collision rank, ties by identity.  Names equal  *)
(* up to case share a key (foldName), and keys are numbered in the order   *)
(* the groups are taken.  Suffixes lists the sequence names a device can   *)
(* be given: those that satisfy the pattern, in order, until one is too    *)
(* long for its platform.                                                  *)
(***************************************************************************)
EXTENDS Integers, Sequences, FiniteSets

CONSTANTS
  N,                 \* devices are 1 .. N
  Names,             \* device names
  NoName,            \* the empty current name
  Desired,           \* names policy may give, a subset of Names
  K,                 \* keys are 1 .. K
  Fold,              \* the key of a name
  Suffixes,          \* sequence names for a device and a base name
  Rounds             \* bound on the plans made

Devices == 1 .. N
KeysOf == 1 .. K

ASSUME PlannerAssumption ==
  /\ N \in Nat /\ K \in Nat /\ Rounds \in Nat
  /\ Desired \subseteq Names
  /\ NoName \notin Names
  /\ Fold \in [Names -> KeysOf]
  /\ Suffixes \in [Devices -> [Names -> Seq(Names)]]

VARIABLES
  current,   \* the snapshot's names
  want,      \* policy's name for a device
  kind,      \* fixed by an override, given by a rule, or outside the plan
  preserve,  \* collisions.disambiguate.preserve_existing
  status,    \* what the plan says so far
  name,      \* the plan's desired name
  reserved,  \* keys reserved before any name is given
  winner,    \* the device each key's base name goes to, or 0
  occupied,  \* keys that sequence names must avoid
  phase, cursor, round

inputs == <<current, want, kind, preserve>>
vars == <<current, want, kind, preserve, status, name, reserved, winner, occupied,
          phase, cursor, round>>

Managed(d) == status[d] \in {"unchanged", "rename"}

TypeOK ==
  /\ current \in [Devices -> Names \cup {NoName}]
  /\ want \in [Devices -> Names]
  /\ kind \in [Devices -> {"fixed", "rule", "out"}]
  /\ preserve \in BOOLEAN
  /\ status \in [Devices -> {"out", "candidate", "invalid", "unchanged", "rename"}]
  /\ name \in [Devices -> Names]
  /\ reserved \in SUBSET KeysOf
  /\ winner \in [KeysOf -> Devices \cup {0}]
  /\ occupied \in SUBSET KeysOf
  /\ phase \in {"groups", "suffixes", "done"}
  /\ cursor \in 1 .. K + 1
  /\ round \in Nat

\* The keys of the names the devices in S have now (an empty name has none).
KeysHeld(S) == {Fold[current[d]] : d \in {e \in S : current[e] # NoName}}

\* Non-candidates keep their names; the others compete for theirs.
StartStatus == [d \in Devices |-> IF kind[d] = "out" THEN "out" ELSE "candidate"]

ReservedAtStart == {d \in Devices : kind[d] = "out"}

NoWinners == [k \in KeysOf |-> 0]

Init ==
  /\ current \in [Devices -> Names \cup {NoName}]
  /\ want \in [Devices -> Desired]
  /\ kind \in [Devices -> {"fixed", "rule", "out"}]
  /\ preserve \in BOOLEAN
  /\ status = StartStatus
  /\ name = want
  /\ reserved = KeysHeld(ReservedAtStart)
  /\ winner = NoWinners
  /\ occupied = {}
  /\ phase = "groups"
  /\ cursor = 1
  /\ round = 1

-----------------------------------------------------------------------------
Group(k) == {d \in Devices : kind[d] # "out" /\ Fold[want[d]] = k}

Fixed(k) == {d \in Group(k) : kind[d] = "fixed"}

\* The device already has its desired name, up to case.
Existing(d) == current[d] # NoName /\ Fold[current[d]] = Fold[want[d]]

\* Fault: the device that already has the name comes last.
BeforeExisting(d, e) ==
  IF Existing(d) # Existing(e) THEN Existing(e) ELSE d < e

\* compareCandidates: existing names first, then rank, then identity.
Before(d, e) ==
  IF preserve /\ Existing(d) # Existing(e) THEN Existing(d) ELSE d < e

\* The groups in key order; the whole loop body for group k.
AtGroup(k) ==
  /\ phase = "groups"
  /\ cursor = k
  /\ k \in KeysOf
  /\ cursor' = cursor + 1
  /\ UNCHANGED <<inputs, name, occupied, phase, round>>

Invalidate(S) == status' = [d \in Devices |-> IF d \in S THEN "invalid" ELSE status[d]]

\* Fault: of several fixed names the first one wins.
FixedConflictFirstWins ==
  \E k \in KeysOf :
    /\ AtGroup(k)
    /\ \E d, e \in Fixed(k) : d # e
    /\ \E d \in Fixed(k) :
         /\ \A e \in Fixed(k) \ {d} : Before(d, e)
         /\ winner' = [winner EXCEPT ![k] = d]
    /\ UNCHANGED <<status, reserved>>

\* Two overrides fix the same name: the whole group is invalid, and keeps its
\* current names.
FixedConflict ==
  \E k \in KeysOf :
    /\ AtGroup(k)
    /\ \E d, e \in Fixed(k) : d # e
    /\ Invalidate(Group(k))
    /\ reserved' = reserved \cup KeysHeld(Group(k))
    /\ UNCHANGED winner

\* The fixed name belongs to a device outside the plan.
FixedReserved ==
  \E k \in KeysOf, d \in Devices :
    /\ AtGroup(k)
    /\ Fixed(k) = {d}
    /\ k \in reserved
    /\ Invalidate({d})
    /\ reserved' = reserved \cup KeysHeld({d})
    /\ UNCHANGED winner

\* A fixed name wins over any rule's.
FixedWins ==
  \E k \in KeysOf, d \in Devices :
    /\ AtGroup(k)
    /\ Fixed(k) = {d}
    /\ k \notin reserved
    /\ winner' = [winner EXCEPT ![k] = d]
    /\ UNCHANGED <<status, reserved>>

\* Fault: a reserved name is given away like any other.
RuleMayWinAlways(k) == Fixed(k) = {}

RuleMayWin(k) == Fixed(k) = {} /\ k \notin reserved

\* The first of the candidates wins the base name.
RuleWins ==
  \E k \in KeysOf, d \in Devices :
    /\ AtGroup(k)
    /\ RuleMayWin(k)
    /\ d \in Group(k)
    /\ \A e \in Group(k) \ {d} : Before(d, e)
    /\ winner' = [winner EXCEPT ![k] = d]
    /\ UNCHANGED <<status, reserved>>

\* No group of this key, or its base name is reserved.
NoWinner ==
  \E k \in KeysOf :
    /\ AtGroup(k)
    /\ Fixed(k) = {}
    /\ Group(k) = {} \/ k \in reserved
    /\ UNCHANGED <<status, reserved, winner>>

-----------------------------------------------------------------------------
Finished(d, n) == IF current[d] = n THEN "unchanged" ELSE "rename"

Winners == {d \in Devices : status[d] = "candidate" /\ winner[Fold[want[d]]] = d}

\* Every group has been seen: the winners keep their base names.
Occupy ==
  /\ phase = "groups"
  /\ cursor = K + 1
  /\ phase' = "suffixes"
  /\ occupied' = reserved \cup {Fold[want[d]] : d \in Winners}
  /\ status' = [d \in Devices |->
       IF d \in Winners THEN Finished(d, want[d]) ELSE status[d]]
  /\ UNCHANGED <<inputs, name, reserved, winner, cursor, round>>

Losers == {d \in Devices : status[d] = "candidate"}

\* The second pass takes the groups in key order and each in its own order.
NextLoser(d) ==
  /\ phase = "suffixes"
  /\ d \in Losers
  /\ \A e \in Losers \ {d} :
       \/ Fold[want[d]] < Fold[want[e]]
       \/ Fold[want[d]] = Fold[want[e]] /\ Before(d, e)

Free(d) ==
  {i \in 1 .. Len(Suffixes[d][want[d]]) : Fold[Suffixes[d][want[d]][i]] \notin occupied}

\* Fault: the name given is not marked occupied.
OccupiedUnmarked(n) == occupied

OccupiedBy(n) == occupied \cup {Fold[n]}

\* A loser takes the first free sequence name.
Suffix ==
  \E d \in Devices : \E i \in Free(d) :
    LET n == Suffixes[d][want[d]][i] IN
    /\ NextLoser(d)
    /\ \A j \in Free(d) : i <= j
    /\ name' = [name EXCEPT ![d] = n]
    /\ occupied' = OccupiedBy(n)
    /\ status' = [status EXCEPT ![d] = Finished(d, n)]
    /\ UNCHANGED <<inputs, reserved, winner, phase, cursor, round>>

\* Every sequence name is taken or too long: the device keeps its name.
SuffixExhausted ==
  \E d \in Devices :
    /\ NextLoser(d)
    /\ Free(d) = {}
    /\ Invalidate({d})
    /\ occupied' = occupied \cup KeysHeld({d})
    /\ UNCHANGED <<inputs, name, reserved, winner, phase, cursor, round>>

Planned ==
  /\ phase = "suffixes"
  /\ Losers = {}
  /\ phase' = "done"
  /\ UNCHANGED <<inputs, status, name, reserved, winner, occupied,
                 cursor, round>>

\* Every rename of the plan was carried out, and policy wants the same again.
Replan ==
  /\ phase = "done"
  /\ round < Rounds
  /\ round' = round + 1
  /\ current' = [d \in Devices |-> IF status[d] = "rename" THEN name[d] ELSE current[d]]
  /\ status' = StartStatus
  /\ name' = want
  /\ reserved' = KeysHeld(ReservedAtStart)
  /\ winner' = NoWinners
  /\ occupied' = {}
  /\ phase' = "groups"
  /\ cursor' = 1
  /\ UNCHANGED <<want, kind, preserve>>

Next ==
  \/ FixedConflict \/ FixedReserved \/ FixedWins \/ RuleWins \/ NoWinner
  \/ Occupy
  \/ Suffix \/ SuffixExhausted \/ Planned
  \/ Replan

Spec == Init /\ [][Next]_vars

-----------------------------------------------------------------------------
(* Properties.                                                             *)

(* No two devices of a plan are given names that are equal up to case,     *)
(* whether kept, won or made up from a sequence.                           *)
UniqueNames ==
  \A d, e \in Devices :
    Managed(d) /\ Managed(e) /\ Fold[name[d]] = Fold[name[e]] => d = e

(* No device is given the name of a device the plan leaves alone           *)
(* (excluded, unmanaged, unresolved, or invalid on its own account).       *)
UnmanagedRespected ==
  \A d \in Devices : Managed(d) =>
    Fold[name[d]] \notin KeysHeld({e \in Devices : status[e] = "out"})

(* A fixed name is given exactly or not at all, and whoever it belongs to  *)
(* gets it over every rule's candidate unless another override fixes it or *)
(* a device outside the plan has it.  In particular no fixed name reaches  *)
(* the second pass, whose check for it is never needed (planner.go:290).   *)
FixedNamesExact ==
  /\ \A d \in Devices : kind[d] = "fixed" =>
       /\ Managed(d) => name[d] = want[d]
       /\ phase = "suffixes" => d \notin Losers
  /\ phase = "done" => \A d \in Devices :
       kind[d] = "fixed" /\ Fixed(Fold[want[d]]) = {d} /\ status[d] = "invalid"
         => \E e \in Devices \ {d} :
              /\ status[e] \in {"out", "invalid"}
              /\ current[e] # NoName
              /\ Fold[current[e]] = Fold[want[d]]

(* Planning settles: once a plan was carried out, planning again renames   *)
(* nothing.  With preserve_existing it may take more plans, but never more *)
(* than there are devices: a device that held the base name of its group   *)
(* and did not win it stands first among the losers; given a sequence name *)
(* it is ranked like any other the next time, and so is, a plan later, one *)
(* that the first had left without a sequence name short enough.           *)
Converges ==
  phase = "done" /\ round > (IF preserve THEN N ELSE 1)
    => \A d \in Devices : status[d] # "rename"

(* planner.go:254,258,294,300: the current name of a device the plan finds *)
(* invalid is reserved like an unmanaged device's (planner_test.go:127),   *)
(* so no other device is renamed to it.                                    *)
KeptNamesRespected ==
  phase = "done" => \A d, e \in Devices :
    status[d] = "rename" /\ ~Managed(e) /\ current[e] # NoName
      => Fold[name[d]] # Fold[current[e]]

=============================================================================
