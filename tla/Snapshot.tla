------------------------------- MODULE Snapshot -----------------------------
(***************************************************************************)
(* What a reconciliation cycle plans from (internal/app/service.go:        *)
(* listDevices, refreshDevices, resolveUsers, over microsoft/entra.go:     *)
(* ResolveUsers): the sources are listed concurrently, device details and  *)
(* users come from caches of limited age, and stale users are resolved     *)
(* concurrently.  Anything that fails ends the cycle without a plan, but   *)
(* leaves behind the caches as they are at that point.                     *)
(*                                                                         *)
(* Inventories and the directory answer anything at any time.              *)
(***************************************************************************)
EXTENDS Integers, FiniteSets

CONSTANTS
  Devices,      \* device keys
  Sources,      \* configured inventories
  SourceOf,     \* the source of a device
  RecordsOf,    \* what a source may say of a device: serial, user, name, detail
  NoUser,       \* the user of a device that has none
  Data,         \* what the directory may say of a user, an empty user included
  DetailsTTL, IdentityTTL,
  MaxTime       \* bound on the times at which cycles begin: 1 .. MaxTime

ASSUME SnapshotAssumption ==
  /\ SourceOf \in [Devices -> Sources]
  /\ \A d \in Devices : \A r \in RecordsOf[d] :
       r = [serial |-> r.serial, user |-> r.user, name |-> r.name, detail |-> r.detail]
  /\ DetailsTTL \in Nat \ {0} /\ IdentityTTL \in Nat \ {0}
  /\ MaxTime \in Nat

\* serial stands for the serial number and the platform, name for the current
\* name and the time it was last seen, detail for everything else.
Records == UNION {RecordsOf[d] : d \in Devices}
Users == {r.user : r \in Records} \ {NoUser}

VARIABLES
  now,      \* the cycle's time, captured when it begins
  pc,       \* where the cycle is
  listed,   \* what each source returned, once it did
  devices,  \* the service's device cache
  users,    \* the service's user cache
  answers,  \* the stale users and the directory's answers so far
  plan,     \* the records the planner is given
  shown,    \* history: records listed for a device, with the cycle's time
  told      \* history: answers given for a user, with the cycle's time

vars == <<now, pc, listed, devices, users, answers, plan, shown, told>>

Absent == [name |-> "absent"]
None == [at |-> -1]
Unknown == "unknown"
Failed == "failed"

Init ==
  /\ now = 0
  /\ pc = "idle"
  /\ listed = <<>>
  /\ devices = [d \in Devices |-> None]
  /\ users = [u \in Users |-> None]
  /\ answers = <<>>
  /\ plan = <<>>
  /\ shown = {}
  /\ told = {}

-----------------------------------------------------------------------------
Begin ==
  /\ pc \in {"idle", "planned"}
  /\ pc' = "list"
  /\ now' \in (now + 1) .. MaxTime
  /\ shown' = {x \in shown : x.at + DetailsTTL > now'}
  /\ told' = {x \in told : x.at + IdentityTTL > now'}
  /\ listed' = <<>>
  /\ answers' = <<>>
  /\ plan' = <<>>
  /\ UNCHANGED <<devices, users>>

\* One source returns its whole inventory.
ListSource(s) ==
  LET mine == {d \in Devices : SourceOf[d] = s} IN
  /\ pc = "list"
  /\ s \notin DOMAIN listed
  /\ \E answer \in [mine -> Records \cup {Absent}] :
       /\ \A d \in mine : answer[d] \in RecordsOf[d] \cup {Absent}
       /\ listed' = [t \in DOMAIN listed \cup {s} |-> IF t = s THEN answer ELSE listed[t]]
       /\ shown' = shown \cup
            {[device |-> d, record |-> answer[d], at |-> now] :
               d \in {e \in mine : answer[e] # Absent}}
  /\ UNCHANGED <<now, pc, devices, users, answers, plan, told>>

\* A source fails, or the context is cancelled.
ListFails ==
  /\ pc = "list"
  /\ pc' = "idle"
  /\ listed' = <<>>
  /\ UNCHANGED <<now, devices, users, answers, plan, shown, told>>

Listed(d) == listed[SourceOf[d]][d]

\* Fault: only the serial number tells whether cached details still apply.
IdentityChangedSerial(d) == devices[d].record.serial # Listed(d).serial

IdentityChanged(d) ==
  \/ devices[d].record.serial # Listed(d).serial
  \/ devices[d].record.user # Listed(d).user

\* Fault: details are never fetched again while the device stays.
ExpiredNever(d) == FALSE

Expired(d) == now >= devices[d].at + DetailsTTL

\* refreshDevices: what the cache says of a device after this listing.
DeviceAfter(d) ==
  IF Listed(d) = Absent THEN None
  ELSE IF devices[d] = None \/ IdentityChanged(d) \/ Expired(d)
       THEN [record |-> Listed(d), at |-> now]
       ELSE [record |-> [devices[d].record EXCEPT !.name = Listed(d).name],
             at |-> devices[d].at]

Active(cache) == {cache[d].record.user : d \in {e \in Devices : cache[e] # None}} \ {NoUser}

\* Fault: a user is resolved once and for all.
StaleUserNever(u) == users[u] = None

StaleUser(u) == users[u] = None \/ now >= users[u].at + IdentityTTL

\* Every source was listed: the device cache is brought up to date, and the
\* users that are stale are asked for.
Refresh ==
  LET cache == [d \in Devices |-> DeviceAfter(d)] IN
  /\ pc = "list"
  /\ DOMAIN listed = Sources
  /\ devices' = cache
  /\ answers' = [u \in {v \in Active(cache) : StaleUser(v)} |-> Unknown]
  /\ pc' = "resolve"
  /\ UNCHANGED <<now, listed, users, plan, shown, told>>

\* The directory answers for one of them: data, nobody of that name (an empty
\* user), or an error.
Answer(u) ==
  /\ pc = "resolve"
  /\ u \in DOMAIN answers /\ answers[u] = Unknown
  /\ \E a \in Data \cup {Failed} :
       /\ answers' = [answers EXCEPT ![u] = a]
       /\ told' = told \cup
                  IF a = Failed THEN {} ELSE {[user |-> u, data |-> a, at |-> now]}
  /\ UNCHANGED <<now, pc, listed, devices, users, plan, shown>>

Answered == \A u \in DOMAIN answers : answers[u] # Unknown

\* A user could not be resolved: nothing that was resolved is kept.
ResolveFails ==
  /\ pc = "resolve"
  /\ Answered
  /\ \E u \in DOMAIN answers : answers[u] = Failed
  /\ pc' = "idle"
  /\ listed' = <<>>
  /\ answers' = <<>>
  /\ UNCHANGED <<now, devices, users, plan, shown, told>>

AllAnswered == Answered /\ \A u \in DOMAIN answers : answers[u] # Failed

\* Every user is known: the user cache is brought up to date, and each device
\* is planned with its user.
Resolved ==
  LET active == Active(devices)
      cache == [u \in Users |->
        IF u \notin active THEN None
        ELSE IF u \in DOMAIN answers THEN [data |-> answers[u], at |-> now]
        ELSE users[u]] IN
  /\ pc = "resolve"
  /\ AllAnswered
  /\ users' = cache
  /\ plan' = [d \in {e \in Devices : devices[e] # None} |->
       [device |-> devices[d].record,
        user |-> IF devices[d].record.user = NoUser THEN NoUser
                 ELSE cache[devices[d].record.user].data]]
  /\ pc' = "planned"
  /\ UNCHANGED <<now, listed, devices, answers, shown, told>>

Next ==
  \/ Begin \/ ListFails \/ Refresh \/ ResolveFails \/ Resolved
  \/ \E s \in Sources : ListSource(s)
  \/ \E u \in Users : Answer(u)

Spec == Init /\ [][Next]_vars

-----------------------------------------------------------------------------
(* Properties.                                                             *)

(* The plan is about exactly the devices the sources listed in this cycle, *)
(* under the names and for the users they have now, whatever is cached.    *)
PlanIsCurrent ==
  pc = "planned" =>
    /\ DOMAIN plan = {d \in Devices : Listed(d) # Absent}
    /\ \A d \in DOMAIN plan :
         /\ plan[d].device.name = Listed(d).name
         /\ plan[d].device.user = Listed(d).user
         /\ plan[d].device.serial = Listed(d).serial

(* The details a device is planned with were listed for that device, with  *)
(* the same serial number and the same user, by a cycle that began less    *)
(* than the TTL ago: never those of its predecessor under the same id.     *)
DetailsCoherent ==
  pc = "planned" => \A d \in DOMAIN plan : \E x \in shown :
    /\ x.device = d
    /\ x.record = [plan[d].device EXCEPT !.name = x.record.name]
    /\ x.at + DetailsTTL > now

(* A user is planned with what the directory said of that very user in a   *)
(* cycle that began less than the TTL ago, failed cycles in between or not.*)
UsersCoherent ==
  pc = "planned" => \A d \in DOMAIN plan :
    plan[d].device.user # NoUser =>
      \E x \in told :
        /\ x.user = plan[d].device.user
        /\ x.data = plan[d].user
        /\ x.at + IdentityTTL > now

=============================================================================
