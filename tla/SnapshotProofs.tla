---------------------------- MODULE SnapshotProofs --------------------------
(***************************************************************************)
(* Theorems about Snapshot, for any devices, sources and records and any   *)
(* ages: a plan is about what was listed for this cycle, and what it takes *)
(* from the caches was said of the same device, or user, recently enough,  *)
(* whatever failed before.                                                 *)
(***************************************************************************)
EXTENDS Snapshot, TLAPS

Shown(d, r, t) == [device |-> d, record |-> r, at |-> t] \in shown

Told(u, a, t) == [user |-> u, data |-> a, at |-> t] \in told

\* s is r up to the name, which every listing brings up to date.
SameDetails(r, s) == /\ r.serial = s.serial
                     /\ r.user = s.user
                     /\ r.detail = s.detail

Record == [serial : {r.serial : r \in Records}, user : {r.user : r \in Records},
           name : {r.name : r \in Records}, detail : {r.detail : r \in Records}]

Shape ==
  /\ now \in Nat
  /\ pc \in {"idle", "list", "resolve", "planned"}
  /\ devices \in [Devices -> [record : Record, at : Nat] \cup {None}]
  /\ DOMAIN users = Users

\* Cached details were listed for the device in the cycle they are dated to.
DetailsKnown ==
  \A d \in Devices : devices[d] # None =>
    /\ devices[d].record.user \in Users \cup {NoUser}
    /\ devices[d].at + DetailsTTL > now =>
         \E r \in RecordsOf[d] :
           SameDetails(r, devices[d].record) /\ Shown(d, r, devices[d].at)

\* Cached users were answered for in the cycle they are dated to.
UsersKnown ==
  \A u \in Users : users[u] # None =>
    /\ users[u].at \in Nat
    /\ users[u].at + IdentityTTL > now => Told(u, users[u].data, users[u].at)

\* What the sources returned so far was said in this cycle.
ListedNow ==
  pc \in {"list", "resolve", "planned"} =>
    \A s \in DOMAIN listed : \A d \in Devices :
      SourceOf[d] = s /\ listed[s][d] # Absent =>
        listed[s][d] \in RecordsOf[d] /\ Shown(d, listed[s][d], now)

\* The device cache is what was listed, with details of limited age.
CacheIsCurrent ==
  pc \in {"resolve", "planned"} => \A d \in Devices :
    /\ devices[d] = None <=> Listed(d) = Absent
    /\ devices[d] # None =>
         /\ devices[d].record.name = Listed(d).name
         /\ devices[d].record.user = Listed(d).user
         /\ devices[d].record.serial = Listed(d).serial
         /\ devices[d].at + DetailsTTL > now

\* Every stale user of the plan is asked for, and answers are of this cycle.
Asked ==
  pc = "resolve" =>
    /\ DOMAIN answers \subseteq Users
    /\ \A u \in Active(devices) : u \in DOMAIN answers \/ ~StaleUser(u)
    /\ \A u \in DOMAIN answers : answers[u] \notin {Unknown, Failed} => Told(u, answers[u], now)

PlanMade ==
  pc = "planned" =>
    /\ DOMAIN plan = {d \in Devices : devices[d] # None}
    /\ \A d \in DOMAIN plan :
         /\ plan[d].device = devices[d].record
         /\ plan[d].device.user # NoUser =>
              LET u == plan[d].device.user IN
              \E t \in Nat : t + IdentityTTL > now /\ Told(u, plan[d].user, t)

IInv == Shape /\ DetailsKnown /\ UsersKnown /\ ListedNow /\ CacheIsCurrent /\ Asked /\ PlanMade

-----------------------------------------------------------------------------
LEMMA RecordsAreRecords ==
  ASSUME NEW d \in Devices, NEW r \in RecordsOf[d]
  PROVE  r \in Record /\ r.user \in Users \cup {NoUser} /\ r # Absent
<1>1. r \in Records
  BY DEF Records
<1>2. r = [serial |-> r.serial, user |-> r.user, name |-> r.name, detail |-> r.detail]
  BY SnapshotAssumption
<1>3. r \in Record
  BY <1>1, <1>2 DEF Record
<1>4. r.user \in Users \cup {NoUser}
  BY <1>1 DEF Users
<1>5. "serial" \in DOMAIN r /\ "serial" \notin DOMAIN Absent
  BY <1>2 DEF Absent
<1>6. QED
  BY <1>3, <1>4, <1>5

LEMMA NoneIsNoRecord == None \notin [record : Record, at : Nat]
<1>1. "record" \notin DOMAIN None
  BY DEF None
<1>2. QED
  BY <1>1

LEMMA InitHolds == Init => IInv
BY DEF Init, IInv, Shape, DetailsKnown, UsersKnown, ListedNow, CacheIsCurrent, Asked, PlanMade

\* A new cycle keeps what is recent in the histories.
LEMMA BeginHolds ==
  ASSUME IInv, Begin PROVE IInv'
<1> USE DEF IInv
<1>1. /\ pc' = "list" /\ now' > now /\ now' \in Nat /\ now \in Nat
      /\ listed' = <<>> /\ UNCHANGED <<devices, users>>
  <2>1. now \in Nat /\ MaxTime \in Nat
    BY SnapshotAssumption DEF Shape
  <2>2. QED
    BY <2>1 DEF Begin
<1>2. \A d, r, t : Shown(d, r, t) /\ t + DetailsTTL > now'
                    => [device |-> d, record |-> r, at |-> t] \in shown'
  BY DEF Begin, Shown
<1>3. \A u, a, t : Told(u, a, t) /\ t + IdentityTTL > now'
                    => [user |-> u, data |-> a, at |-> t] \in told'
  BY DEF Begin, Told
<1>4. Shape'
  BY <1>1 DEF Shape
<1>5. DetailsKnown'
  <2> SUFFICES ASSUME NEW d \in Devices, devices[d] # None
               PROVE  /\ devices[d].record.user \in Users \cup {NoUser}
                      /\ devices[d].at + DetailsTTL > now' =>
                           \E r \in RecordsOf[d] :
                             SameDetails(r, devices[d].record) /\ Shown(d, r, devices[d].at)'
    BY <1>1 DEF DetailsKnown, Shown
  <2>1. devices[d].at \in Nat
    BY DEF Shape
  <2>2. devices[d].at + DetailsTTL > now' => devices[d].at + DetailsTTL > now
    BY <1>1, <2>1, SnapshotAssumption
  <2>3. devices[d].record.user \in Users \cup {NoUser}
    BY DEF DetailsKnown
  <2>4. ASSUME devices[d].at + DetailsTTL > now'
        PROVE  \E r \in RecordsOf[d] : /\ SameDetails(r, devices[d].record)
                                       /\ [device |-> d, record |-> r, at |-> devices[d].at] \in shown'
    <3>1. PICK r \in RecordsOf[d] : SameDetails(r, devices[d].record) /\ Shown(d, r, devices[d].at)
      BY <2>2, <2>4 DEF DetailsKnown
    <3>2. QED
      BY <1>2, <2>4, <3>1
  <2>5. QED
    BY <1>1, <2>3, <2>4 DEF Shown
<1>6. UsersKnown'
  <2> SUFFICES ASSUME NEW u \in Users, users[u] # None
               PROVE  /\ users[u].at \in Nat
                      /\ users[u].at + IdentityTTL > now' => Told(u, users[u].data, users[u].at)'
    BY <1>1 DEF UsersKnown
  <2>1. users[u].at \in Nat
    BY DEF UsersKnown
  <2>2. users[u].at + IdentityTTL > now' => users[u].at + IdentityTTL > now
    BY <1>1, <2>1, SnapshotAssumption
  <2>3. ASSUME users[u].at + IdentityTTL > now'
        PROVE  [user |-> u, data |-> users[u].data, at |-> users[u].at] \in told'
    <3>1. Told(u, users[u].data, users[u].at)
      BY <2>2, <2>3 DEF UsersKnown
    <3>2. QED
      BY <1>3, <2>3, <3>1
  <2>4. QED
    BY <1>1, <2>1, <2>3 DEF Told
<1>7. ListedNow' /\ CacheIsCurrent' /\ Asked' /\ PlanMade'
  BY <1>1 DEF ListedNow, CacheIsCurrent, Asked, PlanMade
<1>8. QED
  BY <1>4, <1>5, <1>6, <1>7

\* More was said: the caches are as well known as before.
LEMMA StillKnown ==
  ASSUME DetailsKnown, UsersKnown, shown \subseteq shown', told \subseteq told',
         UNCHANGED <<now, devices, users>>
  PROVE  DetailsKnown' /\ UsersKnown'
BY DEF DetailsKnown, UsersKnown, Shown, Told

LEMMA ListHolds ==
  ASSUME IInv, NEW s \in Sources, ListSource(s) PROVE IInv'
<1> USE DEF IInv
<1>1. /\ pc = "list" /\ s \notin DOMAIN listed
      /\ shown \subseteq shown' /\ UNCHANGED <<now, pc, devices, users, told>>
  BY DEF ListSource
<1>2. PICK answer :
        /\ \A d \in Devices : SourceOf[d] = s => answer[d] \in RecordsOf[d] \cup {Absent}
        /\ listed' = [t \in DOMAIN listed \cup {s} |-> IF t = s THEN answer ELSE listed[t]]
        /\ \A d \in Devices : SourceOf[d] = s /\ answer[d] # Absent
             => [device |-> d, record |-> answer[d], at |-> now] \in shown'
  BY Zenon DEF ListSource
<1>3. ListedNow'
  <2> SUFFICES ASSUME NEW t \in DOMAIN listed', NEW d \in Devices,
                      SourceOf[d] = t, listed'[t][d] # Absent
               PROVE  /\ listed'[t][d] \in RecordsOf[d]
                      /\ [device |-> d, record |-> listed'[t][d], at |-> now'] \in shown'
    BY DEF ListedNow, Shown
  <2>1. CASE t = s
    BY <1>1, <1>2, <2>1
  <2>2. CASE t # s
    BY <1>1, <1>2, <2>2 DEF ListedNow, Shown
  <2>3. QED
    BY <2>1, <2>2
<1>4. QED
  BY <1>1, <1>3, StillKnown DEF Shape, CacheIsCurrent, Asked, PlanMade

\* A cycle that fails leaves the caches as they are.
LEMMA FailHolds ==
  ASSUME IInv, ListFails \/ ResolveFails \/ UNCHANGED vars PROVE IInv'
<1> USE DEF IInv
<1>1. CASE ListFails \/ ResolveFails
  <2>1. pc' = "idle" /\ UNCHANGED <<now, devices, users, shown, told>>
    BY <1>1 DEF ListFails, ResolveFails
  <2>2. QED
    BY <2>1, StillKnown DEF Shape, ListedNow, CacheIsCurrent, Asked, PlanMade
<1>2. CASE UNCHANGED vars
  <2>1. Shape' /\ DetailsKnown' /\ UsersKnown'
    BY <1>2, StillKnown DEF vars, Shape
  <2>2. ListedNow' /\ CacheIsCurrent'
    BY <1>2 DEF vars, ListedNow, CacheIsCurrent, Shown, Listed
  <2>3. Asked'
    BY <1>2 DEF vars, Asked, Told, Active, StaleUser
  <2>4. PlanMade'
    BY <1>2 DEF vars, PlanMade, Told
  <2>5. QED
    BY <2>1, <2>2, <2>3, <2>4
<1>3. QED
  BY <1>1, <1>2

\* What refreshDevices leaves for one device.
LEMMA AfterRefresh ==
  ASSUME IInv, Refresh, NEW d \in Devices
  PROVE  /\ devices'[d] = None <=> Listed(d) = Absent
         /\ devices'[d] # None =>
              /\ devices'[d] \in [record : Record, at : Nat]
              /\ devices'[d].record.name = Listed(d).name
              /\ devices'[d].record.user = Listed(d).user
              /\ devices'[d].record.user \in Users \cup {NoUser}
              /\ devices'[d].record.serial = Listed(d).serial
              /\ devices'[d].at + DetailsTTL > now
              /\ \E r \in RecordsOf[d] :
                   SameDetails(r, devices'[d].record) /\ Shown(d, r, devices'[d].at)
<1> USE DEF IInv
<1>1. devices'[d] = DeviceAfter(d) /\ pc = "list" /\ SourceOf[d] \in DOMAIN listed /\ now \in Nat
  BY SnapshotAssumption DEF Refresh, Shape
<1>2. Listed(d) # Absent => Listed(d) \in RecordsOf[d] /\ Shown(d, Listed(d), now)
  BY <1>1 DEF ListedNow, Listed
<1>3. Listed(d) # Absent => Listed(d) \in Record /\ Listed(d).user \in Users \cup {NoUser}
  BY <1>2, RecordsAreRecords
<1>4. CASE Listed(d) = Absent
  BY <1>1, <1>4 DEF DeviceAfter
<1>5. CASE Listed(d) # Absent /\ (devices[d] = None \/ IdentityChanged(d) \/ Expired(d))
  <2>1. devices'[d] = [record |-> Listed(d), at |-> now]
    BY <1>1, <1>5 DEF DeviceAfter
  <2>2. devices'[d] \in [record : Record, at : Nat] /\ devices'[d] # None
    BY <1>1, <1>3, <1>5, <2>1, NoneIsNoRecord
  <2>3. now + DetailsTTL > now
    BY <1>1, SnapshotAssumption
  <2>4. SameDetails(Listed(d), devices'[d].record)
    BY <2>1 DEF SameDetails
  <2>5. QED
    BY <1>2, <1>3, <1>5, <2>1, <2>2, <2>3, <2>4
<1>6. CASE Listed(d) # Absent /\ ~(devices[d] = None \/ IdentityChanged(d) \/ Expired(d))
  <2>1. PICK c \in [record : Record, at : Nat] : c = devices[d]
    BY <1>6 DEF Shape
  <2>2. PICK n \in {r.name : r \in Records} : n = Listed(d).name
    BY <1>3, <1>6 DEF Record
  <2>3. PICK r \in Record : r = [c.record EXCEPT !.name = n]
    BY <2>1 DEF Record
  <2>4. r.name = n /\ SameDetails(c.record, r)
    BY <2>1, <2>3 DEF Record, SameDetails
  <2>5. devices'[d] = [record |-> r, at |-> c.at]
    BY <1>1, <1>6, <2>1, <2>2, <2>3 DEF DeviceAfter
  <2>6. devices'[d] \in [record : Record, at : Nat] /\ devices'[d] # None
    BY <2>1, <2>5, NoneIsNoRecord
  <2>7. c.record.serial = Listed(d).serial /\ c.record.user = Listed(d).user
    BY <1>6, <2>1 DEF IdentityChanged
  <2>8. c.at + DetailsTTL > now
    BY <1>1, <1>6, <2>1, SnapshotAssumption DEF Expired
  <2>9. PICK q \in RecordsOf[d] : SameDetails(q, c.record) /\ Shown(d, q, c.at)
    BY <1>6, <2>1, <2>8 DEF DetailsKnown
  <2>10. SameDetails(q, r)
    BY <2>4, <2>9 DEF SameDetails
  <2>11. QED
    BY <1>3, <1>6, <2>2, <2>4, <2>5, <2>6, <2>7, <2>8, <2>9, <2>10 DEF SameDetails
<1>7. QED
  BY <1>4, <1>5, <1>6

LEMMA RefreshHolds ==
  ASSUME IInv, Refresh PROVE IInv'
<1> USE DEF IInv
<1>1. /\ pc = "list" /\ pc' = "resolve"
      /\ devices' = [d \in Devices |-> DeviceAfter(d)]
      /\ answers' = [u \in {v \in Active(devices') : StaleUser(v)} |-> Unknown]
      /\ UNCHANGED <<now, listed, users, plan, shown, told>>
  BY DEF Refresh
<1>2. Shape'
  BY <1>1, AfterRefresh DEF Shape
<1>3. DetailsKnown'
  BY <1>1, AfterRefresh DEF DetailsKnown, Shown
<1>4. UsersKnown'
  BY <1>1 DEF UsersKnown, Told
<1>5. ListedNow'
  BY <1>1 DEF ListedNow, Shown
<1>6. CacheIsCurrent'
  BY <1>1, AfterRefresh DEF CacheIsCurrent, Listed
<1>7. Asked'
  <2>1. Active(devices') \subseteq Users
    BY AfterRefresh DEF Active
  <2>2. \A u : StaleUser(u)' <=> StaleUser(u)
    BY <1>1 DEF StaleUser
  <2>3. QED
    BY <1>1, <2>1, <2>2 DEF Asked
<1>8. QED
  BY <1>1, <1>2, <1>3, <1>4, <1>5, <1>6, <1>7 DEF PlanMade

LEMMA AnswerHolds ==
  ASSUME IInv, NEW u \in Users, Answer(u) PROVE IInv'
<1> USE DEF IInv
<1>1. PICK a \in Data \cup {Failed} :
        /\ pc = "resolve" /\ u \in DOMAIN answers
        /\ answers' = [answers EXCEPT ![u] = a]
        /\ told' = told \cup IF a = Failed THEN {} ELSE {[user |-> u, data |-> a, at |-> now]}
        /\ UNCHANGED <<now, pc, listed, devices, users, plan, shown>>
  BY DEF Answer
<1>2. told \subseteq told' /\ (a # Failed => [user |-> u, data |-> a, at |-> now] \in told')
  BY <1>1
<1>3. DetailsKnown' /\ UsersKnown'
  BY <1>1, <1>2, StillKnown
<1>4. Asked'
  <2>1. DOMAIN answers' = DOMAIN answers
    BY <1>1
  <2>2. \A v \in DOMAIN answers : answers'[v] = IF v = u THEN a ELSE answers[v]
    BY <1>1
  <2>3. \A v : (v \in Active(devices))' <=> v \in Active(devices)
    BY <1>1 DEF Active
  <2>4. \A v : StaleUser(v)' <=> StaleUser(v)
    BY <1>1 DEF StaleUser
  <2>5. QED
    BY <1>1, <1>2, <2>1, <2>2, <2>3, <2>4 DEF Asked, Told
<1>5. Shape' /\ ListedNow' /\ CacheIsCurrent' /\ PlanMade'
  BY <1>1 DEF Shape, ListedNow, CacheIsCurrent, PlanMade, Shown, Listed
<1>6. QED
  BY <1>3, <1>4, <1>5

\* Who is known after the stale users were answered for.
LEMMA AfterResolve ==
  ASSUME IInv, Resolved, NEW u \in Users
  PROVE  /\ users'[u] # None =>
              /\ users'[u].at \in Nat
              /\ users'[u].at + IdentityTTL > now => Told(u, users'[u].data, users'[u].at)
         /\ u \in Active(devices) =>
              \E t \in Nat : t + IdentityTTL > now /\ Told(u, users'[u].data, t)
<1> USE DEF IInv
<1>1. /\ pc = "resolve" /\ now \in Nat
      /\ users'[u] = IF u \notin Active(devices) THEN None
                     ELSE IF u \in DOMAIN answers THEN [data |-> answers[u], at |-> now]
                     ELSE users[u]
  BY DEF Resolved, Shape
<1>2. CASE u \notin Active(devices)
  BY <1>1, <1>2
<1>3. CASE u \in Active(devices) /\ u \in DOMAIN answers
  <2>1. Told(u, answers[u], now)
    BY <1>1, <1>3 DEF Resolved, AllAnswered, Answered, Asked
  <2>2. users'[u].data = answers[u] /\ users'[u].at = now
    BY <1>1, <1>3
  <2>3. now + IdentityTTL > now
    BY <1>1, SnapshotAssumption
  <2>4. QED
    BY <1>1, <2>1, <2>2, <2>3
<1>4. CASE u \in Active(devices) /\ u \notin DOMAIN answers
  <2>1. users'[u] = users[u] /\ ~StaleUser(u)
    BY <1>1, <1>4 DEF Asked
  <2>2. users[u] # None /\ users[u].at \in Nat
    BY <2>1 DEF StaleUser, UsersKnown
  <2>3. users[u].at + IdentityTTL > now
    BY <1>1, <2>1, <2>2, SnapshotAssumption DEF StaleUser
  <2>4. Told(u, users[u].data, users[u].at)
    BY <2>2, <2>3 DEF UsersKnown
  <2>5. QED
    BY <2>1, <2>2, <2>3, <2>4
<1>5. QED
  BY <1>2, <1>3, <1>4

LEMMA ResolvedHolds ==
  ASSUME IInv, Resolved PROVE IInv'
<1> USE DEF IInv
<1>1. /\ pc = "resolve" /\ pc' = "planned" /\ DOMAIN users' = Users
      /\ plan' = [d \in {e \in Devices : devices[e] # None} |->
           [device |-> devices[d].record,
            user |-> IF devices[d].record.user = NoUser THEN NoUser
                     ELSE users'[devices[d].record.user].data]]
      /\ UNCHANGED <<now, listed, devices, shown, told>>
  BY DEF Resolved
<1>2. Shape'
  BY <1>1 DEF Shape
<1>3. DetailsKnown'
  BY <1>1 DEF DetailsKnown, Shown
<1>4. UsersKnown'
  BY <1>1, AfterResolve DEF UsersKnown, Told
<1>5. ListedNow' /\ CacheIsCurrent' /\ Asked'
  BY <1>1 DEF ListedNow, CacheIsCurrent, Asked, Shown, Listed
<1>6. PlanMade'
  <2> SUFFICES ASSUME NEW d \in Devices, devices[d] # None, devices[d].record.user # NoUser
               PROVE  \E t \in Nat : /\ t + IdentityTTL > now
                                     /\ Told(devices[d].record.user,
                                             users'[devices[d].record.user].data, t)
    BY <1>1 DEF PlanMade, Told
  <2>1. PICK u \in Users : u = devices[d].record.user
    BY DEF DetailsKnown
  <2>2. u \in Active(devices)
    BY <2>1 DEF Active
  <2>3. QED
    BY <2>1, <2>2, AfterResolve
<1>7. QED
  BY <1>2, <1>3, <1>4, <1>5, <1>6

LEMMA Inductive == Spec => []IInv
<1>1. IInv /\ [Next]_vars => IInv'
  BY BeginHolds, ListHolds, FailHolds, RefreshHolds, AnswerHolds, ResolvedHolds DEF Next
<1>2. QED
  BY <1>1, InitHolds, PTL DEF Spec

-----------------------------------------------------------------------------
(* The plan is about the devices listed in this cycle, under the names and *)
(* for the users they have now, whatever is cached.                        *)
THEOREM PlansAreCurrent == Spec => []PlanIsCurrent
<1>1. IInv => PlanIsCurrent
  BY DEF IInv, PlanMade, CacheIsCurrent, PlanIsCurrent
<1>2. QED
  BY <1>1, Inductive, PTL

(* Details were listed for that very device less than the TTL ago.         *)
THEOREM DetailsAreCoherent == Spec => []DetailsCoherent
<1>1. IInv => DetailsCoherent
  <2> SUFFICES ASSUME IInv, pc = "planned", NEW d \in DOMAIN plan
               PROVE  \E x \in shown :
                        /\ x.device = d
                        /\ x.record = [plan[d].device EXCEPT !.name = x.record.name]
                        /\ x.at + DetailsTTL > now
    BY DEF DetailsCoherent
  <2>1. d \in Devices /\ devices[d] # None /\ plan[d].device = devices[d].record
    BY DEF IInv, PlanMade
  <2>2. PICK c \in [record : Record, at : Nat] : c = devices[d]
    BY <2>1 DEF IInv, Shape
  <2>3. c.at + DetailsTTL > now
    BY <2>1, <2>2 DEF IInv, CacheIsCurrent
  <2>4. PICK r \in RecordsOf[d] : SameDetails(r, c.record) /\ Shown(d, r, c.at)
    BY <2>1, <2>2, <2>3 DEF IInv, DetailsKnown
  <2>5. r = [c.record EXCEPT !.name = r.name]
    <3>1. r \in Record /\ c.record \in Record
      BY <2>1, <2>2, <2>4, RecordsAreRecords
    <3>2. QED
      BY <2>4, <3>1 DEF SameDetails, Record
  <2> DEFINE x == [device |-> d, record |-> r, at |-> c.at]
  <2>6. x \in shown /\ x.device = d /\ x.record = r /\ x.at = c.at
    BY <2>4 DEF Shown
  <2> HIDE DEF x
  <2>7. QED
    BY <2>1, <2>2, <2>3, <2>5, <2>6
<1>2. QED
  BY <1>1, Inductive, PTL

(* A user is planned with what the directory said of that user less than   *)
(* the TTL ago, whatever failed in between.                                *)
THEOREM UsersAreCoherent == Spec => []UsersCoherent
<1>1. IInv => UsersCoherent
  <2> SUFFICES ASSUME IInv, pc = "planned", NEW d \in DOMAIN plan, plan[d].device.user # NoUser
               PROVE  \E x \in told : /\ x.user = plan[d].device.user
                                      /\ x.data = plan[d].user
                                      /\ x.at + IdentityTTL > now
    BY DEF UsersCoherent
  <2>1. PICK t \in Nat : t + IdentityTTL > now /\ Told(plan[d].device.user, plan[d].user, t)
    BY DEF IInv, PlanMade
  <2> DEFINE x == [user |-> plan[d].device.user, data |-> plan[d].user, at |-> t]
  <2>2. x \in told /\ x.user = plan[d].device.user /\ x.data = plan[d].user /\ x.at = t
    BY <2>1 DEF Told
  <2> HIDE DEF x
  <2>3. QED
    BY <2>1, <2>2
<1>2. QED
  BY <1>1, Inductive, PTL

=============================================================================
