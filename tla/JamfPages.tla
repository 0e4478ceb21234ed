------------------------------- MODULE JamfPages ----------------------------
(***************************************************************************)
(* Listing a Jamf inventory page by page (internal/provider/jamf/          *)
(* inventory.go: ListComputers, ListMobileDevices, validatePage) while     *)
(* devices are added to it and deleted from it between the pages.          *)
(*                                                                         *)
(* The server sorts by id and cuts page p out of what it has at the time.  *)
(* Both listings are the same but for what they return: of the records     *)
(* seen, those of the kind in Wanted (all computers; iOS devices only).    *)
(***************************************************************************)
EXTENDS Integers, FiniteSets

CONSTANTS
  Ids,         \* device ids, numbers as the server sorts them
  Wanted,      \* ids of the devices that are returned
  PageSize,    \* jamfPageSize
  MaxChanges   \* bound on the devices added and deleted during a listing

ASSUME PagesAssumption ==
  /\ Ids \subseteq Nat /\ IsFiniteSet(Ids)
  /\ Wanted \subseteq Ids
  /\ PageSize \in Nat \ {0}
  /\ MaxChanges \in Nat

VARIABLES
  server,    \* ids of the inventory now
  listing,   \* "open", "done" or "error"
  page,      \* the next page to ask for
  total,     \* totalCount of the first page, or Unknown
  ids,       \* ids seen so far
  seen,      \* number of records seen so far
  kept,      \* history: ids there ever since the listing began
  deletions, \* history: devices deleted since then
  changes    \* history: changes made since then

walked == <<listing, page, total, ids, seen>>
pagesVars == <<server, walked, kept, deletions, changes>>

Unknown == -1

PagesInit ==
  /\ server \in SUBSET Ids
  /\ listing = "open"
  /\ page = 0
  /\ total = Unknown
  /\ ids = {}
  /\ seen = 0
  /\ kept = server
  /\ deletions = 0
  /\ changes = 0

-----------------------------------------------------------------------------
(* Somebody enrols or removes a device.                                    *)
Add(i) ==
  /\ changes < MaxChanges
  /\ i \in Ids \ server
  /\ server' = server \cup {i}
  /\ changes' = changes + 1
  /\ UNCHANGED <<walked, kept, deletions>>

Delete(i) ==
  /\ changes < MaxChanges
  /\ i \in server
  /\ server' = server \ {i}
  /\ kept' = kept \ {i}
  /\ deletions' = deletions + 1
  /\ changes' = changes + 1
  /\ UNCHANGED walked

\* The server's answer to page p of its present inventory.
Rank(i) == Cardinality({j \in server : j < i})

Rows(p) == {i \in server : Rank(i) \div PageSize = p}

-----------------------------------------------------------------------------
\* Fault: a total that changed since the first page is accepted.
TotalUnchecked(t) == TRUE

TotalStands(t) == total = Unknown \/ t = total

\* validatePage: the total makes sense, stands, and is reached before the pages end.
ValidPage(t, rows) ==
  /\ t >= seen + rows
  /\ TotalStands(t)
  /\ rows = 0 => seen = t

First(t) == IF total = Unknown THEN t ELSE total

\* Fault: ids that were seen before are accepted.
NewIdsUnchecked(rows) == TRUE

NewIds(rows) == rows \cap ids = {}

Complete(n, t) == n = t

\* A page is asked for, checked and added, and the loop ends or goes on.
NextPage ==
  LET rows == Rows(page)
      t == Cardinality(server)
      n == seen + Cardinality(rows) IN
  /\ listing = "open"
  /\ ValidPage(t, Cardinality(rows))
  /\ NewIds(rows)
  /\ total' = First(t)
  /\ seen' = n
  /\ ids' = ids \cup rows
  /\ listing' = IF Complete(n, First(t)) THEN "done" ELSE "open"
  /\ page' = page + 1
  /\ UNCHANGED <<server, kept, deletions, changes>>

\* A page that cannot be right ends the listing with an error.
BadPage ==
  /\ listing = "open"
  /\ ~(ValidPage(Cardinality(server), Cardinality(Rows(page))) /\ NewIds(Rows(page)))
  /\ listing' = "error"
  /\ UNCHANGED <<server, page, total, ids, seen, kept, deletions, changes>>

\* The request for a page fails, or its body cannot be decoded.
PageFails ==
  /\ listing = "open"
  /\ listing' = "error"
  /\ UNCHANGED <<server, page, total, ids, seen, kept, deletions, changes>>

PagesNext ==
  \/ NextPage \/ BadPage \/ PageFails
  \/ \E i \in Ids : Add(i) \/ Delete(i)

PagesSpec == PagesInit /\ [][PagesNext]_pagesVars

Returned == ids \cap Wanted

-----------------------------------------------------------------------------
(* Properties.                                                             *)

(* The records counted are different devices: two pages that overlap       *)
(* because the inventory moved under them are never taken for complete.    *)
CountedOnce == listing # "error" => Cardinality(ids) = seen

(* A device that was there all along is missed only if another one was     *)
(* deleted in front of it: at most one is missed for each deletion.        *)
MissesPaidFor ==
  listing = "done" => Cardinality((kept \cap Wanted) \ Returned) <= deletions

=============================================================================
