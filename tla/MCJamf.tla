------------------------------- MODULE MCJamf -------------------------------
(* JamfClient and JamfPages instantiated for TLC.  A listing asks for its  *)
(* pages one at a time, each by one request, and neither module reads the  *)
(* other's state: a behaviour is about concurrent requests or about the    *)
(* pages of one listing, with the other part at rest.                      *)
EXTENDS JamfClient, JamfPages

VARIABLE scope

MCInit ==
  /\ Init /\ PagesInit
  /\ \/ scope = "requests" /\ server = {}
     \/ scope = "listing"

\* A listing that ended, after the last change to the inventory, is no deadlock.
ListingOver == listing # "open" /\ UNCHANGED pagesVars

MCNext ==
  /\ UNCHANGED scope
  /\ \/ scope = "requests" /\ Next /\ UNCHANGED pagesVars
     \/ scope = "listing" /\ (PagesNext \/ ListingOver) /\ UNCHANGED vars

MCSpec ==
  /\ MCInit
  /\ [][MCNext]_<<vars, pagesVars, scope>>
  /\ \A c \in Callers : SF_vars(Proceed(c))

=============================================================================
