----------------------------- MODULE AtomicStore ----------------------------
(***************************************************************************)
(* What the ledger relies on in its store: a document that is replaced as  *)
(* a whole.  A save that returns without error survives even a power loss; *)
(* one that returns an error, or is cut short, leaves the old document or  *)
(* the new one, and nothing else is ever read.                             *)
(***************************************************************************)
CONSTANTS Docs, Empty

VARIABLES
  stored,   \* the document Load returns now
  durable,  \* the documents a power loss could leave
  saving,   \* the document being saved, or NoDoc
  reply     \* how the latest save ended

vars == <<stored, durable, saving, reply>>

NoDoc == "no document"

Init ==
  /\ stored = Empty
  /\ durable = {Empty}
  /\ saving = NoDoc
  /\ reply = "none"

Request ==
  /\ saving = NoDoc
  /\ saving' \in Docs
  /\ reply' = "none"
  /\ UNCHANGED <<stored, durable>>

Replace ==
  /\ saving # NoDoc
  /\ stored' = saving
  /\ durable' = durable \cup {saving}
  /\ UNCHANGED <<saving, reply>>

Acknowledge ==
  /\ saving # NoDoc
  /\ stored = saving
  /\ durable' = {saving}
  /\ saving' = NoDoc
  /\ reply' = "ok"
  /\ UNCHANGED stored

Refuse ==
  /\ saving # NoDoc
  /\ saving' = NoDoc
  /\ reply' = "error"
  /\ UNCHANGED <<stored, durable>>

Die ==
  /\ saving' = NoDoc
  /\ reply' = "none"
  /\ UNCHANGED <<stored, durable>>

PowerLoss ==
  /\ stored' \in durable
  /\ durable' = {stored'}
  /\ saving' = NoDoc
  /\ reply' = "none"

Next == Request \/ Replace \/ Acknowledge \/ Refuse \/ Die \/ PowerLoss

Spec == Init /\ [][Next]_vars

=============================================================================
