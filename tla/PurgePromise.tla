---------------------------- MODULE PurgePromise ----------------------------
(***************************************************************************)
(* What the permanent purge of a workspace promises, without requests,     *)
(* authorizations or handlers: it destroys the content only while the      *)
(* workspace is in the trash, approved and under no legal hold; the        *)
(* approval covers that very content and dies with the restore; and        *)
(* nothing comes after the destruction.                                    *)
(***************************************************************************)
CONSTANT Content    \* what a workspace may contain: a set of sets of rows

VARIABLES phase, content, approved, held

vars == <<phase, content, approved, held>>

TypeOK ==
  /\ phase \in {"live", "trashed", "destroyed"}
  /\ content \in Content
  /\ approved \in BOOLEAN
  /\ held \in BOOLEAN

Init ==
  /\ phase = "live"
  /\ content \in Content
  /\ ~approved
  /\ ~held

\* Tenants change the content, at the latest until it is approved for purge.
Change ==
  /\ phase # "destroyed"
  /\ ~approved
  /\ content' \in Content
  /\ UNCHANGED <<phase, approved, held>>

Trash ==
  /\ phase = "live"
  /\ phase' = "trashed"
  /\ UNCHANGED <<content, approved, held>>

Restore ==
  /\ phase = "trashed"
  /\ phase' = "live"
  /\ ~approved'
  /\ UNCHANGED <<content, held>>

Approve ==
  /\ phase = "trashed"
  /\ ~held
  /\ approved'
  /\ UNCHANGED <<phase, content, held>>

\* The approval is used up by a failed attempt or frozen by an unknown outcome.
Withdraw ==
  /\ approved
  /\ ~approved'
  /\ UNCHANGED <<phase, content, held>>

Hold ==
  /\ phase # "destroyed"
  /\ held' = ~held
  /\ UNCHANGED <<phase, content, approved>>

Destroy ==
  /\ phase = "trashed"
  /\ approved
  /\ ~held
  /\ phase' = "destroyed"
  /\ content' = {}
  /\ ~approved'
  /\ UNCHANGED held

Next == Change \/ Trash \/ Restore \/ Approve \/ Withdraw \/ Hold \/ Destroy

Spec == Init /\ [][Next]_vars
=============================================================================
