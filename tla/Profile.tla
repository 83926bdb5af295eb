------------------------------- MODULE Profile -------------------------------
(* The profile photo of one user: an object in the storage and its key in    *)
(* the row, changed by uploads and removals that may overlap and fail.       *)
EXTENDS Integers

CONSTANTS
  Requests,       \* requests that can be served at the same time
  NoPhoto,        \* no key
  MaxKeys         \* bound: uploads

\* Keys are numbers here.
PhotoAssumption == NoPhoto \notin Nat

VARIABLES
  avatar_key,   \* users.avatar_key
  stored,       \* the keys of the objects that there are
  made,         \* how many keys have been made: every upload has a fresh one
  change        \* the requests

profileVars == <<avatar_key, stored, made, change>>

\* previous: the key that the request has read with its user.
NoChange == [pc |-> "idle", key |-> NoPhoto, previous |-> NoPhoto]

Init == avatar_key = NoPhoto /\ stored = {} /\ made = 0 /\ change = [r \in Requests |-> NoChange]

\* set_avatar and remove_avatar, whose user is read before anything else.
SetAvatar(r) ==
  /\ change[r].pc = "idle" /\ made < MaxKeys
  /\ made' = made + 1
  /\ change' = [change EXCEPT ![r] = [pc |-> "begun", key |-> made', previous |-> avatar_key]]
  /\ UNCHANGED <<avatar_key, stored>>
RemoveAvatar(r) ==
  /\ change[r].pc = "idle"
  /\ change' = [change EXCEPT ![r] = [pc |-> "put", key |-> NoPhoto, previous |-> avatar_key]]
  /\ UNCHANGED <<avatar_key, stored, made>>

\* The object is stored first.
Put(r) ==
  /\ change[r].pc = "begun"
  /\ stored' = stored \cup {change[r].key}
  /\ change' = [change EXCEPT ![r].pc = "put"]
  /\ UNCHANGED <<avatar_key, made>>

\* The column is written if it differs from what was read.
Commit(r) ==
  /\ change[r].pc = "put"
  /\ avatar_key' = IF change[r].key = change[r].previous THEN avatar_key ELSE change[r].key
  /\ change' = [change EXCEPT ![r].pc = "committed"]
  /\ UNCHANGED <<stored, made>>

\* Mutant of MayDiscard: the old object goes once the new one is stored.
DiscardEarly(r) == change[r].pc \in {"put", "committed"}
MayDiscard(r) == change[r].pc = "committed"

\* _discard: the old object, if the storage lets it.
Discard(r) ==
  /\ MayDiscard(r)
  /\ stored' \in {stored, stored \ {change[r].previous}}
  /\ change' = [change EXCEPT ![r] = IF @.pc = "committed" THEN NoChange ELSE [@ EXCEPT !.pc = "put"]]
  /\ UNCHANGED <<avatar_key, made>>

\* The image is refused, the storage or the commit fails, or the process ends.
Fails(r) ==
  /\ change[r].pc # "idle"
  /\ change' = [change EXCEPT ![r] = NoChange]
  /\ UNCHANGED <<avatar_key, stored, made>>

Next == \E r \in Requests : SetAvatar(r) \/ RemoveAvatar(r) \/ Put(r) \/ Commit(r) \/ Discard(r) \/ Fails(r)

Spec == Init /\ [][Next]_profileVars

\* The photo of the row is in the storage, whichever uploads and removals
\* overlap and wherever one of them stops: an object may be left over, but never
\* a key without its object (profile_service.py).
PhotoIsStored == avatar_key # NoPhoto => avatar_key \in stored
=============================================================================
