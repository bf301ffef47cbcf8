---------------------------- MODULE UploadSession ----------------------------
(***************************************************************************)
(* What the table pin_upload_sessions promises the rest of trip-service,   *)
(* without the handlers, workers and timers that write it: at most one     *)
(* open session per target, a processing status that only moves forward    *)
(* and only while the session is open, and a close that happens once.      *)
(* PinUpload is shown to implement this specification.                     *)
(***************************************************************************)
CONSTANTS Session,  \* the identifiers gen_random_uuid() may return
          Pin,      \* pin identifiers
          NoPin     \* SQL NULL in target_pin_id, not a pin

VARIABLES status,   \* processing_status, or UNUSED / DELETED when there is no row
          target,   \* target_pin_id
          closed    \* "open", or close_reason once closed_at is set

lifeVars == <<status, target, closed>>

Row    == {"UPLOADING", "PROCESSING", "READY_FOR_REVIEW"}
Status == Row \cup {"UNUSED", "DELETED"}
Reason == {"confirmed", "cancelled", "abandoned"}

IsOpen(s) == status[s] \in Row /\ closed[s] = "open"

\* The one step the processing pipeline may take from each status.
After(st) == IF st = "UPLOADING" THEN "PROCESSING" ELSE "READY_FOR_REVIEW"

LifeInit == /\ status = [s \in Session |-> "UNUSED"]
            /\ target = [s \in Session |-> NoPin]
            /\ closed = [s \in Session |-> "open"]

Open(s, t) == /\ status[s] = "UNUSED"
              /\ \A x \in Session : IsOpen(x) => target[x] # t
              /\ status' = [status EXCEPT ![s] = "UPLOADING"]
              /\ target' = [target EXCEPT ![s] = t]
              /\ UNCHANGED closed

Advance(s) == /\ IsOpen(s)
              /\ status[s] # "READY_FOR_REVIEW"
              /\ status' = [status EXCEPT ![s] = After(status[s])]
              /\ UNCHANGED <<target, closed>>

Shut(s, r) == /\ IsOpen(s)
              /\ closed' = [closed EXCEPT ![s] = r]
              /\ UNCHANGED <<status, target>>

\* Rows leave the table when they are closed and old, or with their pin.
Remove(S) == /\ \A s \in S : status[s] \in Row
             /\ \/ \A s \in S : closed[s] # "open"
                \/ \E p \in Pin : \A s \in S : target[s] = p
             /\ status' = [s \in Session |-> IF s \in S THEN "DELETED" ELSE status[s]]
             /\ UNCHANGED <<target, closed>>

LifeNext == \/ \E s \in Session, t \in Pin \cup {NoPin} : Open(s, t)
            \/ \E s \in Session : Advance(s)
            \/ \E s \in Session, r \in Reason : Shut(s, r)
            \/ \E S \in SUBSET Session : Remove(S)

LifeSpec == LifeInit /\ [][LifeNext]_lifeVars

=============================================================================
