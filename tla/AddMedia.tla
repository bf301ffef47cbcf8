------------------------------ MODULE AddMedia ------------------------------
(***************************************************************************)
(* The add-media flow of trip-service for one published trip: participants *)
(* open one shared session, upload, group, have the result processed by ML *)
(* and one of them - the initiator - confirms or cancels it; a cron closes *)
(* what is abandoned.  The status of the trip and the row of the session   *)
(* are written by separate statements; each step here is one statement or  *)
(* transaction, with the reads a handler makes just before it.             *)
(***************************************************************************)
EXTENDS Integers, FiniteSets

CONSTANTS Session,      \* ids of add_media_sessions rows
          Media,        \* ids of media rows
          Pin,          \* ids of pins rows
          User,         \* the participants of the trip
          Handler,      \* requests that can be in flight at once
          Cron,         \* the session_cleanup goroutine, not a Handler
          NoSession, NoPin, NoUser,  \* SQL NULL
          SeedPin,      \* a pin the trip already has, or NoPin
          SeedMedia,    \* media the trip already has, on SeedPin except
          LooseMedia,   \* those of a pin-upload session still under way
          Ops,          \* the requests clients issue, and "cleanup"
          MaxMediaPerTrip,
          MaxDeliver,   \* deliveries of one ML result
          MaxFaults,    \* bound on the failures of a behaviour
          FaultKinds    \* which of "handler", "step", "ml", "read" fail

ASSUME NullAssumption  == NoPin \notin Pin /\ NoSession \notin Session /\ NoUser \notin User
ASSUME CronAssumption  == Cron \notin Handler
ASSUME SeedAssumption  == /\ SeedMedia \subseteq Media
                          /\ SeedPin \in Pin \cup {NoPin}
                          /\ LooseMedia \subseteq SeedMedia
                          /\ SeedPin = NoPin <=> SeedMedia = LooseMedia
ASSUME BoundAssumption == /\ MaxMediaPerTrip \in Nat
                          /\ MaxDeliver \in Nat \ {0}
                          /\ MaxFaults \in Nat

VARIABLES
  tripStatus, \* trips.status
  state,      \* add_media_sessions: UNUSED, open, or close_reason
  existing,   \* existing_media_ids
  pending,    \* pending_existing_attachments
  initiator,  \* current_initiator_user_id
  overdue,    \* initiator_assigned_at is older than initiatorTakeoverTimeout
  stale,      \* last_activity_at is older than SessionAbandonedThreshold
  rows,       \* ids of the media rows of the trip
  used,       \* ids of media rows ever inserted
  session,    \* the session a media was committed in (kept by no column)
  pinOf,      \* media.pin_id
  pinRow,     \* pins: UNUSED, LIVE or DELETED
  draftOf,    \* pins.add_media_session_id
  mlq,        \* deliveries left of the ML results of a session
  ml,         \* the session whose result is being applied, or NoSession
  req,        \* the requests in flight, and the cron
  todo,       \* the sessions the cron has listed
  faults      \* failures so far

sessVars  == <<state, existing, pending, initiator, overdue, stale>>
mediaVars == <<rows, used, session, pinOf>>
pinVars   == <<pinRow, draftOf>>
mlVars    == <<mlq, ml>>
vars == <<tripStatus, sessVars, mediaVars, pinVars, mlVars, req, todo, faults>>

Proc == Handler \cup {Cron}

------------------------------------------------------------------------------
(* Tables and statements                                                    *)

\* The prefix ADD_MEDIA_ is left out; REVIEW is ADD_MEDIA_DRAFT_FINAL_REVIEW.
TripStatus == {"READY", "UPLOADING", "GROUPING", "PROCESSING", "REVIEW"}
Reason     == {"confirmed", "cancelled", "abandoned"}

IsOpen(s) == state[s] = "open"

\* mutant: without the partial unique index
NoConflict == FALSE
\* idx_add_media_sessions_active_per_trip, behind ON CONFLICT DO NOTHING.
Conflict == \E s \in Session : IsOpen(s)

\* mutant: the UPDATE forgets AND closed_at IS NULL
InitiatorEvenClosed(s, u) ==
  /\ initiator' = [initiator EXCEPT ![s] = u]
  /\ overdue' = [overdue EXCEPT ![s] = FALSE]
  /\ stale' = [stale EXCEPT ![s] = FALSE]
\* AddMediaSessionSetInitiator: no row is no error.
SetInitiator(s, u) ==
  IF IsOpen(s)
    THEN /\ initiator' = [initiator EXCEPT ![s] = u]
         /\ overdue' = [overdue EXCEPT ![s] = FALSE]
         /\ stale' = [stale EXCEPT ![s] = FALSE]
    ELSE UNCHANGED <<initiator, overdue, stale>>

\* UPDATE add_media_sessions SET last_activity_at, whoever does it.
Touch(s) == stale' = [stale EXCEPT ![s] = IF IsOpen(s) THEN FALSE ELSE @]

\* mutant: the DELETE forgets that the original media are protected
OrphansWithOriginals(keep) == {m \in rows : pinOf[m] = NoPin}
\* The SELECT of DeleteOrphanSessionMedia.
Orphans(keep) == {m \in rows \ keep : pinOf[m] = NoPin}

\* mutant: the session's pins stay
NoDraftPins(s) == {}
\* DELETE FROM pins WHERE add_media_session_id = $1
DraftPins(s) == {p \in Pin : pinRow[p] = "LIVE" /\ draftOf[p] = s}

\* mutant: confirming leaves the pins drafts
StillDraft(s) == draftOf
\* ClearAddMediaSessionByID
Published(s) == [p \in Pin |-> IF draftOf[p] = s THEN NoSession ELSE draftOf[p]]

MediaOf(p) == {m \in rows : pinOf[m] = p}
\* PinRepository.ListByTripID leaves draft pins out.
ListedPins == {p \in Pin : pinRow[p] = "LIVE" /\ draftOf[p] = NoSession}

------------------------------------------------------------------------------
(* Requests                                                                 *)

NoRequest == [op |-> "none", pc |-> "idle", by |-> NoUser, sess |-> NoSession,
              pin |-> NoPin, ids |-> {}, old |-> {}, new |-> {}]

Begin(h, op, pc, u, s, ids) ==
  /\ op \in Ops
  /\ req[h].pc = "idle"
  /\ req' = [req EXCEPT ![h] = [NoRequest EXCEPT !.op = op, !.pc = pc, !.by = u,
                                                 !.sess = s, !.ids = ids]]

At(c, pc)   == req[c].pc = pc
Goto(c, pc) == req' = [req EXCEPT ![c].pc = pc]
Finish(c)   == req' = [req EXCEPT ![c] = NoRequest]

\* Bound: ids run out; a request that would need one more is not issued.
IdsLeft(free, pcs) ==
  Cardinality(free) > Cardinality({h \in Handler : req[h].pc \in pcs})
SessionIdsLeft == IdsLeft({s \in Session : state[s] = "UNUSED"}, {"create"})
MediaIdsLeft   == IdsLeft(Media \ used, {"insert"})
PinIdsLeft     == IdsLeft({p \in Pin : pinRow[p] = "UNUSED"},
                          {"delete", "attachOld", "createPin"})

(* AddMediaStart: guards, the INSERT, presigned URLs, then the status.      *)
AddMediaStart(h, u) ==
  /\ ~\E s \in Session : IsOpen(s)     \* otherwise the caller joins it
  /\ tripStatus = "READY"
  /\ Cardinality(rows) < MaxMediaPerTrip
  /\ SessionIdsLeft
  /\ Begin(h, "start", "create", u, NoSession, rows)
  /\ UNCHANGED <<tripStatus, sessVars, mediaVars, pinVars, mlVars, todo, faults>>

CreateSession(h) ==
  /\ At(h, "create")
  /\ \/ Conflict /\ Finish(h) /\ UNCHANGED <<state, existing>>
     \/ /\ ~Conflict
        /\ \E s \in Session :
             /\ state[s] = "UNUSED"
             /\ state' = [state EXCEPT ![s] = "open"]
             /\ existing' = [existing EXCEPT ![s] = req[h].ids]
             /\ req' = [req EXCEPT ![h].sess = s, ![h].pc = "uploading"]
  /\ UNCHANGED <<tripStatus, pending, initiator, overdue, stale, mediaVars, pinVars,
                 mlVars, todo, faults>>

StartUploading(h) ==
  /\ At(h, "uploading")
  /\ tripStatus' = "UPLOADING"
  /\ Finish(h)
  /\ UNCHANGED <<sessVars, mediaVars, pinVars, mlVars, todo, faults>>

(* AddMediaCommitUpload: guards, then the transaction of CommitInSession.   *)
(* Its lock is the session's; with one session per trip COUNT and INSERT    *)
(* are one step.  It does not ask whether the session is still open.        *)
AddMediaCommitUpload(h, u, s) ==
  /\ IsOpen(s)
  /\ tripStatus = "UPLOADING"
  /\ MediaIdsLeft
  /\ Begin(h, "commit", "insert", u, s, {})
  /\ UNCHANGED <<tripStatus, sessVars, mediaVars, pinVars, mlVars, todo, faults>>

CommitInSession(h) ==
  LET s == req[h].sess IN
  /\ At(h, "insert")
  /\ IF Cardinality(rows) < MaxMediaPerTrip
       THEN /\ \E m \in Media \ used :
                 /\ rows' = rows \cup {m}
                 /\ used' = used \cup {m}
                 /\ session' = [session EXCEPT ![m] = s]
                 /\ pinOf' = [pinOf EXCEPT ![m] = NoPin]
            /\ stale' = [stale EXCEPT ![s] = FALSE]
       ELSE UNCHANGED <<mediaVars, stale>>
  /\ Finish(h)
  /\ UNCHANGED <<tripStatus, state, existing, pending, initiator, overdue, pinVars,
                 mlVars, todo, faults>>

(* AddMediaProcessGrouping, and the way back with add_more.                 *)
AddMediaProcessGrouping(h, u, s) ==
  /\ IsOpen(s)
  /\ \/ tripStatus = "UPLOADING" /\ Begin(h, "group", "grouping", u, s, {})
     \/ tripStatus = "GROUPING"  /\ Begin(h, "addMore", "uploadMore", u, s, {})
  /\ UNCHANGED <<tripStatus, sessVars, mediaVars, pinVars, mlVars, todo, faults>>

SetGroupingStatus(h) ==
  /\ \/ At(h, "grouping")   /\ tripStatus' = "GROUPING"
     \/ At(h, "uploadMore") /\ tripStatus' = "UPLOADING"
  /\ Goto(h, "touch")
  /\ UNCHANGED <<sessVars, mediaVars, pinVars, mlVars, todo, faults>>

TouchSession(h) ==
  /\ At(h, "touch")
  /\ Touch(req[h].sess)
  /\ Finish(h)
  /\ UNCHANGED <<tripStatus, state, existing, pending, initiator, overdue, mediaVars,
                 pinVars, mlVars, todo, faults>>

\* mutant: deleted_media_ids and draft_pins are taken as they come
AllRequested(s, ids) == ids
\* "существующие медиа защищены": the ids of the request without the originals.
Requested(s, ids) == ids \ existing[s]

\* What the handler does next; it skips what has no ids.
AfterNew(r)    == IF r.old # {} THEN "pending" ELSE "processing"
AfterOld(r)    == IF r.new # {} THEN "createPin" ELSE AfterNew(r)
AfterDelete(r) == IF r.old # {} THEN "attachOld" ELSE AfterOld(r)

(* AddMediaApplyGroupsAndProcess: guards, deletions, one group for a pin    *)
(* the trip has and one for a new pin, pending attachments, status,         *)
(* initiator, ML task.  dedupAddMediaByHash finds nothing: no path fills    *)
(* content_hash.                                                            *)
AddMediaApplyGroups(h, u, s, p, del, old, new) ==
  /\ IsOpen(s)
  /\ tripStatus = "GROUPING"
  /\ del \subseteq rows /\ old \subseteq rows /\ new \subseteq rows
  /\ del \cap (old \cup new) = {} /\ old \cap new = {}
  /\ "apply" \in Ops /\ req[h].pc = "idle"
  /\ Requested(s, new) # {} => PinIdsLeft
  /\ LET r == [op |-> "apply", pc |-> "delete", by |-> u, sess |-> s, pin |-> p,
               ids |-> Requested(s, del), old |-> Requested(s, old), new |-> Requested(s, new)]
     IN req' = [req EXCEPT ![h] = IF r.ids # {} THEN r ELSE [r EXCEPT !.pc = AfterDelete(r)]]
  /\ UNCHANGED <<tripStatus, sessVars, mediaVars, pinVars, mlVars, todo, faults>>

\* resolveMediaDeletionsForTrip refuses ids it does not know; then DeleteByIDs.
DeleteMedia(h) ==
  /\ At(h, "delete")
  /\ IF req[h].ids \subseteq rows
       THEN rows' = rows \ req[h].ids /\ Goto(h, AfterDelete(req[h]))
       ELSE UNCHANGED rows /\ Finish(h)
  /\ UNCHANGED <<tripStatus, sessVars, used, session, pinOf, pinVars, mlVars, todo, faults>>

Attach(ids, p) == pinOf' = [m \in Media |-> IF m \in ids \cap rows THEN p ELSE pinOf[m]]

\* A group for "existing-{pin}"; it is skipped when the pin is gone.
AttachToExistingPin(h) ==
  LET skipped == [req[h] EXCEPT !.old = {}] IN
  /\ At(h, "attachOld")
  /\ IF pinRow[req[h].pin] = "LIVE"
       THEN Attach(req[h].old, req[h].pin) /\ Goto(h, AfterOld(req[h]))
       ELSE UNCHANGED pinOf /\ req' = [req EXCEPT ![h] = [skipped EXCEPT !.pc = AfterOld(skipped)]]
  /\ UNCHANGED <<tripStatus, sessVars, rows, used, session, pinVars, mlVars, todo, faults>>

CreatePin(h) ==
  /\ At(h, "createPin")
  /\ \E p \in Pin :
       /\ pinRow[p] = "UNUSED"
       /\ pinRow' = [pinRow EXCEPT ![p] = "LIVE"]
       /\ draftOf' = [draftOf EXCEPT ![p] = req[h].sess]
       /\ req' = [req EXCEPT ![h].pin = p, ![h].pc = "attachNew"]
  /\ UNCHANGED <<tripStatus, sessVars, mediaVars, mlVars, todo, faults>>

\* The foreign key refuses a pin that a cancel has deleted meanwhile.
AttachToNewPin(h) ==
  LET gone == pinRow[req[h].pin] # "LIVE" /\ req[h].new \cap rows # {} IN
  /\ At(h, "attachNew")
  /\ IF gone THEN UNCHANGED pinOf /\ Finish(h)
             ELSE Attach(req[h].new, req[h].pin) /\ Goto(h, AfterNew(req[h]))
  /\ UNCHANGED <<tripStatus, sessVars, rows, used, session, pinVars, mlVars, todo, faults>>

\* AppendPendingExistingAttachments: no open row is no error.
AppendPending(h) ==
  LET s == req[h].sess IN
  /\ At(h, "pending")
  /\ pending' = [pending EXCEPT ![s] = IF IsOpen(s) THEN @ \cup req[h].old ELSE @]
  /\ Goto(h, "processing")
  /\ UNCHANGED <<tripStatus, state, existing, initiator, overdue, stale, mediaVars,
                 pinVars, mlVars, todo, faults>>

StartProcessing(h) ==
  /\ At(h, "processing")
  /\ tripStatus' = "PROCESSING"
  /\ Goto(h, "initiator")
  /\ UNCHANGED <<sessVars, mediaVars, pinVars, mlVars, todo, faults>>

AssignInitiator(h) ==
  /\ At(h, "initiator")
  /\ SetInitiator(req[h].sess, req[h].by)
  /\ Goto(h, "publish")
  /\ UNCHANGED <<tripStatus, state, existing, pending, mediaVars, pinVars, mlVars, todo, faults>>

\* The pins of the ML task: those of ListByTripID that have media.
Payload == {p \in ListedPins : MediaOf(p) # {}}

\* publishMLTask: nothing to send, or a failed publish, is silently accepted.
\* The ML service answers each task, JetStream delivers it at least once.
PublishMLTask(h) ==
  LET s == req[h].sess IN
  /\ At(h, "publish")
  /\ \/ /\ Payload # {}
        /\ \E n \in 1..MaxDeliver : mlq' = [mlq EXCEPT ![s] = @ + n]
        /\ UNCHANGED faults
     \/ Payload = {} /\ UNCHANGED <<mlq, faults>>
     \/ /\ "ml" \in FaultKinds /\ faults < MaxFaults
        /\ faults' = faults + 1
        /\ UNCHANGED mlq
  /\ Finish(h)
  /\ UNCHANGED <<tripStatus, sessVars, mediaVars, pinVars, ml, todo>>

\* ensureInitiator: the initiator acts at once, another participant takes over
\* one who has been silent for an hour, anybody else is refused.
MayLead(s, u)     == initiator[s] = u
MayTakeOver(s, u) == initiator[s] \notin {u, NoUser} /\ overdue[s]
Lead(h, op, pc, u, s, ids) ==
  \/ MayLead(s, u)     /\ Begin(h, op, pc, u, s, ids)
  \/ MayTakeOver(s, u) /\ Begin(h, op, "takeover", u, s, ids)

(* AddMediaTakeover *)
AddMediaTakeover(h, u, s) ==
  /\ IsOpen(s)
  /\ tripStatus = "REVIEW"
  /\ MayTakeOver(s, u)
  /\ Begin(h, "takeover", "takeover", u, s, {})
  /\ UNCHANGED <<tripStatus, sessVars, mediaVars, pinVars, mlVars, todo, faults>>

ExecuteTakeover(h) ==
  /\ At(h, "takeover")
  /\ SetInitiator(req[h].sess, req[h].by)
  /\ \/ req[h].op = "takeover" /\ Finish(h)
     \/ req[h].op = "confirm"  /\ Goto(h, "edits")
     \/ req[h].op = "cancel"   /\ Goto(h, "rollback")
  /\ UNCHANGED <<tripStatus, state, existing, pending, mediaVars, pinVars, mlVars, todo, faults>>

(* AddMediaConfirm: guards, review edits, drafts published, close, READY.   *)
AddMediaConfirm(h, u, s, del) ==
  /\ IsOpen(s)
  /\ tripStatus = "REVIEW"
  /\ del \subseteq rows
  /\ Lead(h, "confirm", "edits", u, s, del)
  /\ UNCHANGED <<tripStatus, sessVars, mediaVars, pinVars, mlVars, todo, faults>>

ApplyReviewEdits(h) ==
  /\ At(h, "edits")
  /\ IF req[h].ids \subseteq rows
       THEN rows' = rows \ req[h].ids /\ Goto(h, "publishPins")
       ELSE UNCHANGED rows /\ Finish(h)
  /\ UNCHANGED <<tripStatus, sessVars, used, session, pinOf, pinVars, mlVars, todo, faults>>

PublishDraftPins(h) ==
  /\ At(h, "publishPins")
  /\ draftOf' = Published(req[h].sess)
  /\ Goto(h, "close")
  /\ UNCHANGED <<tripStatus, sessVars, mediaVars, pinRow, mlVars, todo, faults>>

(* AddMediaCancel: guards, then the steps it shares with the cleanup cron.  *)
AddMediaCancel(h, u, s) ==
  /\ IsOpen(s)
  /\ tripStatus # "READY"
  /\ IF tripStatus = "REVIEW"
       THEN Lead(h, "cancel", "rollback", u, s, existing[s])
       ELSE Begin(h, "cancel", "rollback", u, s, existing[s])
  /\ UNCHANGED <<tripStatus, sessVars, mediaVars, pinVars, mlVars, todo, faults>>

\* GetPendingExistingAttachments, ClearPinIDByIDs
RollbackAttachments(c) ==
  /\ At(c, "rollback")
  /\ pinOf' = [m \in Media |-> IF m \in pending[req[c].sess] \cap rows THEN NoPin ELSE pinOf[m]]
  /\ Goto(c, "drafts")
  /\ UNCHANGED <<tripStatus, sessVars, rows, used, session, pinVars, mlVars, todo, faults>>

\* DeleteByAddMediaSessionID; the media keep their rows (ON DELETE SET NULL).
DeleteDraftPins(c) ==
  LET gone == DraftPins(req[c].sess) IN
  /\ At(c, "drafts")
  /\ pinRow' = [p \in Pin |-> IF p \in gone THEN "DELETED" ELSE pinRow[p]]
  /\ pinOf' = [m \in Media |-> IF pinOf[m] \in gone THEN NoPin ELSE pinOf[m]]
  /\ Goto(c, "select")
  /\ UNCHANGED <<tripStatus, sessVars, rows, used, session, draftOf, mlVars, todo, faults>>

\* DeleteOrphanSessionMedia selects the ids ...
SelectOrphans(c) ==
  /\ At(c, "select")
  /\ req' = [req EXCEPT ![c].ids = Orphans(req[c].ids), ![c].pc = "orphans"]
  /\ UNCHANGED <<tripStatus, sessVars, mediaVars, pinVars, mlVars, todo, faults>>

\* ... and deletes them by id, attached meanwhile or not.
DeleteOrphans(c) ==
  /\ At(c, "orphans")
  /\ rows' = rows \ req[c].ids
  /\ Goto(c, "close")
  /\ UNCHANGED <<tripStatus, sessVars, used, session, pinOf, pinVars, mlVars, todo, faults>>

\* AddMediaSessionCloseReasonConfirmed, -Cancelled, -Abandoned
ReasonOf(c) == CASE req[c].op = "confirm" -> "confirmed"
                 [] req[c].op = "cancel"  -> "cancelled"
                 [] OTHER                 -> "abandoned"

\* mutant: without AND closed_at IS NULL
CloseEvenClosed(s) == s \in Session
\* The WHERE clause of AddMediaSessionClose.
CanClose(s) == IsOpen(s)

\* Close: a handler that finds the session closed stops there, the cron does
\* not care.
CloseSession(c) ==
  LET s == req[c].sess IN
  /\ At(c, "close")
  /\ state' = IF CanClose(s) THEN [state EXCEPT ![s] = ReasonOf(c)] ELSE state
  /\ IF CanClose(s) \/ c = Cron THEN Goto(c, "ready") ELSE Finish(c)
  /\ UNCHANGED <<tripStatus, existing, pending, initiator, overdue, stale, mediaVars,
                 pinVars, mlVars, todo, faults>>

BackToReady(c) ==
  /\ At(c, "ready")
  /\ tripStatus' = "READY"
  /\ Finish(c)
  /\ UNCHANGED <<sessVars, mediaVars, pinVars, mlVars, todo, faults>>

\* A statement fails, presigning fails, the request is cancelled or the process
\* dies: the handler stops where it is.
HandlerFails(h) ==
  /\ req[h].pc # "idle"
  /\ "handler" \in FaultKinds /\ faults < MaxFaults
  /\ faults' = faults + 1
  /\ Finish(h)
  /\ UNCHANGED <<tripStatus, sessVars, mediaVars, pinVars, mlVars, todo>>

\* Failures that are only logged, and where the handler goes on.
Logged == [pending |-> "processing", initiator |-> "publish", rollback |-> "drafts",
           drafts |-> "select", select |-> "close", orphans |-> "close"]

LoggedFailure(c) ==
  /\ "step" \in FaultKinds /\ faults < MaxFaults
  /\ faults' = faults + 1
  /\ \/ req[c].pc \in DOMAIN Logged /\ Goto(c, Logged[req[c].pc])
     \/ c = Cron /\ At(c, "close") /\ Goto(c, "ready")
  /\ UNCHANGED <<tripStatus, sessVars, mediaVars, pinVars, mlVars, todo>>

------------------------------------------------------------------------------
(* FinalizeAfterMLResult: the status of the trip is read ...                *)
DeliverResult(s) ==
  /\ ml = NoSession
  /\ mlq[s] > 0
  /\ mlq' = [mlq EXCEPT ![s] = @ - 1]
  /\ ml' = IF tripStatus = "PROCESSING" THEN s ELSE NoSession
  /\ UNCHANGED <<tripStatus, sessVars, mediaVars, pinVars, req, todo, faults>>

\* ... and finalizeProcessing sets it, whatever it has become meanwhile.
FinalizeProcessing ==
  /\ ml # NoSession
  /\ tripStatus' = "REVIEW"
  /\ ml' = NoSession
  /\ UNCHANGED <<sessVars, mediaVars, pinVars, mlq, req, todo, faults>>

------------------------------------------------------------------------------
(* RunSessionCleanupOnce                                                    *)

\* mutant: only sessions whose trip is still in the flow are listed
AbandonedInFlow(s) == IsOpen(s) /\ stale[s] /\ tripStatus # "READY"
\* The WHERE clause of AddMediaSessionListAbandoned.
Abandoned(s) == IsOpen(s) /\ stale[s]

ListAbandoned ==
  /\ "cleanup" \in Ops
  /\ At(Cron, "idle") /\ todo = {}
  /\ \E s \in Session : Abandoned(s)
  /\ todo' = {s \in Session : Abandoned(s)}
  /\ UNCHANGED <<tripStatus, sessVars, mediaVars, pinVars, mlVars, req, faults>>

\* cleanupOne: if existing_media_ids cannot be read it goes on with none.
CleanupOne(s) ==
  /\ At(Cron, "idle")
  /\ s \in todo
  /\ todo' = todo \ {s}
  /\ \/ Begin(Cron, "cleanup", "rollback", NoUser, s, existing[s]) /\ UNCHANGED faults
     \/ /\ "read" \in FaultKinds /\ faults < MaxFaults
        /\ faults' = faults + 1
        /\ Begin(Cron, "cleanup", "rollback", NoUser, s, {})
  /\ UNCHANGED <<tripStatus, sessVars, mediaVars, pinVars, mlVars>>

------------------------------------------------------------------------------
(* Time.  No request lives for an hour.                                     *)

Busy(s) == \E c \in Proc : req[c].sess = s

OneHour(s) ==
  /\ "takeover" \in Ops
  /\ IsOpen(s) /\ initiator[s] # NoUser /\ ~overdue[s] /\ ~Busy(s)
  /\ overdue' = [overdue EXCEPT ![s] = TRUE]
  /\ UNCHANGED <<tripStatus, state, existing, pending, initiator, stale, mediaVars,
                 pinVars, mlVars, req, todo, faults>>

SeventyTwoHours(s) ==
  /\ "cleanup" \in Ops
  /\ IsOpen(s) /\ ~stale[s] /\ ~Busy(s)
  /\ stale' = [stale EXCEPT ![s] = TRUE]
  /\ overdue' = [overdue EXCEPT ![s] = initiator[s] # NoUser]
  /\ UNCHANGED <<tripStatus, state, existing, pending, initiator, mediaVars,
                 pinVars, mlVars, req, todo, faults>>

------------------------------------------------------------------------------

Init ==
  /\ tripStatus = "READY"
  /\ state     = [s \in Session |-> "UNUSED"]
  /\ existing  = [s \in Session |-> {}]
  /\ pending   = [s \in Session |-> {}]
  /\ initiator = [s \in Session |-> NoUser]
  /\ overdue   = [s \in Session |-> FALSE]
  /\ stale     = [s \in Session |-> FALSE]
  /\ rows      = SeedMedia
  /\ used      = SeedMedia
  /\ session   = [m \in Media |-> NoSession]
  /\ pinOf     = [m \in Media |-> IF m \in SeedMedia \ LooseMedia THEN SeedPin ELSE NoPin]
  /\ pinRow    = [p \in Pin |-> IF p = SeedPin THEN "LIVE" ELSE "UNUSED"]
  /\ draftOf   = [p \in Pin |-> NoSession]
  /\ mlq       = [s \in Session |-> 0]
  /\ ml        = NoSession
  /\ req       = [c \in Proc |-> NoRequest]
  /\ todo      = {}
  /\ faults    = 0

Request(h) ==
  \E u \in User :
    \/ AddMediaStart(h, u)
    \/ \E s \in Session :
         \/ AddMediaCommitUpload(h, u, s) \/ AddMediaProcessGrouping(h, u, s)
         \/ AddMediaTakeover(h, u, s)     \/ AddMediaCancel(h, u, s)
         \/ \E del \in SUBSET rows : AddMediaConfirm(h, u, s, del)
         \/ \E p \in {q \in Pin : pinRow[q] = "LIVE"} \cup {NoPin}, del, old, new \in SUBSET rows :
              /\ p = NoPin <=> old = {}
              /\ AddMediaApplyGroups(h, u, s, p, del, old, new)

HandlerStep(h) ==
  \/ CreateSession(h)       \/ StartUploading(h)  \/ CommitInSession(h)
  \/ SetGroupingStatus(h)   \/ TouchSession(h)    \/ DeleteMedia(h)
  \/ AttachToExistingPin(h) \/ CreatePin(h)       \/ AttachToNewPin(h)
  \/ AppendPending(h)       \/ StartProcessing(h) \/ AssignInitiator(h)
  \/ PublishMLTask(h)       \/ ExecuteTakeover(h) \/ ApplyReviewEdits(h)
  \/ PublishDraftPins(h)

CloseStep(c) ==
  \/ RollbackAttachments(c) \/ DeleteDraftPins(c) \/ SelectOrphans(c)
  \/ DeleteOrphans(c)       \/ CloseSession(c)    \/ BackToReady(c)

ResultStep == FinalizeProcessing \/ \E s \in Session : DeliverResult(s)
CronStep   == ListAbandoned \/ (\E s \in Session : CleanupOne(s)) \/ CloseStep(Cron)
Time       == \E s \in Session : OneHour(s) \/ SeventyTwoHours(s)

Next == \/ \E h \in Handler : Request(h) \/ HandlerStep(h) \/ CloseStep(h) \/ HandlerFails(h)
        \/ \E c \in Proc : LoggedFailure(c)
        \/ ResultStep \/ CronStep \/ Time

Spec == Init /\ [][Next]_vars

\* Handlers run to completion or fail; the cron is driven by a ticker.
FairSpec == /\ Spec
            /\ \A h \in Handler : WF_vars(HandlerStep(h) \/ CloseStep(h))
            /\ WF_vars(CronStep)

------------------------------------------------------------------------------
(* Properties                                                               *)

PCs == {"idle", "create", "uploading", "insert", "grouping", "uploadMore", "touch",
        "delete", "attachOld", "createPin", "attachNew", "pending", "processing",
        "initiator", "publish", "takeover", "edits", "publishPins", "rollback",
        "drafts", "select", "orphans", "close", "ready"}
Operations == {"none", "start", "commit", "group", "addMore", "apply", "takeover",
               "confirm", "cancel", "cleanup"}
Requests == [op : Operations, pc : PCs, by : User \cup {NoUser},
             sess : Session \cup {NoSession}, pin : Pin \cup {NoPin},
             ids : SUBSET Media, old : SUBSET Media, new : SUBSET Media]

\* Types of the tables, of the queue of results and of the actors' local state.
TypeOK ==
  /\ tripStatus \in TripStatus
  /\ state \in [Session -> Reason \cup {"UNUSED", "open"}]
  /\ existing \in [Session -> SUBSET Media]
  /\ pending \in [Session -> SUBSET Media]
  /\ initiator \in [Session -> User \cup {NoUser}]
  /\ overdue \in [Session -> BOOLEAN]
  /\ stale \in [Session -> BOOLEAN]
  /\ rows \subseteq used /\ used \subseteq Media
  /\ session \in [Media -> Session \cup {NoSession}]
  /\ pinOf \in [Media -> Pin \cup {NoPin}]
  /\ pinRow \in [Pin -> {"UNUSED", "LIVE", "DELETED"}]
  /\ draftOf \in [Pin -> Session \cup {NoSession}]
  /\ mlq \in [Session -> Nat]
  /\ ml \in Session \cup {NoSession}
  /\ req \in [Proc -> Requests]
  /\ todo \subseteq Session
  /\ faults \in 0..MaxFaults

\* However many participants call AddMediaStart at once, the trip has one
\* active session and everybody works in it.
OneActive == \A s, x \in Session : IsOpen(s) /\ IsOpen(x) => s = x

\* A closed session's row never changes again: not by a second Confirm or
\* Cancel, a late takeover or apply, nor by the cron.
ClosedIsFinal ==
  [][\A s \in Session : state[s] \in Reason =>
       /\ state'[s] = state[s] /\ existing'[s] = existing[s]
       /\ pending'[s] = pending[s] /\ initiator'[s] = initiator[s]]_vars

Acting(c, s) == req[c].sess = s /\ req[c].op \in {"apply", "cancel", "cleanup"}

\* The media the trip had before the session are protected (comment above
\* AddMediaApplyGroupsAndProcess): apply, cancel and cleanup neither delete them
\* nor take them off their pins, however long after the start they run.
OriginalsKept ==
  [][\A c \in Proc, s \in Session :
       Acting(c, s) /\ req'[c] # req[c] /\ faults = 0 =>
         \A m \in existing[s] \cap rows : m \in rows' /\ pinOf'[m] = pinOf[m]]_vars

AtRest == ml = NoSession /\ \A c \in Proc : At(c, "idle")

\* Cancelling undoes the session: no media uploaded in it and no pin made by it
\* is left, whether the media were on a new pin, on an existing one or on none.
CancelUndoes ==
  AtRest => \A s \in Session : state[s] = "cancelled" =>
              DraftPins(s) = {} /\ \A m \in rows : session[m] # s

\* A pin hidden as a draft belongs to a session somebody can still confirm.
DraftsAreOpen == AtRest => \A s \in Session : DraftPins(s) # {} => IsOpen(s)

\* A session left alone for 72 hours is closed or used again, also one whose
\* trip never left READY or whose results never came.
AbandonedIsClosed ==
  \A s \in Session : (IsOpen(s) /\ stale[s]) ~> (~IsOpen(s) \/ ~stale[s])

\* FinalizeAfterMLResult: "a repeated transition from a status other than
\* PROCESSING is skipped" (trip_service.go:1423).  A result applied after a
\* Cancel would leave the trip in review with no session to confirm or cancel.
OnlyFromProcessing ==
  [][tripStatus' = "REVIEW" => tripStatus \in {"PROCESSING", "REVIEW"}]_vars

\* The ML task of an add-media session has the pins the session made
\* (TestBuildMLTaskMessageForTrip_AddMedia_ExistingPinAllMediaIsNewFlagged).
NewPinsReachML ==
  \A h \in Handler : At(h, "publish") =>
    \A p \in DraftPins(req[h].sess) : MediaOf(p) # {} => p \in Payload

=============================================================================
