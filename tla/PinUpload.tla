------------------------------ MODULE PinUpload ------------------------------
(***************************************************************************)
(* The pin-upload flow of trip-service for one trip: the request handlers  *)
(* of pin_upload*.go and pin_crud.go, the Redis Streams consumer that      *)
(* processes a session, the NATS consumer of ML results, and the cleanup   *)
(* cron.  Each step is one SQL statement, transaction or queue operation;  *)
(* between two steps of a handler any other actor may run.  Reads that a   *)
(* handler makes back to back before its first write are one step.         *)
(***************************************************************************)
EXTENDS Integers, Sequences, FiniteSets

CONSTANTS Session,          \* ids of pin_upload_sessions rows
          Media,            \* ids of media rows
          Pin,              \* ids of pins rows
          Handler,          \* requests that can be in flight at once
          Worker,           \* consumer goroutines (PinUploadConsumerCount)
          NoSession, NoPin, \* SQL NULL
          SeedPin,          \* a pin the trip already has, or NoPin
          SeedMedia,        \* the media of SeedPin
          Ops,              \* the requests clients issue in this instance
          MaxMediaPerTrip,  \* 500 in validation.go
          MaxDeliver,       \* JetStream deliveries of one ML result
          MaxFaults,        \* bound on the failures of a behaviour
          FaultKinds        \* which of "handler", "error", "crash", "ml" fail

ASSUME NullAssumption   == NoPin \notin Pin /\ NoSession \notin Session
ASSUME SeedAssumption   == /\ SeedMedia \subseteq Media
                           /\ SeedPin \in Pin \cup {NoPin}
                           /\ SeedPin = NoPin <=> SeedMedia = {}
ASSUME FiniteAssumption == IsFiniteSet(Media)
ASSUME BoundAssumption  == /\ MaxMediaPerTrip \in Nat
                           /\ MaxDeliver \in Nat \ {0}
                           /\ MaxFaults \in Nat

VARIABLES
  status, target, closed,   \* pin_upload_sessions: see UploadSession
  stale,    \* last_activity_at is older than SessionAbandonedThreshold (72h)
  draft,    \* draft_snapshot: media listed, ML results merged into it
  rows,     \* ids of the media rows of the trip
  used,     \* ids of media rows ever inserted
  owner,    \* media.upload_session_id
  pinOf,    \* media.pin_id
  pinRow,   \* pins: UNUSED, LIVE or DELETED
  count,    \* pins.media_count
  tripReady,\* trips.status = READY
  stream,   \* pinz:trip:pin_upload:tasks, entries not yet delivered
  mlq,      \* deliveries left of the ML result of a session
  req,      \* the requests in flight
  wk,       \* the consumer goroutines
  ml,       \* the ML result handler
  cron,     \* the cleanup pass
  faults    \* failures so far

sessVars  == <<status, target, closed, stale, draft>>
mediaVars == <<rows, used, owner, pinOf>>
pinVars   == <<pinRow, count>>
queueVars == <<stream, mlq>>
backVars  == <<wk, ml, cron>>
envVars   == <<tripReady, faults>>
vars == <<sessVars, mediaVars, pinVars, queueVars, req, backVars, envVars>>

------------------------------------------------------------------------------
(* Tables and statements                                                    *)

Row    == {"UPLOADING", "PROCESSING", "READY_FOR_REVIEW"}
Status == Row \cup {"UNUSED", "DELETED"}
Reason == {"confirmed", "cancelled", "abandoned"}

IsOpen(s) == status[s] \in Row /\ closed[s] = "open"

ListByUploadSession(s) == {m \in rows : owner[m] = s}
ListByPinID(p)         == {m \in rows : pinOf[m] = p}

\* mutant: the DELETE forgets pin_id IS NULL
OrphansIgnoringPin(s)  == {m \in rows : owner[m] = s}
\* DELETE FROM media WHERE upload_session_id = $1 AND pin_id IS NULL
Orphans(s)             == {m \in rows : owner[m] = s /\ pinOf[m] = NoPin}

\* mutant: only the index on target_pin_id exists, which NULLs do not violate
ConflictOnAddition(t) == t # NoPin /\ \E s \in Session : IsOpen(s) /\ target[s] = t
\* The partial unique indexes of migration 00011, behind ON CONFLICT DO NOTHING.
Conflict(t) == \E s \in Session : IsOpen(s) /\ target[s] = t

\* mutant: the UPDATE forgets AND processing_status = expected_status
CanSetStatusAnyTime(s, expected) == IsOpen(s)
\* The WHERE clause of PinUploadSessionSetProcessingStatus.
CanSetStatus(s, expected) == IsOpen(s) /\ status[s] = expected

\* mutant: the UPDATE forgets AND closed_at IS NULL
CanSetSnapshotClosed(s) == status[s] \in Row
\* The WHERE clause of PinUploadSessionSetSnapshot.
CanSetSnapshot(s) == IsOpen(s)

\* Every UPDATE of a session row sets last_activity_at = NOW().
Touched(s) == stale' = [stale EXCEPT ![s] = FALSE]

\* mutant: the UPDATE forgets AND closed_at IS NULL
CloseRowAgain(s, reason) ==
  IF status[s] \in Row THEN closed' = [closed EXCEPT ![s] = reason] /\ Touched(s)
                       ELSE UNCHANGED <<closed, stale>>
\* PinUploadSessionClose; ErrPinUploadSessionNotFound is ignored by every caller.
CloseRow(s, reason) ==
  IF IsOpen(s) THEN closed' = [closed EXCEPT ![s] = reason] /\ Touched(s)
               ELSE UNCHANGED <<closed, stale>>

\* CommitPinUpload never fills content_hash, and nothing else writes it.
ContentHash(m) == "null"

\* RunPinUploadProcessing: session media whose hash an earlier one has.
Duplicates(new, old) ==
  {m \in new : /\ ContentHash(m) # "null"
               /\ \/ \E x \in old : ContentHash(x) = ContentHash(m)
                  \/ m # CHOOSE x \in new : ContentHash(x) = ContentHash(m)}

\* DELETE FROM pins: the sessions on the pin go with it (ON DELETE CASCADE),
\* media keep their rows and lose the references (ON DELETE SET NULL).
DeleteSessions(S) ==
  /\ status' = [s \in Session |-> IF s \in S THEN "DELETED" ELSE status[s]]
  /\ owner'  = [m \in Media |-> IF owner[m] \in S THEN NoSession ELSE owner[m]]

------------------------------------------------------------------------------
(* Request handlers                                                         *)

NoRequest == [op |-> "none", pc |-> "idle", sess |-> NoSession,
              pin |-> NoPin, ids |-> {}, cnt |-> 0]

Call(h, op, pc, s, p, ids, cnt) ==
  /\ op \in Ops
  /\ req[h].pc = "idle"
  /\ req' = [req EXCEPT ![h] = [op |-> op, pc |-> pc, sess |-> s, pin |-> p,
                                ids |-> ids, cnt |-> cnt]]

Goto(h, pc)  == req' = [req EXCEPT ![h].pc = pc]
Finish(h)    == req' = [req EXCEPT ![h] = NoRequest]
At(h, pc)    == req[h].pc = pc

\* mutant: a request does not look at closed_at
ActiveEvenClosed(s) == /\ status[s] \in Row
                       /\ tripReady
                       /\ target[s] # NoPin => pinRow[target[s]] = "LIVE"
\* assertActivePinUploadSession, for the initiator.
Active(s) == /\ IsOpen(s)
             /\ tripReady
             /\ target[s] # NoPin => pinRow[target[s]] = "LIVE"

\* assertTripCapacity for one more file.
Capacity == Cardinality(rows) < MaxMediaPerTrip

\* Bound: ids run out; a request that would need one more is not issued.
IdsLeft(free, pcs) ==
  Cardinality(free) > Cardinality({h \in Handler : req[h].pc \in pcs})
SessionIdsLeft == IdsLeft({s \in Session : status[s] = "UNUSED"}, {"create"})
MediaIdsLeft   == IdsLeft(Media \ used, {"lock", "insert"})
PinIdsLeft     == IdsLeft({p \in Pin : pinRow[p] = "UNUSED"}, {"select", "createPin"})

(* PinUploadStart: guards, then the INSERT. *)
PinUploadStart(h, t) ==
  /\ tripReady
  /\ t # NoPin => pinRow[t] = "LIVE"
  /\ Capacity
  /\ SessionIdsLeft
  /\ Call(h, "start", "create", NoSession, t, {}, 0)
  /\ UNCHANGED <<sessVars, mediaVars, pinVars, queueVars, backVars, envVars>>

CreateSession(h) ==
  LET t == req[h].pin IN
  /\ At(h, "create")
  /\ \/ /\ Conflict(t) \/ (t # NoPin /\ pinRow[t] # "LIVE")
        /\ UNCHANGED sessVars
     \/ \E s \in Session :
          /\ ~Conflict(t)
          /\ t # NoPin => pinRow[t] = "LIVE"
          /\ status[s] = "UNUSED"
          /\ status' = [status EXCEPT ![s] = "UPLOADING"]
          /\ target' = [target EXCEPT ![s] = t]
          /\ UNCHANGED <<closed, stale, draft>>
  /\ Finish(h)
  /\ UNCHANGED <<mediaVars, pinVars, queueVars, backVars, envVars>>

(* RequestPinUploadUrls: guards, presigned URLs, then Touch. *)
RequestPinUploadUrls(h, s) ==
  /\ Active(s) /\ Capacity
  /\ Call(h, "urls", "touch", s, NoPin, {}, 0)
  /\ UNCHANGED <<sessVars, mediaVars, pinVars, queueVars, backVars, envVars>>

TouchSession(h) ==
  LET s == req[h].sess IN
  /\ At(h, "touch")
  /\ IF IsOpen(s) THEN Touched(s) ELSE UNCHANGED stale
  /\ Finish(h)
  /\ UNCHANGED <<status, target, closed, draft, mediaVars, pinVars, queueVars, backVars, envVars>>

(* CommitPinUpload: guards, then the transaction of CommitInUploadSession,  *)
(* which holds the advisory lock of the session from COUNT to COMMIT.       *)
CommitPinUpload(h, s) ==
  /\ Active(s)
  /\ MediaIdsLeft
  /\ Call(h, "commit", "lock", s, NoPin, {}, 0)
  /\ UNCHANGED <<sessVars, mediaVars, pinVars, queueVars, backVars, envVars>>

\* mutant: no advisory lock
LockAlwaysFree(s) == s \in Session
LockFree(s) == ~ \E g \in Handler : At(g, "insert") /\ req[g].sess = s

LockAndCount(h) ==
  LET n == Cardinality(rows) IN
  /\ At(h, "lock")
  /\ LockFree(req[h].sess)
  /\ IF n >= MaxMediaPerTrip
       THEN Finish(h)
       ELSE req' = [req EXCEPT ![h].pc = "insert", ![h].cnt = n]
  /\ UNCHANGED <<sessVars, mediaVars, pinVars, queueVars, backVars, envVars>>

InsertMedia(h) ==
  LET s == req[h].sess IN
  /\ At(h, "insert")
  /\ \/ status[s] \notin Row      \* the foreign key refuses the INSERT
        /\ UNCHANGED <<mediaVars, stale>>
     \/ \E m \in Media \ used :
          /\ status[s] \in Row
          /\ rows' = rows \cup {m}
          /\ used' = used \cup {m}
          /\ owner' = [owner EXCEPT ![m] = s]
          /\ pinOf' = [pinOf EXCEPT ![m] = NoPin]
          /\ Touched(s)
  /\ Finish(h)
  /\ UNCHANGED <<status, target, closed, draft, pinVars, queueVars, backVars, envVars>>

(* ProcessPinUpload: guards, CAS UPLOADING -> PROCESSING, then XADD. *)
ProcessPinUpload(h, s) ==
  /\ Active(s)
  /\ status[s] = "UPLOADING"
  /\ Call(h, "process", "claim", s, NoPin, {}, 0)
  /\ UNCHANGED <<sessVars, mediaVars, pinVars, queueVars, backVars, envVars>>

ClaimProcessing(h) ==
  LET s == req[h].sess IN
  /\ At(h, "claim")
  /\ IF CanSetStatus(s, "UPLOADING")
       THEN /\ status' = [status EXCEPT ![s] = "PROCESSING"]
            /\ Touched(s)
            /\ Goto(h, "publish")
       ELSE /\ UNCHANGED <<status, stale>>
            /\ Finish(h)
  /\ UNCHANGED <<target, closed, draft, mediaVars, pinVars, queueVars, backVars, envVars>>

AddPinUploadTask(h) ==
  /\ At(h, "publish")
  /\ stream' = Append(stream, req[h].sess)
  /\ Finish(h)
  /\ UNCHANGED <<sessVars, mediaVars, pinVars, mlq, backVars, envVars>>

(* FinalizePinUpload: guards, media_to_delete, reload, then the branch. *)
FinalizePinUpload(h, s) ==
  /\ Active(s)
  /\ status[s] = "READY_FOR_REVIEW"
  /\ target[s] = NoPin => PinIdsLeft
  /\ Call(h, "finalize", "select", s, target[s], {}, 0)
  /\ UNCHANGED <<sessVars, mediaVars, pinVars, queueVars, backVars, envVars>>

\* DeleteByIDs(media_to_delete of the session), then ListByUploadSession.
\* A creation must keep a media and pass the validation of its fields; an
\* addition must still find its pin.  Otherwise the handler ends here.
SelectMedia(h) ==
  LET s == req[h].sess
      creation == req[h].pin = NoPin
  IN /\ At(h, "select")
     /\ \E del \in SUBSET ListByUploadSession(s) :
          LET remaining == ListByUploadSession(s) \ del IN
          /\ rows' = rows \ del
          /\ \/ /\ creation /\ remaining # {}
                /\ req' = [req EXCEPT ![h].pc = "createPin", ![h].ids = remaining]
             \/ /\ ~creation /\ pinRow[req[h].pin] = "LIVE"
                /\ req' = [req EXCEPT ![h].ids = remaining,
                                      ![h].pc = IF remaining = {} THEN "confirm" ELSE "attach"]
             \/ /\ ~creation => pinRow[req[h].pin] # "LIVE"
                /\ Finish(h)
     /\ UNCHANGED <<sessVars, used, owner, pinOf, pinVars, queueVars, backVars, envVars>>

CreatePin(h) ==
  /\ At(h, "createPin")
  /\ \E p \in Pin :
       /\ pinRow[p] = "UNUSED"
       /\ pinRow' = [pinRow EXCEPT ![p] = "LIVE"]
       /\ count' = [count EXCEPT ![p] = Cardinality(req[h].ids)]
       /\ req' = [req EXCEPT ![h].pin = p, ![h].pc = "attachNew"]
  /\ UNCHANGED <<sessVars, mediaVars, queueVars, backVars, envVars>>

\* UpdatePinIDByIDs touches the rows that still exist; if the pin is gone the
\* foreign key refuses it and the handler returns Internal.  A new pin is
\* refreshed from its media unless the client gave its place and times.
AttachMedia(h) ==
  LET p   == req[h].pin
      hit == req[h].ids \cap rows
  IN /\ req[h].pc \in {"attachNew", "attach"}
     /\ IF pinRow[p] # "LIVE" /\ hit # {}
          THEN UNCHANGED pinOf /\ Finish(h)
          ELSE /\ pinOf' = [m \in Media |-> IF m \in hit THEN p ELSE pinOf[m]]
               /\ \/ At(h, "attach") /\ Goto(h, "inc")
                  \/ At(h, "attachNew") /\ \E pc \in {"refresh", "confirm"} : Goto(h, pc)
     /\ UNCHANGED <<sessVars, rows, used, owner, pinVars, queueVars, backVars, envVars>>

\* mutant: one media is assumed
OneAttached(h) == 1
Attached(h) == Cardinality(req[h].ids)

\* IncMediaCount; a failure is only logged.
IncMediaCount(h) ==
  LET p == req[h].pin IN
  /\ At(h, "inc")
  /\ count' = IF pinRow[p] = "LIVE"
                THEN [count EXCEPT ![p] = @ + Attached(h)] ELSE count
  /\ Goto(h, "refresh")
  /\ UNCHANGED <<sessVars, mediaVars, pinRow, queueVars, backVars, envVars>>

\* updatePinTimesAndLocation reads the whole pins row ...
ReadPin(h) ==
  LET p == req[h].pin IN
  /\ At(h, "refresh")
  /\ IF ListByPinID(p) # {} /\ pinRow[p] = "LIVE"
       THEN req' = [req EXCEPT ![h].pc = "save", ![h].cnt = count[p]]
       ELSE IF req[h].op = "finalize" THEN Goto(h, "confirm") ELSE Finish(h)
  /\ UNCHANGED <<sessVars, mediaVars, pinVars, queueVars, backVars, envVars>>

\* mutant: the UPDATE of pins leaves media_count alone
SavedCountKept(h) == count[req[h].pin]
\* ... and PinRepository.Update writes it back, media_count included.
SavedCount(h) == req[h].cnt

SavePin(h) ==
  LET p == req[h].pin IN
  /\ At(h, "save")
  /\ count' = IF pinRow[p] = "LIVE" THEN [count EXCEPT ![p] = SavedCount(h)] ELSE count
  /\ IF req[h].op = "finalize" THEN Goto(h, "confirm") ELSE Finish(h)
  /\ UNCHANGED <<sessVars, mediaVars, pinRow, queueVars, backVars, envVars>>

ConfirmSession(h) ==
  /\ At(h, "confirm")
  /\ CloseRow(req[h].sess, "confirmed")
  /\ Finish(h)
  /\ UNCHANGED <<status, target, draft, mediaVars, pinVars, queueVars, backVars, envVars>>

(* CancelPinUpload: guards, orphan cleanup, close. *)
CancelPinUpload(h, s) ==
  /\ Active(s)
  /\ Call(h, "cancel", "orphans", s, NoPin, {}, 0)
  /\ UNCHANGED <<sessVars, mediaVars, pinVars, queueVars, backVars, envVars>>

DeleteOrphans(h) ==
  /\ At(h, "orphans")
  /\ rows' = rows \ Orphans(req[h].sess)
  /\ Goto(h, "cancel")
  /\ UNCHANGED <<sessVars, used, owner, pinOf, pinVars, queueVars, backVars, envVars>>

CancelSession(h) ==
  /\ At(h, "cancel")
  /\ CloseRow(req[h].sess, "cancelled")
  /\ Finish(h)
  /\ UNCHANGED <<status, target, draft, mediaVars, pinVars, queueVars, backVars, envVars>>

\* mutant: the last media may go
MayRemoveLast(p) == Cardinality(ListByPinID(p)) >= 1
\* "pin must contain at least one media; delete pin instead"
MayRemove(p) == Cardinality(ListByPinID(p)) > 1

(* RemoveMediaFromPin: guards, DELETE, media_count - 1, refresh of the pin. *)
RemoveMediaFromPin(h, p, m) ==
  /\ tripReady
  /\ pinRow[p] = "LIVE"
  /\ m \in ListByPinID(p)
  /\ MayRemove(p)
  /\ Call(h, "remove", "deleteRow", NoSession, p, {m}, 0)
  /\ UNCHANGED <<sessVars, mediaVars, pinVars, queueVars, backVars, envVars>>

DeleteMediaRow(h) ==
  /\ At(h, "deleteRow")
  /\ rows' = rows \ req[h].ids
  /\ Goto(h, "dec")
  /\ UNCHANGED <<sessVars, used, owner, pinOf, pinVars, queueVars, backVars, envVars>>

\* mutant: no GREATEST(..., 0)
Minus1(n) == n - 1
Decremented(n) == IF n > 0 THEN n - 1 ELSE 0

DecMediaCount(h) ==
  LET p == req[h].pin IN
  /\ At(h, "dec")
  /\ count' = IF pinRow[p] = "LIVE" THEN [count EXCEPT ![p] = Decremented(@)] ELSE count
  /\ Goto(h, "refresh")
  /\ UNCHANGED <<sessVars, mediaVars, pinRow, queueVars, backVars, envVars>>

(* UpdatePin: the row is read with the guards and written back whole. *)
UpdatePin(h, p) ==
  /\ tripReady
  /\ pinRow[p] = "LIVE"
  /\ Call(h, "update", "save", NoSession, p, {}, count[p])
  /\ UNCHANGED <<sessVars, mediaVars, pinVars, queueVars, backVars, envVars>>

\* GetActiveAdditionForPin
ActiveAddition(p) == \E s \in Session : IsOpen(s) /\ target[s] = p

(* DeletePin, full mode: guards, media of the pin, then the pin.  It does   *)
(* not ask for a READY trip.                                                *)
DeletePin(h, p) ==
  /\ pinRow[p] = "LIVE"
  /\ ~ActiveAddition(p)
  /\ Call(h, "delete", "deleteMedia", NoSession, p, {}, 0)
  /\ UNCHANGED <<sessVars, mediaVars, pinVars, queueVars, backVars, envVars>>

DeletePinMedia(h) ==
  /\ At(h, "deleteMedia")
  /\ rows' = rows \ ListByPinID(req[h].pin)
  /\ Goto(h, "deletePin")
  /\ UNCHANGED <<sessVars, used, owner, pinOf, pinVars, queueVars, backVars, envVars>>

DeletePinRow(h) ==
  LET p == req[h].pin
      S == {s \in Session : status[s] \in Row /\ target[s] = p}
  IN /\ At(h, "deletePin")
     /\ IF pinRow[p] = "LIVE"
          THEN /\ pinRow' = [pinRow EXCEPT ![p] = "DELETED"]
               /\ pinOf' = [m \in Media |-> IF pinOf[m] = p THEN NoPin ELSE pinOf[m]]
               /\ DeleteSessions(S)
          ELSE UNCHANGED <<pinRow, pinOf, status, owner>>
     /\ Finish(h)
     /\ UNCHANGED <<target, closed, stale, draft, rows, used, count, queueVars, backVars, envVars>>

\* A statement fails, the request's context is cancelled or the process dies:
\* the handler stops where it is and its open transaction is rolled back.
HandlerFails(h) ==
  /\ req[h].pc # "idle"
  /\ "handler" \in FaultKinds /\ faults < MaxFaults
  /\ faults' = faults + 1
  /\ Finish(h)
  /\ UNCHANGED <<sessVars, mediaVars, pinVars, queueVars, backVars, tripReady>>

------------------------------------------------------------------------------
(* RunPinUploadConsumer                                                     *)

NoBatch == [pc |-> "idle", batch |-> <<>>]

\* XREADGROUP ">": entries move to this consumer's pending list for good.
ReadTasks(w) ==
  /\ wk[w].pc = "idle"
  /\ stream # <<>>
  /\ wk' = [wk EXCEPT ![w] = [pc |-> "dedup", batch |-> stream]]
  /\ stream' = <<>>
  /\ UNCHANGED <<sessVars, mediaVars, pinVars, mlq, req, ml, cron, envVars>>

Step(w, pc) == wk' = [wk EXCEPT ![w].pc = pc]
\* XACK and on to the next message of the batch.
Ack(w) == LET rest == Tail(wk[w].batch) IN
          wk' = [wk EXCEPT ![w] = IF rest = <<>> THEN NoBatch
                                  ELSE [pc |-> "dedup", batch |-> rest]]

\* mutant: a task whose media are gone is acked without the CAS
DedupWithMedia(w) ==
  LET s   == Head(wk[w].batch)
      old == IF target[s] = NoPin THEN {} ELSE ListByPinID(target[s])
  IN /\ wk[w].pc = "dedup"
     /\ IF status[s] \in Row /\ ListByUploadSession(s) # {}
          THEN rows' = rows \ Duplicates(ListByUploadSession(s), old) /\ Step(w, "snapshot")
          ELSE UNCHANGED rows /\ Ack(w)
     /\ UNCHANGED <<sessVars, used, owner, pinOf, pinVars, queueVars, req, ml, cron, envVars>>
\* RunPinUploadProcessing, first half: dedup against session and pin media.
\* A missing session row is an error whose fallback CAS finds nothing.
DedupMedia(w) ==
  LET s   == Head(wk[w].batch)
      old == IF target[s] = NoPin THEN {} ELSE ListByPinID(target[s])
  IN /\ wk[w].pc = "dedup"
     /\ IF status[s] \in Row
          THEN rows' = rows \ Duplicates(ListByUploadSession(s), old) /\ Step(w, "snapshot")
          ELSE UNCHANGED rows /\ Ack(w)
     /\ UNCHANGED <<sessVars, used, owner, pinOf, pinVars, queueVars, req, ml, cron, envVars>>

\* Second half: list what remains and SetDraftSnapshot ...
SaveSnapshot(w) ==
  LET s == Head(wk[w].batch) IN
  /\ wk[w].pc = "snapshot"
  /\ IF CanSetSnapshot(s)
       THEN /\ draft' = [draft EXCEPT ![s] = [built |-> TRUE, merged |-> 0]]
            /\ Touched(s)
       ELSE UNCHANGED <<draft, stale>>
  /\ Step(w, "ready")
  /\ UNCHANGED <<status, target, closed, mediaVars, pinVars, queueVars, req, ml, cron, envVars>>

\* ... then CAS PROCESSING -> READY_FOR_REVIEW; only the winner announces it.
SetReady(w) ==
  LET s == Head(wk[w].batch) IN
  /\ wk[w].pc = "ready"
  /\ IF CanSetStatus(s, "PROCESSING")
       THEN /\ status' = [status EXCEPT ![s] = "READY_FOR_REVIEW"]
            /\ Touched(s)
            /\ Step(w, "announce")
       ELSE UNCHANGED <<status, stale>> /\ Ack(w)
  /\ UNCHANGED <<target, closed, draft, mediaVars, pinVars, queueVars, req, ml, cron, envVars>>

\* publishPinUploadMLTask (nothing to send without media; a publish error is
\* swallowed) and the WS event.  The ML service answers every task it gets.
Announce(w) ==
  LET s == Head(wk[w].batch) IN
  /\ wk[w].pc = "announce"
  /\ \/ /\ ListByUploadSession(s) # {}
        /\ mlq' = [mlq EXCEPT ![s] = MaxDeliver]
        /\ UNCHANGED faults
     \/ /\ ListByUploadSession(s) = {}
        /\ UNCHANGED <<mlq, faults>>
     \/ /\ "ml" \in FaultKinds /\ faults < MaxFaults
        /\ faults' = faults + 1
        /\ UNCHANGED mlq
  /\ Ack(w)
  /\ UNCHANGED <<sessVars, mediaVars, pinVars, stream, req, ml, cron, tripReady>>

\* mutant: no fallback
OnErrorDrop(w) == Ack(w)
OnError(w) == Step(w, "ready")

\* RunPinUploadProcessing returns an error: processPinUploadMessage falls back
\* to the CAS without a snapshot.
WorkerError(w) ==
  /\ wk[w].pc \in {"dedup", "snapshot"}
  /\ "error" \in FaultKinds /\ faults < MaxFaults
  /\ faults' = faults + 1
  /\ OnError(w)
  /\ UNCHANGED <<sessVars, mediaVars, pinVars, queueVars, req, ml, cron, tripReady>>

\* The fallback fails too, or the handler panics: the message is acked anyway.
WorkerDrops(w) ==
  /\ wk[w].pc # "idle"
  /\ "crash" \in FaultKinds /\ faults < MaxFaults
  /\ faults' = faults + 1
  /\ Ack(w)
  /\ UNCHANGED <<sessVars, mediaVars, pinVars, queueVars, req, ml, cron, tripReady>>

\* The process dies: its pending entries are never claimed by anyone.
WorkerCrash(w) ==
  /\ wk[w].pc # "idle"
  /\ "crash" \in FaultKinds /\ faults < MaxFaults
  /\ faults' = faults + 1
  /\ wk' = [wk EXCEPT ![w] = NoBatch]
  /\ UNCHANGED <<sessVars, mediaVars, pinVars, queueVars, req, ml, cron, tripReady>>

------------------------------------------------------------------------------
(* HandleMLResult for the pin-upload flows                                  *)

NoResult == [pc |-> "idle", sess |-> NoSession, old |-> "UPLOADING",
             draft |-> [built |-> FALSE, merged |-> 0]]

\* Delivery: the session is read once; closed_at is not looked at.
DeliverResult(s) ==
  /\ ml.pc = "idle"
  /\ mlq[s] > 0
  /\ IF status[s] \in {"PROCESSING", "READY_FOR_REVIEW"}
       THEN /\ mlq' = [mlq EXCEPT ![s] = @ - 1]
            /\ ml' = [pc |-> "merge", sess |-> s, old |-> status[s], draft |-> draft[s]]
       ELSE mlq' = [mlq EXCEPT ![s] = 0] /\ UNCHANGED ml
  /\ UNCHANGED <<sessVars, mediaVars, pinVars, stream, req, wk, cron, envVars>>

\* SetDraftSnapshot of the snapshot read before, with the result appended.
MergeResult ==
  LET s == ml.sess IN
  /\ ml.pc = "merge"
  /\ IF CanSetSnapshot(s)
       THEN /\ draft' = [draft EXCEPT ![s] = [ml.draft EXCEPT !.merged = @ + 1]]
            /\ Touched(s)
       ELSE UNCHANGED <<draft, stale>>
  /\ ml' = [ml EXCEPT !.pc = "status"]
  /\ UNCHANGED <<status, target, closed, mediaVars, pinVars, queueVars, req, wk, cron, envVars>>

\* CAS if the session was PROCESSING, the WS event, then the ack: it reaches
\* JetStream and ends the deliveries, or is lost and the result comes again.
AckResult ==
  LET s == ml.sess IN
  /\ ml.pc = "status"
  /\ IF ml.old = "PROCESSING" /\ CanSetStatus(s, "PROCESSING")
       THEN status' = [status EXCEPT ![s] = "READY_FOR_REVIEW"] /\ Touched(s)
       ELSE UNCHANGED <<status, stale>>
  /\ \/ mlq' = [mlq EXCEPT ![s] = 0]
     \/ UNCHANGED mlq
  /\ ml' = NoResult
  /\ UNCHANGED <<target, closed, draft, mediaVars, pinVars, stream, req, wk, cron, envVars>>

------------------------------------------------------------------------------
(* RunPinUploadCleanupOnce, every 15 minutes                                *)

NoPass == [pc |-> "idle", todo |-> {}, sess |-> NoSession]

\* mutant: only sessions still uploading are listed
AbandonedUploading(s) == IsOpen(s) /\ stale[s] /\ status[s] = "UPLOADING"
\* The WHERE clause of PinUploadSessionListAbandoned.
Abandoned(s) == IsOpen(s) /\ stale[s]

ListAbandoned ==
  /\ "cleanup" \in Ops
  /\ cron.pc = "idle"
  /\ \E s \in Session : Abandoned(s)
  /\ cron' = [NoPass EXCEPT !.pc = "next", !.todo = {s \in Session : Abandoned(s)}]
  /\ UNCHANGED <<sessVars, mediaVars, pinVars, queueVars, req, wk, ml, envVars>>

CleanOrphans(s) ==
  /\ cron.pc = "next"
  /\ s \in cron.todo
  /\ rows' = rows \ Orphans(s)
  /\ cron' = [pc |-> "close", todo |-> cron.todo \ {s}, sess |-> s]
  /\ UNCHANGED <<sessVars, used, owner, pinOf, pinVars, queueVars, req, wk, ml, envVars>>

CloseAbandoned ==
  /\ cron.pc = "close"
  /\ CloseRow(cron.sess, "abandoned")
  /\ cron' = IF cron.todo = {} THEN NoPass
             ELSE [cron EXCEPT !.pc = "next", !.sess = NoSession]
  /\ UNCHANGED <<status, target, draft, mediaVars, pinVars, queueVars, req, wk, ml, envVars>>

InFlight(s) == \/ \E h \in Handler : req[h].sess = s
               \/ \E i \in DOMAIN stream : stream[i] = s
               \/ \E w \in Worker : \E i \in DOMAIN wk[w].batch : wk[w].batch[i] = s
               \/ mlq[s] > 0 \/ ml.sess = s \/ cron.sess = s \/ s \in cron.todo

\* DeleteClosedOlderThan(30 days): no request or message lives that long.
DeleteClosed(s) ==
  /\ "cleanup" \in Ops
  /\ status[s] \in Row
  /\ closed[s] # "open"
  /\ ~InFlight(s)
  /\ DeleteSessions({s})
  /\ UNCHANGED <<target, closed, stale, draft, rows, used, pinOf, pinVars, queueVars, req, backVars, envVars>>

------------------------------------------------------------------------------
(* Environment: time, and the other flows that move the trip's status       *)

SeventyTwoHours(s) ==
  /\ "cleanup" \in Ops
  /\ IsOpen(s) /\ ~stale[s]
  /\ stale' = [stale EXCEPT ![s] = TRUE]
  /\ UNCHANGED <<status, target, closed, draft, mediaVars, pinVars, queueVars, req, backVars, envVars>>

TripStatusChanges ==
  /\ "trip" \in Ops
  /\ tripReady' = ~tripReady
  /\ UNCHANGED <<sessVars, mediaVars, pinVars, queueVars, req, backVars, faults>>

------------------------------------------------------------------------------

Init ==
  /\ status = [s \in Session |-> "UNUSED"]
  /\ target = [s \in Session |-> NoPin]
  /\ closed = [s \in Session |-> "open"]
  /\ stale  = [s \in Session |-> FALSE]
  /\ draft  = [s \in Session |-> [built |-> FALSE, merged |-> 0]]
  /\ rows   = SeedMedia
  /\ used   = SeedMedia
  /\ owner  = [m \in Media |-> NoSession]
  /\ pinOf  = [m \in Media |-> IF m \in SeedMedia THEN SeedPin ELSE NoPin]
  /\ pinRow = [p \in Pin |-> IF p = SeedPin THEN "LIVE" ELSE "UNUSED"]
  /\ count  = [p \in Pin |-> IF p = SeedPin THEN Cardinality(SeedMedia) ELSE 0]
  /\ tripReady = TRUE
  /\ stream = <<>>
  /\ mlq    = [s \in Session |-> 0]
  /\ req    = [h \in Handler |-> NoRequest]
  /\ wk     = [w \in Worker |-> NoBatch]
  /\ ml     = NoResult
  /\ cron   = NoPass
  /\ faults = 0

HandlerStep(h) ==
  \/ CreateSession(h)  \/ TouchSession(h)    \/ LockAndCount(h)   \/ InsertMedia(h)
  \/ ClaimProcessing(h) \/ AddPinUploadTask(h) \/ SelectMedia(h)  \/ CreatePin(h)
  \/ AttachMedia(h)    \/ IncMediaCount(h)   \/ ReadPin(h)        \/ SavePin(h)
  \/ ConfirmSession(h) \/ DeleteOrphans(h)   \/ CancelSession(h)  \/ DeleteMediaRow(h)
  \/ DecMediaCount(h)  \/ DeletePinMedia(h)  \/ DeletePinRow(h)

Request(h) ==
  \/ \E t \in Pin \cup {NoPin} : PinUploadStart(h, t)
  \/ \E s \in Session : \/ RequestPinUploadUrls(h, s) \/ CommitPinUpload(h, s)
                        \/ ProcessPinUpload(h, s)     \/ FinalizePinUpload(h, s)
                        \/ CancelPinUpload(h, s)
  \/ \E p \in Pin : \/ UpdatePin(h, p) \/ DeletePin(h, p)
                    \/ \E m \in Media : RemoveMediaFromPin(h, p, m)

WorkerStep(w) == \/ ReadTasks(w) \/ DedupMedia(w) \/ SaveSnapshot(w)
                 \/ SetReady(w)  \/ Announce(w)

ResultStep == (\E s \in Session : DeliverResult(s)) \/ MergeResult \/ AckResult

CleanupStep == ListAbandoned \/ (\E s \in Session : CleanOrphans(s)) \/ CloseAbandoned

Fault == \/ \E h \in Handler : HandlerFails(h)
         \/ \E w \in Worker : WorkerError(w) \/ WorkerDrops(w) \/ WorkerCrash(w)

Environment == \/ \E s \in Session : SeventyTwoHours(s) \/ DeleteClosed(s)
               \/ TripStatusChanges

Next == \/ \E h \in Handler : Request(h) \/ HandlerStep(h)
        \/ \E w \in Worker : WorkerStep(w)
        \/ ResultStep \/ CleanupStep \/ Fault \/ Environment

Spec == Init /\ [][Next]_vars

\* Handlers run to completion or fail (a Fault), consumers poll in a loop, the
\* JetStream consumer is driven by the broker and the cron by a ticker.
Fairness == /\ \A h \in Handler : WF_vars(HandlerStep(h))
            /\ \A w \in Worker : WF_vars(WorkerStep(w))
            /\ WF_vars(ResultStep)
            /\ WF_vars(CleanupStep)

FairSpec == Spec /\ Fairness

------------------------------------------------------------------------------
(* Properties                                                               *)

PCs == {"idle", "create", "touch", "lock", "insert", "claim", "publish", "select",
        "createPin", "attachNew", "attach", "inc", "refresh", "save", "confirm",
        "orphans", "cancel", "deleteRow", "dec", "deleteMedia", "deletePin"}
Operations == {"none", "start", "urls", "commit", "process", "finalize", "cancel",
               "remove", "update", "delete"}
Requests == [op : Operations, pc : PCs, sess : Session \cup {NoSession},
             pin : Pin \cup {NoPin}, ids : SUBSET Media, cnt : Nat]
Batches == [pc : {"idle", "dedup", "snapshot", "ready", "announce"}, batch : Seq(Session)]
Drafts == [built : BOOLEAN, merged : Nat]

SessionsOK == /\ status \in [Session -> Status]
              /\ target \in [Session -> Pin \cup {NoPin}]
              /\ closed \in [Session -> Reason \cup {"open"}]
              /\ stale \in [Session -> BOOLEAN]
              /\ draft \in [Session -> Drafts]
MediaOK    == /\ rows \subseteq used /\ used \subseteq Media
              /\ owner \in [Media -> Session \cup {NoSession}]
              /\ pinOf \in [Media -> Pin \cup {NoPin}]
PinsOK     == /\ pinRow \in [Pin -> {"UNUSED", "LIVE", "DELETED"}]
              /\ count \in [Pin -> Nat]
QueuesOK   == stream \in Seq(Session) /\ mlq \in [Session -> Nat]
RequestsOK == req \in [Handler -> Requests]
WorkersOK  == wk \in [Worker -> Batches]
BackOK     == /\ ml \in [pc : {"idle", "merge", "status"}, old : Row, draft : Drafts,
                         sess : Session \cup {NoSession}]
              /\ cron \in [pc : {"idle", "next", "close"}, todo : SUBSET Session,
                           sess : Session \cup {NoSession}]
EnvOK      == tripReady \in BOOLEAN /\ faults \in 0..MaxFaults

\* Types of the tables, the queues and the local state of every actor: no step,
\* however late its reads are, writes a value the schema would refuse.
TypeOK == /\ SessionsOK /\ MediaOK /\ PinsOK /\ QueuesOK
          /\ RequestsOK /\ WorkersOK /\ BackOK /\ EnvOK

\* Two PinUploadStart calls in a race never open two sessions on one target
\* (the trip for creations, the pin for additions).
UniqueActive == \A s, x \in Session :
                  IsOpen(s) /\ IsOpen(x) /\ target[s] = target[x] => s = x

Occurrences(s) == {<<0, i>> : i \in {j \in DOMAIN stream : stream[j] = s}}
  \cup UNION {{<<w, i>> : i \in {j \in DOMAIN wk[w].batch : wk[w].batch[j] = s}} : w \in Worker}

\* However often ProcessPinUpload is called, a session is scheduled once: it is
\* never at two places of the task queue and the consumers.
AtMostOneTask == \A s \in Session : Cardinality(Occurrences(s)) <= 1

\* A session in PROCESSING has somebody who will move it on: the request about
\* to publish the task, the task, or a consumer holding it - unless a step failed.
ProcessingIsOwned ==
  \A s \in Session :
    IsOpen(s) /\ status[s] = "PROCESSING" /\ (faults = 0 \/ FaultKinds \subseteq {"error"}) =>
      \/ Occurrences(s) # {}
      \/ \E h \in Handler : req[h].sess = s /\ At(h, "publish")

\* Once a session is closed its row does not change until it is deleted, whoever
\* still works on it: late consumers, ML results, second requests, the cron.
ClosedIsFinal ==
  [][\A s \in Session : status[s] \in Row /\ closed[s] # "open" =>
       /\ closed'[s] = closed[s] /\ draft'[s] = draft[s] /\ target'[s] = target[s]
       /\ status'[s] \in {status[s], "DELETED"}]_vars

Deleting(m) == \E h \in Handler :
                  \/ At(h, "select") /\ owner[m] = req[h].sess
                  \/ At(h, "deleteRow") /\ m \in req[h].ids
                  \/ At(h, "deleteMedia") /\ pinOf[m] = req[h].pin

\* A photo that belongs to a pin disappears only because a user asked for it:
\* cancel, the consumer's dedup and the cleanup cron never take it.
AttachedIsKept ==
  [][\A m \in rows \ rows' : pinOf[m] # NoPin => Deleting(m)]_vars

\* The trip never holds more media than the limit (README: at most 500 media).
TripWithinLimit == Cardinality(rows) <= MaxMediaPerTrip

Building(p) == \E h \in Handler : req[h].pin = p /\ req[h].pc \in {"attachNew", "deletePin"}

\* A pin always has at least one media (README, finalizePinUploadCreation).
NoEmptyPin == \A p \in Pin : pinRow[p] = "LIVE" /\ ~Building(p) => ListByPinID(p) # {}

\* With no request at work on a pin, media_count is the number of its media.
CountAccurate ==
  \A p \in Pin : pinRow[p] = "LIVE" /\ (\A h \in Handler : req[h].pin # p) =>
    count[p] = Cardinality(ListByPinID(p))

\* A closed session leaves no media without a pin behind.
ClosedHasNoOrphans ==
  \A s \in Session : status[s] \in Row /\ closed[s] # "open" => Orphans(s) = {}

\* A session handed to ProcessPinUpload becomes reviewable or is closed.
Processed ==
  \A s \in Session : (IsOpen(s) /\ status[s] = "PROCESSING") ~>
                       (status[s] = "READY_FOR_REVIEW" \/ ~IsOpen(s))

\* A session nobody uses is closed by the cron, in whatever state it was left.
AbandonedIsClosed ==
  \A s \in Session : (IsOpen(s) /\ stale[s]) ~> (~IsOpen(s) \/ ~stale[s])

\* The promise of UploadSession.
Life == INSTANCE UploadSession WITH
          Session <- Session, Pin <- Pin, NoPin <- NoPin,
          status <- status, target <- target, closed <- closed
ImplementsLifecycle == Life!LifeSpec
=============================================================================
