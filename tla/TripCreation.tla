---------------------------- MODULE TripCreation ----------------------------
(***************************************************************************)
(* The creation of a trip: the client's photos are grouped, the groups     *)
(* become pins, the ML service is asked about them over NATS, its result   *)
(* moves the trip to review and is announced on the trip's event stream,   *)
(* which the gateway relays to websockets, and the client finalizes.  With *)
(* ML off the handler itself moves the trip to review.  A trip that is     *)
(* ready may be processed a second time by the add-media flow.  Each step  *)
(* is one statement, with the reads made just before it.                   *)
(***************************************************************************)
EXTENDS Naturals, Sequences, FiniteSets

CONSTANTS Media,      \* rows of media, by the order of their creation
          Pin,        \* rows of pins
          Handler,    \* requests in flight at once
          Client,     \* websocket clients
          NoPin,
          Ops,        \* the requests clients issue
          Modes,      \* "ml", "sync": whether ML_ENABLED is set
          MaxMediaPerTrip,
          MaxFaults,  \* bound on errors, crashes and lost publications
          MaxEvents   \* bound on the events ever put on the stream

ASSUME NullsAssumption == NoPin \notin Pin
ASSUME PlacesAssumption == {"UNUSED", "DELETED"} \cap (Pin \cup {NoPin}) = {}
ASSUME MediaAssumption == IsFiniteSet(Media)
ASSUME LimitAssumption == {MaxMediaPerTrip, MaxFaults, MaxEvents} \subseteq Nat

VARIABLES
  mode,     \* the processing strategy chosen at start
  status,   \* trips.status
  place,    \* per media: UNUSED, DELETED, NoPin or the pin_id
  pins,     \* rows of pins
  count,    \* pins.media_count
  name,     \* pins.name: default, user or ml
  req,      \* the requests in flight
  tasks,    \* ML tasks published and not taken: the pins in each
  results,  \* the stream of ML results
  con,      \* the consumer of ML results
  log,      \* all TRIP_PROCESSING_COMPLETED put on the trip's stream: their status
  base,     \* how many of them the stream no longer holds
  conn,     \* the websockets
  faults

tripVars   == <<mode, status, place, pins, count, name>>
mlVars     == <<tasks, results, con>>
streamVars == <<log, base>>
vars == <<tripVars, req, mlVars, streamVars, conn, faults>>

------------------------------------------------------------------------------

Rows == {m \in Media : place[m] \in Pin \cup {NoPin}}
InPin(p) == {m \in Media : place[m] = p}
Processing == {"PROCESSING", "ADD_MEDIA_PROCESSING"}

NoRequest == [pc |-> "idle", media |-> {}, group |-> [m \in Media |-> NoPin],
              rename |-> {}]
Idle(h) == req[h].pc = "idle"
At(h, pc) == req[h].pc = pc
Goto(h, pc) == req' = [req EXCEPT ![h].pc = pc]
Finish(h) == req' = [req EXCEPT ![h] = NoRequest]

SetStatus(s) == status' = s

NoDelivery == [pc |-> "idle", todo |-> {}, target |-> "none"]
NoSocket   == [on |-> FALSE, pos |-> 0, got |-> "none"]

\* Where finalizeProcessing takes a trip.
Target == [s \in Processing |-> IF s = "PROCESSING" THEN "DRAFT_FINAL_REVIEW"
                                                    ELSE "ADD_MEDIA_DRAFT_FINAL_REVIEW"]

\* What an XREAD from the client's position finds.
Unread(c) == {i \in 1..Len(log) : i > base /\ i > conn[c].pos}

Fault == faults < MaxFaults /\ faults' = faults + 1

------------------------------------------------------------------------------
(* ProcessMediaGrouping: the count, one INSERT of all rows, the status.     *)
\* DRAFT stands for UPLOADING too, which CreateTrip writes when the client
\* announced files.

ProcessMediaGrouping(h, ms) ==
  /\ "group" \in Ops /\ Idle(h)
  /\ status = "DRAFT"
  /\ ms \subseteq {m \in Media : place[m] = "UNUSED"}
  /\ Cardinality(Rows) + Cardinality(ms) <= MaxMediaPerTrip
  /\ req' = [req EXCEPT ![h].pc = "insert", ![h].media = ms]
  /\ UNCHANGED <<tripVars, mlVars, streamVars, conn, faults>>

CreateBatch(h) ==
  /\ At(h, "insert")
  /\ place' = [m \in Media |-> IF m \in req[h].media /\ place[m] = "UNUSED"
                                 THEN NoPin ELSE place[m]]
  /\ Goto(h, "setGrouping")
  /\ UNCHANGED <<mode, status, pins, count, name, mlVars, streamVars, conn, faults>>

SetGrouping(h) ==
  /\ At(h, "setGrouping")
  /\ SetStatus("DRAFT_GROUPING_REVIEW")
  /\ Finish(h)
  /\ UNCHANGED <<mode, place, pins, count, name, mlVars, streamVars, conn, faults>>

(* ApplyGroupsAndProcess: rejected media go, each draft pin becomes a pin.  *)
\* The client groups or rejects the media it was shown, and groups again what
\* a request that failed half-way has already put in a pin.
ApplyGroups(h, g, rejected) ==
  /\ "apply" \in Ops /\ Idle(h)
  /\ status = "DRAFT_GROUPING_REVIEW"
  /\ \A m \in Media : m \in rejected \/ g[m] # NoPin => m \in Rows
  /\ \A m \in rejected : g[m] = NoPin
  /\ \A m \in Media : g[m] \notin pins
  /\ req' = [req EXCEPT ![h].pc = "reject", ![h].media = rejected, ![h].group = g]
  /\ UNCHANGED <<tripVars, mlVars, streamVars, conn, faults>>

RejectMedia(h) ==
  /\ At(h, "reject")
  /\ place' = [m \in Media |-> IF m \in req[h].media THEN "DELETED" ELSE place[m]]
  /\ Goto(h, "createPin")
  /\ UNCHANGED <<mode, status, pins, count, name, mlVars, streamVars, conn, faults>>

ToCreate(h) == {p \in Pin \ pins : \E m \in Media : req[h].group[m] = p}

\* mutant: each pin is told to have all the media of the request
CountAllGroups(h, p) ==
  /\ At(h, "createPin") /\ p \in ToCreate(h)
  /\ pins' = pins \cup {p}
  /\ count' = [count EXCEPT ![p] = Cardinality({m \in Media : req[h].group[m] # NoPin})]
  /\ name' = [name EXCEPT ![p] = "default"]
  /\ Goto(h, "assign")
  /\ UNCHANGED <<mode, status, place, mlVars, streamVars, conn, faults>>
CreatePin(h, p) ==
  /\ At(h, "createPin") /\ p \in ToCreate(h)
  /\ pins' = pins \cup {p}
  /\ count' = [count EXCEPT ![p] = Cardinality({m \in Media : req[h].group[m] = p})]
  /\ name' = [name EXCEPT ![p] = "default"]
  /\ Goto(h, "assign")
  /\ UNCHANGED <<mode, status, place, mlVars, streamVars, conn, faults>>

AssignMedia(h) ==
  /\ At(h, "assign")
  /\ place' = [m \in Media |->
                 IF req[h].group[m] \in pins /\ m \in Rows THEN req[h].group[m] ELSE place[m]]
  /\ Goto(h, "createPin")
  /\ UNCHANGED <<mode, status, pins, count, name, mlVars, streamVars, conn, faults>>

SetProcessing(h) ==
  /\ At(h, "createPin") /\ ToCreate(h) = {}
  /\ SetStatus("PROCESSING")
  /\ Goto(h, IF mode = "ml" THEN "publishTask" ELSE "setReview")
  /\ UNCHANGED <<mode, place, pins, count, name, mlVars, streamVars, conn, faults>>

WithMedia == {p \in pins : InPin(p) # {}}

\* publishMLTask: nothing to send is no task.
PublishTask(h) ==
  /\ At(h, "publishTask")
  /\ tasks' = IF WithMedia = {} THEN tasks ELSE Append(tasks, WithMedia)
  /\ Finish(h)
  /\ UNCHANGED <<tripVars, results, con, streamVars, conn, faults>>

\* A task that cannot be published is logged and forgotten.
PublishTaskFails(h) ==
  /\ At(h, "publishTask") /\ Fault
  /\ Finish(h)
  /\ UNCHANGED <<tripVars, mlVars, streamVars, conn>>

------------------------------------------------------------------------------
(* The ML service (external), the consumer of its results, and              *)
(* finalizeProcessing, which the handler runs itself when ML is off.        *)

MLAnswers ==
  /\ tasks # <<>>
  /\ results' = Append(results, Head(tasks))
  /\ tasks' = Tail(tasks)
  /\ UNCHANGED <<tripVars, req, con, streamVars, conn, faults>>

Deliver ==
  /\ con.pc = "idle" /\ results # <<>>
  /\ con' = [NoDelivery EXCEPT !.pc = "suggest", !.todo = Head(results)]
  /\ UNCHANGED <<tripVars, req, tasks, results, streamVars, conn, faults>>

\* One suggestion: a category names the pin, no category leaves its name.
ApplySuggestion(p) ==
  /\ con.pc = "suggest" /\ p \in con.todo
  /\ \/ p \in pins /\ name' = [name EXCEPT ![p] = "ml"]
     \/ UNCHANGED name
  /\ con' = [con EXCEPT !.todo = @ \ {p}]
  /\ UNCHANGED <<mode, status, place, pins, count, req, tasks, results, streamVars, conn, faults>>

\* mutant: a trip in any status goes to review
ReviewAnyStatus ==
  /\ con.pc = "suggest" /\ con.todo = {}
  /\ con' = [con EXCEPT !.pc = "setReview", !.target = "DRAFT_FINAL_REVIEW"]
  /\ UNCHANGED <<tripVars, req, tasks, results, streamVars, conn, faults>>
\* FinalizeAfterMLResult: only a trip that is being processed goes on.
ReadStatus ==
  /\ con.pc = "suggest" /\ con.todo = {}
  /\ con' = IF status \in Processing
              THEN [con EXCEPT !.pc = "setReview", !.target = Target[status]]
              ELSE [con EXCEPT !.pc = "ack"]
  /\ UNCHANGED <<tripVars, req, tasks, results, streamVars, conn, faults>>

\* A step of finalizeProcessing, by the consumer or by a handler.
Finalizing(from, to) ==
  \/ /\ con.pc = from
     /\ con' = [con EXCEPT !.pc = to]
     /\ UNCHANGED <<req, tasks, results>>
  \/ \E h \in Handler : At(h, from) /\ Goto(h, to) /\ UNCHANGED mlVars
FinalStatus == IF con.pc \in {"setReview", "announce"} THEN con.target ELSE Target["PROCESSING"]

\* mutant: the status is not written
KeepStatus ==
  /\ Finalizing("setReview", "deleteStream")
  /\ UNCHANGED <<tripVars, streamVars, conn, faults>>
SetReview ==
  /\ Finalizing("setReview", "deleteStream")
  /\ status' = FinalStatus
  /\ UNCHANGED <<mode, place, pins, count, name, streamVars, conn, faults>>

DeleteTripEventStream ==
  /\ Finalizing("deleteStream", "announce")
  /\ base' = Len(log)
  /\ UNCHANGED <<tripVars, log, conn, faults>>

\* mutant: the stream is deleted after the event was added
AnnounceThenDelete ==
  /\ Finalizing("announce", "ack") /\ Len(log) < MaxEvents
  /\ log' = Append(log, FinalStatus)
  /\ base' = Len(log')
  /\ UNCHANGED <<tripVars, conn, faults>>
\* PublishTripEventWS
Announce ==
  /\ Finalizing("announce", "ack") /\ Len(log) < MaxEvents
  /\ log' = Append(log, FinalStatus)
  /\ UNCHANGED <<tripVars, base, conn, faults>>

\* The status cannot be written, which ends it, or the event cannot be sent,
\* which is only logged.
FinalizeFails ==
  /\ Finalizing("setReview", "ack") \/ Finalizing("announce", "ack")
  /\ Fault
  /\ UNCHANGED <<tripVars, streamVars, conn>>

\* mutant: the result is not acknowledged
NoAck ==
  /\ con.pc = "ack"
  /\ con' = NoDelivery
  /\ UNCHANGED <<tripVars, req, tasks, results, streamVars, conn, faults>>
Ack ==
  /\ con.pc = "ack"
  /\ results' = Tail(results)
  /\ con' = NoDelivery
  /\ UNCHANGED <<tripVars, req, tasks, streamVars, conn, faults>>

Answer(h) ==
  /\ At(h, "ack")
  /\ Finish(h)
  /\ UNCHANGED <<tripVars, mlVars, streamVars, conn, faults>>

\* The service stops before it acknowledged: NATS delivers the result again.
ConsumerCrashes ==
  /\ con.pc # "idle" /\ Fault
  /\ con' = NoDelivery
  /\ UNCHANGED <<tripVars, req, tasks, results, streamVars, conn>>

------------------------------------------------------------------------------
(* FinalizeTrip: the edits of the review and the status.  The cover it may  *)
(* choose is in TripCovers.                                                 *)

\* A trip that is still being processed can be finalized too.
FinalizeTrip(h, renamed, ms) ==
  /\ "finalize" \in Ops /\ Idle(h)
  /\ status \in {"DRAFT_FINAL_REVIEW", "PROCESSING"}
  /\ renamed \subseteq pins /\ ms \subseteq Rows
  /\ req' = [req EXCEPT ![h].pc = "rename", ![h].rename = renamed, ![h].media = ms]
  /\ UNCHANGED <<tripVars, mlVars, streamVars, conn, faults>>

RenamePin(h, p) ==
  /\ At(h, "rename") /\ p \in req[h].rename
  /\ name' = [name EXCEPT ![p] = "user"]
  /\ req' = [req EXCEPT ![h].rename = @ \ {p}]
  /\ UNCHANGED <<mode, status, place, pins, count, mlVars, streamVars, conn, faults>>

\* An unknown media ends the request, the pins already renamed.
DeleteMedia(h) ==
  /\ At(h, "rename") /\ req[h].rename = {}
  /\ IF req[h].media \subseteq Rows
       THEN /\ place' = [m \in Media |-> IF m \in req[h].media THEN "DELETED" ELSE place[m]]
            /\ Goto(h, "setReady")
       ELSE UNCHANGED place /\ Finish(h)
  /\ UNCHANGED <<mode, status, pins, count, name, mlVars, streamVars, conn, faults>>

SetReady(h) ==
  /\ At(h, "setReady")
  /\ SetStatus("READY")
  /\ Finish(h)
  /\ UNCHANGED <<mode, place, pins, count, name, mlVars, streamVars, conn, faults>>

\* An error, a cancelled context or a crash between two steps.
HandlerFails(h) ==
  /\ ~Idle(h) /\ Fault
  /\ Finish(h)
  /\ UNCHANGED <<tripVars, mlVars, streamVars, conn>>

------------------------------------------------------------------------------
(* The add-media flow, summarised (its own module is AddMedia): it          *)
(* processes the trip again.  ML suggests nothing for pins that are not new.*)

AddMediaApply ==
  /\ "addMedia" \in Ops /\ mode = "ml" /\ status = "READY"
  /\ SetStatus("ADD_MEDIA_PROCESSING")
  /\ tasks' = Append(tasks, {})
  /\ UNCHANGED <<mode, place, pins, count, name, req, results, con, streamVars, conn, faults>>

AddMediaConfirm ==
  /\ "addMedia" \in Ops /\ status = "ADD_MEDIA_DRAFT_FINAL_REVIEW"
  /\ SetStatus("READY")
  /\ UNCHANGED <<mode, place, pins, count, name, req, mlVars, streamVars, conn, faults>>

------------------------------------------------------------------------------
(* The gateway: each websocket reads the stream from its beginning.         *)

Connect(c) ==
  /\ ~conn[c].on
  /\ conn' = [conn EXCEPT ![c] = [NoSocket EXCEPT !.on = TRUE]]
  /\ UNCHANGED <<tripVars, req, mlVars, streamVars, faults>>

Read(c) ==
  /\ conn[c].on /\ Unread(c) # {}
  /\ \E i \in Unread(c) :
       /\ \A j \in Unread(c) : i <= j
       /\ conn' = [conn EXCEPT ![c].pos = i, ![c].got = log[i]]
  /\ UNCHANGED <<tripVars, req, mlVars, streamVars, faults>>

Disconnect(c) ==
  /\ conn[c].on
  /\ conn' = [conn EXCEPT ![c] = NoSocket]
  /\ UNCHANGED <<tripVars, req, mlVars, streamVars, faults>>

\* An hour without events; sockets have long read what there was.
StreamExpires ==
  /\ base < Len(log)
  /\ \A c \in Client : conn[c].on => Unread(c) = {}
  /\ base' = Len(log)
  /\ UNCHANGED <<tripVars, req, mlVars, log, conn, faults>>

------------------------------------------------------------------------------

Init ==
  /\ mode \in Modes
  /\ status = "DRAFT"
  /\ place = [m \in Media |-> "UNUSED"]
  /\ pins = {}
  /\ count = [p \in Pin |-> 0]
  /\ name = [p \in Pin |-> "default"]
  /\ req = [h \in Handler |-> NoRequest]
  /\ tasks = <<>> /\ results = <<>> /\ con = NoDelivery
  /\ log = <<>> /\ base = 0
  /\ conn = [c \in Client |-> NoSocket]
  /\ faults = 0

Request(h) ==
  \/ \E ms \in SUBSET Media :
       \/ ProcessMediaGrouping(h, ms)
       \/ \E g \in [Media -> Pin \cup {NoPin}] : ApplyGroups(h, g, ms)
       \/ \E renamed \in SUBSET Pin : FinalizeTrip(h, renamed, ms)

Step(h) ==
  \/ CreateBatch(h) \/ SetGrouping(h)
  \/ RejectMedia(h) \/ AssignMedia(h) \/ SetProcessing(h) \/ PublishTask(h) \/ Answer(h)
  \/ DeleteMedia(h) \/ SetReady(h)
  \/ \E p \in Pin : CreatePin(h, p) \/ RenamePin(h, p)

Consume == Deliver \/ ReadStatus \/ Ack \/ \E p \in Pin : ApplySuggestion(p)
FinalizeProcessing == SetReview \/ DeleteTripEventStream \/ Announce

Next ==
  \/ \E h \in Handler : Request(h) \/ Step(h) \/ PublishTaskFails(h) \/ HandlerFails(h)
  \/ MLAnswers \/ Consume \/ FinalizeProcessing \/ FinalizeFails \/ ConsumerCrashes
  \/ AddMediaApply \/ AddMediaConfirm
  \/ \E c \in Client : Connect(c) \/ Read(c) \/ Disconnect(c)
  \/ StreamExpires

Spec == Init /\ [][Next]_vars

\* Requests run to their end, NATS delivers, the ML service answers, the
\* gateway keeps reading; no client has to do anything.
Fairness ==
  /\ \A h \in Handler : WF_vars(Step(h))
  /\ WF_vars(MLAnswers) /\ WF_vars(Consume) /\ WF_vars(FinalizeProcessing)
  /\ \A c \in Client : WF_vars(Read(c))
FairSpec == Spec /\ Fairness

------------------------------------------------------------------------------
(* Properties                                                               *)

Quiet == \A h \in Handler : Idle(h)

\* The pins of a trip show what the client asked for when they are processed, and
\* when they are reviewed: each has the media it was given, and their number.  Only
\* a review that was finalized before it began may miss media: the client deleted
\* them, and the numbers stayed.  A request that failed half-way and was repeated
\* leaves empty pins behind: not with faults.
ReviewedPinsAreFull ==
  Quiet /\ faults = 0 /\ status \in {"PROCESSING", "DRAFT_FINAL_REVIEW"} =>
    \A p \in pins :
      \/ InPin(p) # {} /\ count[p] = Cardinality(InPin(p))
      \/ status = "DRAFT_FINAL_REVIEW" /\ mode = "ml" /\ Cardinality(InPin(p)) < count[p]

\* The trip is in review, or was announced to be.
Reviewed == status = "DRAFT_FINAL_REVIEW" \/ \E i \in 1..Len(log) : log[i] = "DRAFT_FINAL_REVIEW"

\* Once the review has come, no name the client gave, in the review or before, is
\* replaced by a suggestion of the ML service.  It may be while the trip is still
\* processed, or was finalized before its result came; and after a crash, when NATS
\* delivers the result again.
UserNameKept ==
  [][\A p \in Pin : Reviewed /\ faults = 0 /\ name[p] = "user" => name'[p] = "user"]_vars

\* A client that waits for the review of a new trip, and is told that processing
\* is completed, finds it so.
CompletedIsTrue ==
  [][\A c \in Client : conn'[c].pos > conn[c].pos /\ status = "PROCESSING"
       => conn'[c].got # Target[status]]_vars

\* The same of every processing of the trip: what a client reads is not the event
\* of an earlier one (finalizeProcessing's comment: the stream is deleted so that
\* XREAD from 0-0 does not pick up the event of an earlier session).
CompletedIsFresh ==
  [][\A c \in Client : conn'[c].pos > conn[c].pos /\ status \in Processing
       => conn'[c].got # Target[status]]_vars

\* A client that is connected while the trip is processed is told when it ends, if
\* nobody finalizes the trip before.
ClientLearns ==
  \A c \in Client :
    (status = "PROCESSING" /\ Quiet /\ faults = 0 /\ WithMedia # {} /\ conn[c].on)
      ~> (conn[c].got = "DRAFT_FINAL_REVIEW" \/ status = "READY" \/ ~conn[c].on \/ faults > 0)

\* A trip the client has finished does not go back to review: repeated transitions
\* from a status that is not PROCESSING are skipped (FinalizeAfterMLResult's comment).
ReadyIsKept == [][status = "READY" => status' # "DRAFT_FINAL_REVIEW"]_vars

\* The creation flow keeps its promise, also when requests fail half-way and
\* results are delivered again: no stage is gone back to, and a trip that is ready
\* is not touched, but for one: finalized after its result was found to be for a
\* trip in PROCESSING, and before that result wrote the review.
Overtaken == con.pc = "setReview" /\ con.target = "DRAFT_FINAL_REVIEW"
Stage == CASE status = "DRAFT" -> "collecting"
           [] status = "DRAFT_GROUPING_REVIEW" -> "grouping"
           [] status = "PROCESSING" -> "processing"
           [] status = "DRAFT_FINAL_REVIEW" -> "review"
           [] OTHER -> IF Overtaken THEN "overtaken" ELSE "ready"
Flow == INSTANCE TripLifecycle WITH
          stage <- Stage, photos <- Rows,
          pinOf <- [m \in Media |-> IF place[m] \in Pin THEN place[m] ELSE NoPin]
ImplementsLifecycle == Flow!Lifecycle
=============================================================================
