--------------------------- MODULE AddMediaProofs ---------------------------
(***************************************************************************)
(* What AddMedia guarantees for every number of participants, sessions,    *)
(* media, pins and requests in flight, and whatever fails; and, in the     *)
(* last part, what it guarantees to requests that wait for each other.     *)
(***************************************************************************)
EXTENDS AddMedia, TLAPS

------------------------------------------------------------------------------
(* The requests keep their type                                             *)

RequestsOK == req \in [Proc -> Requests]

\* A request that ends leaves an idle slot.
LEMMA FinishType == ASSUME RequestsOK, NEW c \in Proc, Finish(c)
                    PROVE  RequestsOK'
<1>1. NoRequest \in Requests
  BY DEF NoRequest, Requests, Operations, PCs
<1>2. QED
  BY <1>1 DEF RequestsOK, Finish

\* A request moves to another step of its handler.
LEMMA GotoType == ASSUME RequestsOK, NEW c \in Proc, NEW pc \in PCs, Goto(c, pc)
                  PROVE  RequestsOK'
BY DEF RequestsOK, Requests, Goto

\* A request enters a handler with what its guards have read.
LEMMA BeginType ==
  ASSUME RequestsOK, NEW c \in Proc, NEW op \in Operations, NEW pc \in PCs,
         NEW u \in User \cup {NoUser}, NEW s \in Session \cup {NoSession},
         NEW ids \in SUBSET Media, Begin(c, op, pc, u, s, ids)
  PROVE  RequestsOK'
<1> DEFINE r == [NoRequest EXCEPT !.op = op, !.pc = pc, !.by = u, !.sess = s, !.ids = ids]
<1>1. NoRequest \in Requests
  BY DEF NoRequest, Requests, Operations, PCs
<1>2. r \in Requests
  BY <1>1 DEF Requests
<1>3. req' = [req EXCEPT ![c] = r]
  BY DEF Begin
<1>4. QED
  BY <1>2, <1>3 DEF RequestsOK

\* Whether it leads or takes over, the request of a participant enters a handler.
LEMMA LeadType ==
  ASSUME RequestsOK, NEW c \in Proc, NEW op \in Operations, NEW pc \in PCs,
         NEW u \in User, NEW s \in Session, NEW ids \in SUBSET Media,
         Lead(c, op, pc, u, s, ids)
  PROVE  RequestsOK'
<1>1. "takeover" \in PCs
  BY DEF PCs
<1>2. QED
  BY <1>1, BeginType DEF Lead

\* The steps apply may go on with.
LEMMA AfterType == \A r : AfterDelete(r) \in PCs /\ AfterOld(r) \in PCs /\ AfterNew(r) \in PCs
BY DEF AfterDelete, AfterOld, AfterNew, PCs

\* The step after a failure that is only logged.
LEMMA LoggedType == \A pc \in DOMAIN Logged : Logged[pc] \in PCs
BY DEF Logged, PCs

------------------------------------------------------------------------------
(* Every step keeps the types                                               *)

\* A request is only taken in: the tables change in the steps that follow.
LEMMA RequestKeeps ==
  ASSUME NEW h \in Handler, Request(h)
  PROVE  UNCHANGED <<tripStatus, sessVars, mediaVars, pinVars, mlVars, todo, faults>>
<1>1. ASSUME NEW u, AddMediaStart(h, u)
      PROVE  UNCHANGED <<tripStatus, sessVars, mediaVars, pinVars, mlVars, todo, faults>>
  BY <1>1 DEF AddMediaStart
<1>2. ASSUME NEW u, NEW s \in Session,
             \/ AddMediaCommitUpload(h, u, s) \/ AddMediaProcessGrouping(h, u, s)
             \/ AddMediaTakeover(h, u, s)     \/ AddMediaCancel(h, u, s)
             \/ \E del \in SUBSET rows : AddMediaConfirm(h, u, s, del)
      PROVE  UNCHANGED <<tripStatus, sessVars, mediaVars, pinVars, mlVars, todo, faults>>
  BY <1>2 DEF AddMediaCommitUpload, AddMediaProcessGrouping, AddMediaTakeover, AddMediaCancel,
              AddMediaConfirm
<1>3. ASSUME NEW u, NEW s \in Session, NEW p, NEW del, NEW old, NEW new,
             AddMediaApplyGroups(h, u, s, p, del, old, new)
      PROVE  UNCHANGED <<tripStatus, sessVars, mediaVars, pinVars, mlVars, todo, faults>>
  BY <1>3 DEF AddMediaApplyGroups
<1>4. QED
  BY <1>1, <1>2, <1>3 DEF Request

\* Clients' calls change nothing but the slot of the request.
LEMMA RequestType == ASSUME TypeOK, NEW h \in Handler, Request(h)
                     PROVE  TypeOK'
<1>0. h \in Proc /\ RequestsOK
  BY DEF Proc, TypeOK, RequestsOK
<1>1. PICK u \in User :
        \/ AddMediaStart(h, u)
        \/ \E s \in Session :
             \/ AddMediaCommitUpload(h, u, s) \/ AddMediaProcessGrouping(h, u, s)
             \/ AddMediaTakeover(h, u, s)     \/ AddMediaCancel(h, u, s)
             \/ \E del \in SUBSET rows : AddMediaConfirm(h, u, s, del)
             \/ \E p \in {q \in Pin : pinRow[q] = "LIVE"} \cup {NoPin}, del, old, new \in SUBSET rows :
                  /\ p = NoPin <=> old = {}
                  /\ AddMediaApplyGroups(h, u, s, p, del, old, new)
  BY DEF Request
<1>2. UNCHANGED <<tripStatus, sessVars, mediaVars, pinVars, mlVars, todo, faults>>
  BY RequestKeeps
<1>3. SUFFICES RequestsOK'
  BY <1>2 DEF TypeOK, RequestsOK, sessVars, mediaVars, pinVars, mlVars
<1>4. rows \subseteq Media /\ \A s \in Session : existing[s] \subseteq Media
  BY DEF TypeOK
<1>5. CASE AddMediaStart(h, u)
  BY <1>0, <1>4, <1>5, BeginType DEF AddMediaStart, Operations, PCs
<1>6. ASSUME NEW s \in Session, AddMediaCommitUpload(h, u, s) \/ AddMediaProcessGrouping(h, u, s)
      PROVE  RequestsOK'
  BY <1>0, <1>6, BeginType DEF AddMediaCommitUpload, AddMediaProcessGrouping, Operations, PCs
<1>7. ASSUME NEW s \in Session, AddMediaTakeover(h, u, s)
      PROVE  RequestsOK'
  BY <1>0, <1>7, BeginType DEF AddMediaTakeover, Operations, PCs
<1>8. ASSUME NEW s \in Session, AddMediaCancel(h, u, s)
      PROVE  RequestsOK'
  BY <1>0, <1>4, <1>8, BeginType, LeadType DEF AddMediaCancel, Operations, PCs
<1>9. ASSUME NEW s \in Session, NEW del \in SUBSET rows, AddMediaConfirm(h, u, s, del)
      PROVE  RequestsOK'
  BY <1>0, <1>4, <1>9, LeadType DEF AddMediaConfirm, Operations, PCs
<1>10. ASSUME NEW s \in Session, NEW p \in Pin \cup {NoPin}, NEW del \in SUBSET rows,
              NEW old \in SUBSET rows, NEW new \in SUBSET rows,
              AddMediaApplyGroups(h, u, s, p, del, old, new)
       PROVE  RequestsOK'
  <2> DEFINE r == [op |-> "apply", pc |-> "delete", by |-> u, sess |-> s, pin |-> p,
                   ids |-> Requested(s, del), old |-> Requested(s, old), new |-> Requested(s, new)]
  <2>1. r \in Requests
    BY <1>4 DEF Requests, Requested, Operations, PCs
  <2>2. \A pc \in PCs : [r EXCEPT !.pc = pc] \in Requests
    BY <2>1 DEF Requests
  <2>3. req' = [req EXCEPT ![h] = IF r.ids # {} THEN r ELSE [r EXCEPT !.pc = AfterDelete(r)]]
    BY <1>10 DEF AddMediaApplyGroups
  <2>4. QED
    BY <1>0, <2>1, <2>2, <2>3, AfterType DEF RequestsOK
<1>11. QED
  BY <1>1, <1>5, <1>6, <1>7, <1>8, <1>9, <1>10

\* The steps that open a session, and those that write one.
LEMMA SessionStepType ==
  ASSUME TypeOK, NEW h \in Handler,
         \/ CreateSession(h)   \/ StartUploading(h)  \/ SetGroupingStatus(h)
         \/ TouchSession(h)    \/ AppendPending(h)   \/ StartProcessing(h)
         \/ AssignInitiator(h) \/ ExecuteTakeover(h)
  PROVE  TypeOK'
<1>0. h \in Proc /\ RequestsOK /\ req[h] \in Requests
  BY DEF Proc, TypeOK, RequestsOK
<1>1. ASSUME CreateSession(h)
      PROVE  TypeOK'
  <2>1. CASE Finish(h) /\ UNCHANGED <<state, existing>>
    BY <1>0, <1>1, <2>1, FinishType
       DEF CreateSession, TypeOK, RequestsOK, mediaVars, pinVars, mlVars
  <2>2. ASSUME NEW s \in Session,
               state' = [state EXCEPT ![s] = "open"],
               existing' = [existing EXCEPT ![s] = req[h].ids],
               req' = [req EXCEPT ![h].sess = s, ![h].pc = "uploading"]
        PROVE  TypeOK'
    <3>1. RequestsOK'
      BY <1>0, <2>2 DEF RequestsOK, Requests, PCs
    <3>2. req[h].ids \subseteq Media
      BY <1>0 DEF Requests
    <3>3. QED
      BY <1>1, <2>2, <3>1, <3>2
         DEF CreateSession, TypeOK, RequestsOK, mediaVars, pinVars, mlVars
  <2>3. QED
    BY <1>1, <2>1, <2>2 DEF CreateSession
<1>2. ASSUME StartUploading(h) \/ SetGroupingStatus(h) \/ StartProcessing(h)
      PROVE  TypeOK'
  <2>1. RequestsOK'
    BY <1>0, <1>2, FinishType, GotoType DEF StartUploading, SetGroupingStatus, StartProcessing, PCs
  <2>2. tripStatus' \in TripStatus
    BY <1>2 DEF StartUploading, SetGroupingStatus, StartProcessing, TripStatus
  <2>3. QED
    BY <1>2, <2>1, <2>2 DEF StartUploading, SetGroupingStatus, StartProcessing, TypeOK, RequestsOK,
                            sessVars, mediaVars, pinVars, mlVars
<1>3. ASSUME TouchSession(h)
      PROVE  TypeOK'
  <2>1. RequestsOK'
    BY <1>0, <1>3, FinishType DEF TouchSession
  <2>2. QED
    BY <1>3, <2>1 DEF TouchSession, Touch, TypeOK, RequestsOK, mediaVars, pinVars, mlVars
<1>4. ASSUME AppendPending(h)
      PROVE  TypeOK'
  <2>1. RequestsOK'
    BY <1>0, <1>4, GotoType DEF AppendPending, PCs
  <2>2. req[h].old \subseteq Media
    BY <1>0 DEF Requests
  <2>3. pending' \in [Session -> SUBSET Media]
    BY <1>4, <2>2 DEF AppendPending, TypeOK
  <2>4. QED
    BY <1>4, <2>1, <2>3 DEF AppendPending, TypeOK, RequestsOK, mediaVars, pinVars, mlVars
<1>5. ASSUME AssignInitiator(h) \/ ExecuteTakeover(h)
      PROVE  TypeOK'
  <2>1. RequestsOK'
    BY <1>0, <1>5, FinishType, GotoType DEF AssignInitiator, ExecuteTakeover, PCs
  <2>2. req[h].by \in User \cup {NoUser}
    BY <1>0 DEF Requests
  <2>3. /\ initiator' \in [Session -> User \cup {NoUser}]
        /\ overdue' \in [Session -> BOOLEAN]
        /\ stale' \in [Session -> BOOLEAN]
    BY <1>5, <2>2 DEF AssignInitiator, ExecuteTakeover, SetInitiator, TypeOK
  <2>4. QED
    BY <1>5, <2>1, <2>3 DEF AssignInitiator, ExecuteTakeover, TypeOK, RequestsOK,
                            mediaVars, pinVars, mlVars
<1>6. QED
  BY <1>1, <1>2, <1>3, <1>4, <1>5

\* The steps that write media and pins.
LEMMA MediaStepType ==
  ASSUME TypeOK, NEW h \in Handler,
         \/ CommitInSession(h)     \/ DeleteMedia(h)      \/ AttachToExistingPin(h)
         \/ CreatePin(h)           \/ AttachToNewPin(h)   \/ PublishMLTask(h)
         \/ ApplyReviewEdits(h)    \/ PublishDraftPins(h)
  PROVE  TypeOK'
<1>0. h \in Proc /\ RequestsOK /\ req[h] \in Requests
  BY DEF Proc, TypeOK, RequestsOK
<1>a. /\ req[h].sess \in Session \cup {NoSession}
      /\ req[h].pin \in Pin \cup {NoPin}
  BY <1>0 DEF Requests
<1>1. ASSUME CommitInSession(h)
      PROVE  TypeOK'
  <2>1. RequestsOK'
    BY <1>0, <1>1, FinishType DEF CommitInSession
  <2>2. /\ rows' \subseteq used' /\ used' \subseteq Media
        /\ session' \in [Media -> Session \cup {NoSession}]
        /\ pinOf' \in [Media -> Pin \cup {NoPin}]
        /\ stale' \in [Session -> BOOLEAN]
    <3>1. CASE UNCHANGED <<mediaVars, stale>>
      BY <3>1 DEF TypeOK, mediaVars
    <3>2. ASSUME NEW m \in Media \ used,
                 rows' = rows \cup {m}, used' = used \cup {m},
                 session' = [session EXCEPT ![m] = req[h].sess],
                 pinOf' = [pinOf EXCEPT ![m] = NoPin],
                 stale' = [stale EXCEPT ![req[h].sess] = FALSE]
          PROVE  /\ rows' \subseteq used' /\ used' \subseteq Media
                 /\ session' \in [Media -> Session \cup {NoSession}]
                 /\ pinOf' \in [Media -> Pin \cup {NoPin}]
                 /\ stale' \in [Session -> BOOLEAN]
      BY <1>a, <3>2 DEF TypeOK
    <3>3. QED
      BY <1>1, <3>1, <3>2 DEF CommitInSession
  <2>3. QED
    BY <1>1, <2>1, <2>2 DEF CommitInSession, TypeOK, RequestsOK, pinVars, mlVars
<1>2. ASSUME DeleteMedia(h) \/ ApplyReviewEdits(h)
      PROVE  TypeOK'
  <2>1. RequestsOK'
    BY <1>0, <1>2, FinishType, GotoType, AfterType DEF DeleteMedia, ApplyReviewEdits, PCs
  <2>2. rows' \subseteq used
    BY <1>2 DEF DeleteMedia, ApplyReviewEdits, TypeOK
  <2>3. QED
    BY <1>2, <2>1, <2>2 DEF DeleteMedia, ApplyReviewEdits, TypeOK, RequestsOK, sessVars, pinVars, mlVars
<1>3. ASSUME AttachToExistingPin(h) \/ AttachToNewPin(h)
      PROVE  TypeOK'
  <2>1. RequestsOK'
    <3> DEFINE skipped == [req[h] EXCEPT !.old = {}]
    <3>1. \A pc \in PCs : [skipped EXCEPT !.pc = pc] \in Requests
      BY <1>0 DEF Requests
    <3>2. CASE req' = [req EXCEPT ![h] = [skipped EXCEPT !.pc = AfterOld(skipped)]]
      BY <1>0, <3>1, <3>2, AfterType DEF RequestsOK
    <3>3. QED
      BY <1>0, <1>3, <3>2, FinishType, GotoType, AfterType DEF AttachToExistingPin, AttachToNewPin
  <2>2. pinOf' \in [Media -> Pin \cup {NoPin}]
    BY <1>3, <1>a DEF AttachToExistingPin, AttachToNewPin, Attach, TypeOK
  <2>3. QED
    BY <1>3, <2>1, <2>2 DEF AttachToExistingPin, AttachToNewPin, TypeOK, RequestsOK, sessVars,
                            pinVars, mlVars
<1>4. ASSUME CreatePin(h)
      PROVE  TypeOK'
  <2>1. PICK p \in Pin : /\ pinRow' = [pinRow EXCEPT ![p] = "LIVE"]
                         /\ draftOf' = [draftOf EXCEPT ![p] = req[h].sess]
                         /\ req' = [req EXCEPT ![h].pin = p, ![h].pc = "attachNew"]
    BY <1>4 DEF CreatePin
  <2>2. RequestsOK'
    BY <1>0, <2>1 DEF RequestsOK, Requests, PCs
  <2>3. QED
    BY <1>4, <1>a, <2>1, <2>2 DEF CreatePin, TypeOK, RequestsOK, sessVars, mediaVars, mlVars
<1>5. ASSUME PublishMLTask(h)
      PROVE  TypeOK'
  <2>1. RequestsOK'
    BY <1>0, <1>5, FinishType DEF PublishMLTask
  <2>2. mlq' \in [Session -> Nat] /\ faults' \in 0..MaxFaults
    BY <1>5, BoundAssumption DEF PublishMLTask, TypeOK
  <2>3. QED
    BY <1>5, <2>1, <2>2 DEF PublishMLTask, TypeOK, RequestsOK, sessVars, mediaVars, pinVars
<1>6. ASSUME PublishDraftPins(h)
      PROVE  TypeOK'
  <2>1. RequestsOK'
    BY <1>0, <1>6, GotoType DEF PublishDraftPins, PCs
  <2>2. draftOf' \in [Pin -> Session \cup {NoSession}]
    BY <1>6 DEF PublishDraftPins, Published, TypeOK
  <2>3. QED
    BY <1>6, <2>1, <2>2 DEF PublishDraftPins, TypeOK, RequestsOK, sessVars, mediaVars, mlVars
<1>7. QED
  BY <1>1, <1>2, <1>3, <1>4, <1>5, <1>6

\* The reason a session is closed with is one of the three.
LEMMA ReasonType == \A c : ReasonOf(c) \in Reason
BY DEF ReasonOf, Reason

\* The steps confirm, cancel and the cron have in common.
LEMMA CloseStepType == ASSUME TypeOK, NEW c \in Proc, CloseStep(c)
                       PROVE  TypeOK'
<1>0. RequestsOK /\ req[c] \in Requests
  BY DEF TypeOK, RequestsOK
<1>1. ASSUME RollbackAttachments(c) \/ DeleteDraftPins(c)
      PROVE  TypeOK'
  <2>1. RequestsOK'
    BY <1>0, <1>1, GotoType DEF RollbackAttachments, DeleteDraftPins, PCs
  <2>2. /\ pinOf' \in [Media -> Pin \cup {NoPin}]
        /\ pinRow' \in [Pin -> {"UNUSED", "LIVE", "DELETED"}]
    BY <1>1 DEF RollbackAttachments, DeleteDraftPins, TypeOK, pinVars
  <2>3. QED
    BY <1>1, <2>1, <2>2 DEF RollbackAttachments, DeleteDraftPins, TypeOK, RequestsOK, sessVars,
                            pinVars, mlVars
<1>2. ASSUME SelectOrphans(c)
      PROVE  TypeOK'
  <2>1. Orphans(req[c].ids) \subseteq Media
    BY DEF Orphans, TypeOK
  <2>2. RequestsOK'
    BY <1>0, <1>2, <2>1 DEF SelectOrphans, RequestsOK, Requests, PCs
  <2>3. QED
    BY <1>2, <2>2 DEF SelectOrphans, TypeOK, RequestsOK, sessVars, mediaVars, pinVars, mlVars
<1>3. ASSUME DeleteOrphans(c)
      PROVE  TypeOK'
  <2>1. RequestsOK'
    BY <1>0, <1>3, GotoType DEF DeleteOrphans, PCs
  <2>2. QED
    BY <1>3, <2>1 DEF DeleteOrphans, TypeOK, RequestsOK, sessVars, pinVars, mlVars
<1>4. ASSUME CloseSession(c)
      PROVE  TypeOK'
  <2>1. RequestsOK'
    BY <1>0, <1>4, FinishType, GotoType DEF CloseSession, PCs
  <2>2. state' \in [Session -> Reason \cup {"UNUSED", "open"}]
    BY <1>4, ReasonType DEF CloseSession, TypeOK
  <2>3. QED
    BY <1>4, <2>1, <2>2 DEF CloseSession, TypeOK, RequestsOK, mediaVars, pinVars, mlVars
<1>5. ASSUME BackToReady(c)
      PROVE  TypeOK'
  <2>1. RequestsOK'
    BY <1>0, <1>5, FinishType DEF BackToReady
  <2>2. QED
    BY <1>5, <2>1 DEF BackToReady, TypeOK, TripStatus, RequestsOK, sessVars, mediaVars, pinVars, mlVars
<1>6. QED
  BY <1>1, <1>2, <1>3, <1>4, <1>5 DEF CloseStep

\* Results, the cron, time and failures.
LEMMA BackgroundType ==
  ASSUME TypeOK,
         \/ ResultStep \/ ListAbandoned \/ \E s \in Session : CleanupOne(s)
         \/ Time \/ (\E h \in Handler : HandlerFails(h)) \/ \E c \in Proc : LoggedFailure(c)
  PROVE  TypeOK'
<1>0. RequestsOK /\ Handler \subseteq Proc /\ Cron \in Proc
  BY DEF TypeOK, RequestsOK, Proc
<1>1. ASSUME ResultStep
      PROVE  TypeOK'
  <2>1. CASE FinalizeProcessing
    BY <2>1 DEF FinalizeProcessing, TypeOK, TripStatus, sessVars, mediaVars, pinVars
  <2>2. ASSUME NEW s \in Session, DeliverResult(s)
        PROVE  TypeOK'
    BY <2>2 DEF DeliverResult, TypeOK, sessVars, mediaVars, pinVars
  <2>3. QED
    BY <1>1, <2>1, <2>2 DEF ResultStep
<1>2. ASSUME ListAbandoned
      PROVE  TypeOK'
  BY <1>2 DEF ListAbandoned, TypeOK, sessVars, mediaVars, pinVars, mlVars
<1>3. ASSUME NEW s \in Session, CleanupOne(s)
      PROVE  TypeOK'
  <2>1. existing[s] \subseteq Media /\ s \in Session \cup {NoSession}
    BY DEF TypeOK
  <2>2. RequestsOK'
    BY <1>0, <1>3, <2>1, BeginType DEF CleanupOne, Operations, PCs
  <2>3. faults' \in 0..MaxFaults
    BY <1>3, BoundAssumption DEF CleanupOne, TypeOK
  <2>4. QED
    BY <1>3, <2>2, <2>3 DEF CleanupOne, TypeOK, RequestsOK, sessVars, mediaVars, pinVars, mlVars
<1>4. ASSUME NEW s \in Session, OneHour(s) \/ SeventyTwoHours(s)
      PROVE  TypeOK'
  BY <1>4 DEF OneHour, SeventyTwoHours, TypeOK, mediaVars, pinVars, mlVars
<1>5. ASSUME NEW h \in Handler, HandlerFails(h)
      PROVE  TypeOK'
  <2>1. RequestsOK' /\ faults' \in 0..MaxFaults
    BY <1>0, <1>5, FinishType, BoundAssumption DEF HandlerFails, TypeOK
  <2>2. QED
    BY <1>5, <2>1 DEF HandlerFails, TypeOK, RequestsOK, sessVars, mediaVars, pinVars, mlVars
<1>6. ASSUME NEW c \in Proc, LoggedFailure(c)
      PROVE  TypeOK'
  <2>1. RequestsOK'
    BY <1>0, <1>6, GotoType, LoggedType DEF LoggedFailure, PCs
  <2>2. faults' \in 0..MaxFaults
    BY <1>6, BoundAssumption DEF LoggedFailure, TypeOK
  <2>3. QED
    BY <1>6, <2>1, <2>2 DEF LoggedFailure, TypeOK, RequestsOK, sessVars, mediaVars, pinVars, mlVars
<1>7. QED
  BY <1>1, <1>2, <1>3, <1>4, <1>5, <1>6 DEF Time

\* The tables are well-typed to begin with.
LEMMA InitType == Init => TypeOK
<1> SUFFICES ASSUME Init
             PROVE  TypeOK
  OBVIOUS
<1>1. NoRequest \in Requests
  BY DEF NoRequest, Requests, Operations, PCs
<1>2. req \in [Proc -> Requests]
  BY <1>1 DEF Init
<1>3. faults \in 0..MaxFaults
  BY BoundAssumption DEF Init
<1>4. QED
  BY <1>2, <1>3, SeedAssumption DEF Init, TypeOK, TripStatus

\* Every step keeps the types.
LEMMA StepType == TypeOK /\ [Next]_vars => TypeOK'
<1> SUFFICES ASSUME TypeOK, [Next]_vars
             PROVE  TypeOK'
  OBVIOUS
<1>1. CASE UNCHANGED vars
  BY <1>1 DEF TypeOK, vars, sessVars, mediaVars, pinVars, mlVars
<1>2. ASSUME NEW h \in Handler, Request(h) \/ HandlerStep(h)
      PROVE  TypeOK'
  BY <1>2, RequestType, SessionStepType, MediaStepType DEF HandlerStep
<1>3. ASSUME NEW c \in Proc, CloseStep(c)
      PROVE  TypeOK'
  BY <1>3, CloseStepType
<1>4. QED
  BY <1>1, <1>2, <1>3, BackgroundType DEF Next, CronStep, Proc

\* Types: the trip, its sessions, media, pins, results and requests stay well-
\* formed whatever participants, cron and ML results do and whatever fails.
THEOREM AddMediaTypeCorrect == Spec => []TypeOK
BY InitType, StepType, PTL DEF Spec

------------------------------------------------------------------------------
(* The writes of add_media_sessions                                         *)

\* All that any step of any actor does to the state of the sessions ...
Opens     == /\ ~Conflict
             /\ \E s \in Session :
                  /\ state[s] = "UNUSED"
                  /\ state' = [state EXCEPT ![s] = "open"]
                  /\ \A x \in Session : x # s => existing'[x] = existing[x]
Closes(s) == /\ IsOpen(s)
             /\ \E r \in Reason : state' = [state EXCEPT ![s] = r]
             /\ UNCHANGED existing
StateWrite == UNCHANGED <<state, existing>> \/ Opens \/ \E s \in Session : Closes(s)

\* ... and to the columns only an open session may change.
LeadWrite == \A s \in Session :
               ~IsOpen(s) => pending'[s] = pending[s] /\ initiator'[s] = initiator[s]

\* The handlers of apply, takeover and touch write open sessions only.
LEMMA LeadWriters ==
  ASSUME TypeOK, NEW h \in Handler,
         \/ SetGroupingStatus(h) \/ TouchSession(h)    \/ AppendPending(h)
         \/ AssignInitiator(h)   \/ ExecuteTakeover(h)
  PROVE  UNCHANGED <<state, existing>> /\ LeadWrite
<1>1. CASE SetGroupingStatus(h) \/ TouchSession(h)
  BY <1>1 DEF SetGroupingStatus, TouchSession, LeadWrite, sessVars
<1>2. CASE AppendPending(h)
  BY <1>2 DEF AppendPending, LeadWrite, IsOpen, TypeOK
<1>3. CASE AssignInitiator(h) \/ ExecuteTakeover(h)
  BY <1>3 DEF AssignInitiator, ExecuteTakeover, SetInitiator, LeadWrite, IsOpen, TypeOK
<1>4. QED
  BY <1>1, <1>2, <1>3

\* A step of a handler opens a session or writes an open one.
LEMMA HandlerWrites == ASSUME TypeOK, NEW h \in Handler, HandlerStep(h)
                       PROVE  StateWrite /\ LeadWrite
<1>1. ASSUME CreateSession(h)
      PROVE  StateWrite /\ LeadWrite
  <2>1. ASSUME ~Conflict, NEW s \in Session, state[s] = "UNUSED",
               state' = [state EXCEPT ![s] = "open"],
               existing' = [existing EXCEPT ![s] = req[h].ids]
        PROVE  Opens
    BY <2>1 DEF Opens, TypeOK
  <2>2. QED
    BY <1>1, <2>1 DEF CreateSession, StateWrite, LeadWrite
<1>2. CASE CommitInSession(h)
  BY <1>2 DEF CommitInSession, StateWrite, LeadWrite
<1>3. CASE \/ StartUploading(h)  \/ DeleteMedia(h)   \/ AttachToExistingPin(h) \/ CreatePin(h)
           \/ AttachToNewPin(h)  \/ StartProcessing(h) \/ PublishMLTask(h)
           \/ ApplyReviewEdits(h) \/ PublishDraftPins(h)
  BY <1>3 DEF StartUploading, DeleteMedia, AttachToExistingPin, CreatePin, AttachToNewPin,
              StartProcessing, PublishMLTask, ApplyReviewEdits, PublishDraftPins, StateWrite,
              LeadWrite, sessVars
<1>4. QED
  BY <1>1, <1>2, <1>3, LeadWriters DEF HandlerStep, StateWrite

\* Of the steps confirm, cancel and the cron share only the UPDATE closes.
LEMMA CloseWrites == ASSUME TypeOK, NEW c \in Proc, CloseStep(c)
                     PROVE  StateWrite /\ LeadWrite
<1>1. ASSUME CloseSession(c)
      PROVE  StateWrite /\ LeadWrite
  <2> DEFINE s == req[c].sess
  <2>1. CASE s \in Session /\ CanClose(s)
    BY <1>1, <2>1, ReasonType DEF CloseSession, CanClose, StateWrite, Closes, LeadWrite
  <2>2. CASE ~(s \in Session /\ CanClose(s))
    <3>1. UNCHANGED state
      BY <1>1, <2>2 DEF CloseSession, TypeOK
    <3>2. QED
      BY <1>1, <3>1 DEF CloseSession, StateWrite, LeadWrite
  <2>3. QED
    BY <2>1, <2>2
<1>2. CASE \/ RollbackAttachments(c) \/ DeleteDraftPins(c) \/ SelectOrphans(c)
           \/ DeleteOrphans(c)       \/ BackToReady(c)
  BY <1>2 DEF RollbackAttachments, DeleteDraftPins, SelectOrphans, DeleteOrphans, BackToReady,
              StateWrite, LeadWrite, sessVars
<1>3. QED
  BY <1>1, <1>2 DEF CloseStep

\* Whatever step is taken, the table is written in one of these ways.
LEMMA SessionWrites == ASSUME TypeOK, [Next]_vars
                       PROVE  StateWrite /\ LeadWrite
<1>1. CASE UNCHANGED vars
  BY <1>1 DEF vars, sessVars, StateWrite, LeadWrite
<1>2. ASSUME NEW h \in Handler, Request(h)
      PROVE  StateWrite /\ LeadWrite
  BY <1>2, RequestKeeps DEF StateWrite, LeadWrite, sessVars
<1>3. CASE ResultStep \/ ListAbandoned \/ \E s \in Session : CleanupOne(s)
  BY <1>3 DEF ResultStep, DeliverResult, FinalizeProcessing, ListAbandoned, CleanupOne,
              StateWrite, LeadWrite, sessVars
<1>4. CASE (\E h \in Handler : HandlerFails(h)) \/ \E c \in Proc : LoggedFailure(c)
  BY <1>4 DEF HandlerFails, LoggedFailure, StateWrite, LeadWrite, sessVars
<1>5. CASE Time
  BY <1>5 DEF Time, OneHour, SeventyTwoHours, StateWrite, LeadWrite
<1>6. QED
  BY <1>1, <1>2, <1>3, <1>4, <1>5, HandlerWrites, CloseWrites DEF Next, CronStep, Proc

\* At most one session stays open.
LEMMA ActiveStep ==
  ASSUME TypeOK, OneActive, [Next]_vars
  PROVE  OneActive'
<1>1. CASE UNCHANGED <<state, existing>>
  BY <1>1 DEF OneActive, IsOpen
<1>2. CASE Opens
  BY <1>2 DEF OneActive, Opens, Conflict, IsOpen, TypeOK
<1>3. ASSUME NEW s \in Session, Closes(s)
      PROVE  OneActive'
  BY <1>3 DEF OneActive, Closes, IsOpen, TypeOK, Reason
<1>4. QED
  BY <1>1, <1>2, <1>3, SessionWrites DEF StateWrite

\* However many participants start at once, a trip has at most one open session:
\* a session is inserted only where the partial unique index finds none.
THEOREM OneActiveSession == Spec => []OneActive
<1>1. Init => OneActive
  BY DEF Init, OneActive, IsOpen
<1>2. TypeOK /\ OneActive /\ [Next]_vars => OneActive'
  BY ActiveStep
<1>3. QED
  BY <1>1, <1>2, AddMediaTypeCorrect, PTL DEF Spec

\* A closed session stays as it was closed: the same reason, originals, pending
\* attachments and initiator, whoever still has a request in flight for it.
THEOREM ClosedStaysFinal == Spec => ClosedIsFinal
<1> DEFINE Frozen(s) ==
      state[s] \in Reason =>
        /\ state'[s] = state[s] /\ existing'[s] = existing[s]
        /\ pending'[s] = pending[s] /\ initiator'[s] = initiator[s]
<1>1. TypeOK /\ [Next]_vars => [\A s \in Session : Frozen(s)]_vars
  <2> SUFFICES ASSUME TypeOK, [Next]_vars, NEW s \in Session, state[s] \in Reason
               PROVE  Frozen(s)
    OBVIOUS
  <2>1. ~IsOpen(s) /\ state[s] # "UNUSED"
    BY DEF IsOpen, Reason
  <2>2. state \in [Session -> Reason \cup {"UNUSED", "open"}]
    BY DEF TypeOK
  <2>3. state'[s] = state[s] /\ existing'[s] = existing[s]
    BY <2>1, <2>2, SessionWrites DEF StateWrite, Opens, Closes
  <2>4. QED
    BY <2>1, <2>3, SessionWrites DEF LeadWrite
<1>2. QED
  BY <1>1, AddMediaTypeCorrect, PTL DEF Spec, ClosedIsFinal

------------------------------------------------------------------------------
(* The media the trip had before the session                                *)

\* What a request in flight remembers of the originals of its session, ex, whose
\* states are st: an apply or a clean-up spares them, a confirm is not bound to.
Remembers(r) == \/ r.pc \in {"rollback", "drafts", "select"}
                \/ r.pc = "takeover" /\ r.op = "cancel"
Spares(r, ex, st) ==
  /\ r.pc \notin {"idle", "create"} => r.sess \in Session
  /\ r.sess \in Session => st[r.sess] # "UNUSED"
  /\ r.pc = "edits" => r.op = "confirm"
  /\ Remembers(r) => r.ids = ex[r.sess]
  /\ r.pc \in {"delete", "orphans"} => r.ids \cap ex[r.sess] = {}

AllSpare == \A c \in Proc : Spares(req[c], existing, state)
SpareInv == /\ \A s \in todo : state[s] # "UNUSED"
            /\ faults = 0 => AllSpare

\* A session that exists keeps its originals.
LEMMA OriginalsFixed ==
  ASSUME TypeOK, [Next]_vars, NEW s \in Session, state[s] # "UNUSED"
  PROVE  state'[s] # "UNUSED" /\ existing'[s] = existing[s]
BY SessionWrites DEF StateWrite, Opens, Closes, TypeOK, Reason

\* A request that stays as it is goes on sparing.
LEMMA StaysSparing ==
  ASSUME TypeOK, [Next]_vars, NEW r, Spares(r, existing, state)
  PROVE  Spares(r, existing', state')
BY OriginalsFixed DEF Spares, Remembers

\* So does one that moves to a step where it neither deletes nor remembers.
Plain == PCs \ {"edits", "delete", "orphans", "rollback", "drafts", "select", "takeover"}
LEMMA PlainSpares ==
  ASSUME NEW r \in Requests, NEW ex, NEW st, Spares(r, ex, st), NEW pc \in Plain,
         r.pc \notin {"idle", "create"}
  PROVE  Spares([r EXCEPT !.pc = pc], ex, st)
BY DEF Spares, Remembers, Plain, Requests

\* An empty slot has nothing to spare.
LEMMA NothingSpares == \A ex, st : Spares(NoRequest, ex, st)
BY NullAssumption DEF Spares, Remembers, NoRequest

\* One request changes: the others go on sparing.
LEMMA OneChanges ==
  ASSUME TypeOK, [Next]_vars, AllSpare, NEW c \in Proc, NEW r,
         req' = [req EXCEPT ![c] = r], Spares(r, existing', state')
  PROVE  AllSpare'
<1>1. SUFFICES ASSUME NEW d \in Proc
               PROVE  Spares(req'[d], existing', state')
  BY DEF AllSpare
<1>2. CASE d = c
  BY <1>2 DEF TypeOK
<1>3. CASE d # c
  BY <1>3, StaysSparing DEF AllSpare, TypeOK
<1>4. QED
  BY <1>2, <1>3

\* It ends ...
LEMMA FinishSpares ==
  ASSUME TypeOK, [Next]_vars, AllSpare, NEW c \in Proc, Finish(c)
  PROVE  AllSpare'
BY OneChanges, NothingSpares DEF Finish

\* ... or moves on.
LEMMA GotoSpares ==
  ASSUME TypeOK, [Next]_vars, AllSpare, NEW c \in Proc, NEW pc \in Plain, Goto(c, pc),
         ~At(c, "idle"), ~At(c, "create")
  PROVE  AllSpare'
<1>1. req[c] \in Requests /\ Spares(req[c], existing', state')
  BY StaysSparing DEF AllSpare, TypeOK
<1>2. Spares([req[c] EXCEPT !.pc = pc], existing', state')
  BY <1>1, PlainSpares DEF At
<1>3. req' = [req EXCEPT ![c] = [req[c] EXCEPT !.pc = pc]]
  BY DEF Goto, TypeOK
<1>4. QED
  BY <1>2, <1>3, OneChanges

\* It begins.
LEMMA BeginSpares ==
  ASSUME TypeOK, [Next]_vars, AllSpare, NEW c \in Proc, NEW s \in Session, state[s] # "UNUSED",
         NEW op, NEW pc, NEW u, NEW ids, Begin(c, op, pc, u, s, ids),
         pc \in {"insert", "grouping", "uploadMore", "takeover", "edits", "rollback"},
         pc = "edits" => op = "confirm",
         pc = "rollback" \/ (pc = "takeover" /\ op = "cancel") => ids = existing[s]
  PROVE  AllSpare'
<1> DEFINE r == [NoRequest EXCEPT !.op = op, !.pc = pc, !.by = u, !.sess = s, !.ids = ids]
<1>1. req' = [req EXCEPT ![c] = r]
  BY DEF Begin
<1>2. Spares(r, existing, state)
  <2>1. r.op = op /\ r.pc = pc /\ r.sess = s /\ r.ids = ids
    BY DEF NoRequest
  <2> HIDE DEF r
  <2>2. QED
    BY <2>1 DEF Spares, Remembers
<1>3. QED
  BY <1>1, <1>2, StaysSparing, OneChanges

\* Requests enter with the originals of their session, or without them.
LEMMA RequestSpares ==
  ASSUME TypeOK, [Next]_vars, AllSpare, NEW h \in Handler, Request(h)
  PROVE  AllSpare'
<1>0. h \in Proc
  BY DEF Proc
<1>1. ASSUME NEW u \in User, AddMediaStart(h, u)
      PROVE  AllSpare'
  <2> DEFINE r == [NoRequest EXCEPT !.op = "start", !.pc = "create", !.by = u,
                                    !.sess = NoSession, !.ids = rows]
  <2>1. req' = [req EXCEPT ![h] = r]
    BY <1>1 DEF AddMediaStart, Begin
  <2>2. Spares(r, existing', state')
    <3>1. r.op = "start" /\ r.pc = "create" /\ r.sess = NoSession
      BY DEF NoRequest
    <3> HIDE DEF r
    <3>2. QED
      BY <3>1, NullAssumption DEF Spares, Remembers
  <2>3. QED
    BY <1>0, <2>1, <2>2, OneChanges
<1>2. ASSUME NEW s \in Session, IsOpen(s)
      PROVE  state[s] # "UNUSED"
  BY <1>2 DEF IsOpen
<1>3. ASSUME NEW u \in User, NEW s \in Session,
             AddMediaCommitUpload(h, u, s) \/ AddMediaProcessGrouping(h, u, s)
      PROVE  AllSpare'
  BY <1>0, <1>2, <1>3, BeginSpares DEF AddMediaCommitUpload, AddMediaProcessGrouping
<1>4. ASSUME NEW u \in User, NEW s \in Session, AddMediaTakeover(h, u, s)
      PROVE  AllSpare'
  BY <1>0, <1>2, <1>4, BeginSpares DEF AddMediaTakeover
<1>5. ASSUME NEW u \in User, NEW s \in Session, AddMediaCancel(h, u, s)
      PROVE  AllSpare'
  BY <1>0, <1>2, <1>5, BeginSpares DEF AddMediaCancel, Lead
<1>6. ASSUME NEW u \in User, NEW s \in Session, NEW del \in SUBSET rows,
             AddMediaConfirm(h, u, s, del)
      PROVE  AllSpare'
  BY <1>0, <1>2, <1>6, BeginSpares DEF AddMediaConfirm, Lead
<1>7. ASSUME NEW u \in User, NEW s \in Session, NEW p, NEW del, NEW old, NEW new,
             AddMediaApplyGroups(h, u, s, p, del, old, new)
      PROVE  AllSpare'
  <2> DEFINE r0 == [op |-> "apply", pc |-> "delete", by |-> u, sess |-> s, pin |-> p,
                    ids |-> Requested(s, del), old |-> Requested(s, old),
                    new |-> Requested(s, new)]
             r  == IF r0.ids # {} THEN r0 ELSE [r0 EXCEPT !.pc = AfterDelete(r0)]
  <2>1. req' = [req EXCEPT ![h] = r]
    BY <1>7 DEF AddMediaApplyGroups
  <2>2. r.sess = s /\ r.op = "apply" /\ r.ids \cap existing[s] = {}
    BY DEF Requested
  <2>3. r.pc \in {"delete", "attachOld", "createPin", "pending", "processing"}
    BY DEF AfterDelete, AfterOld, AfterNew
  <2>4. IsOpen(s)
    BY <1>7 DEF AddMediaApplyGroups
  <2> HIDE DEF r
  <2>5. Spares(r, existing, state)
    BY <1>2, <2>2, <2>3, <2>4 DEF Spares, Remembers
  <2>6. QED
    BY <1>0, <2>1, <2>5, StaysSparing, OneChanges
<1>8. QED
  BY <1>1, <1>3, <1>4, <1>5, <1>6, <1>7 DEF Request

\* Every step of a handler keeps what the requests remember.
LEMMA HandlerSpares ==
  ASSUME TypeOK, [Next]_vars, AllSpare, NEW h \in Handler, HandlerStep(h)
  PROVE  AllSpare'
<1>0. h \in Proc
  BY DEF Proc
<1>1. ASSUME CreateSession(h)
      PROVE  AllSpare'
  <2>1. ASSUME NEW s \in Session, state' = [state EXCEPT ![s] = "open"],
               req' = [req EXCEPT ![h].sess = s, ![h].pc = "uploading"]
        PROVE  AllSpare'
    <3> DEFINE r == [req[h] EXCEPT !.sess = s, !.pc = "uploading"]
    <3>1. req' = [req EXCEPT ![h] = r]
      BY <1>0, <2>1 DEF TypeOK
    <3>2. r.sess = s /\ r.pc = "uploading" /\ state'[s] = "open"
      BY <1>0, <2>1 DEF TypeOK, Requests
    <3> HIDE DEF r
    <3>3. Spares(r, existing', state')
      BY <3>2 DEF Spares, Remembers
    <3>4. QED
      BY <1>0, <3>1, <3>3, OneChanges
  <2>2. QED
    BY <1>0, <1>1, <2>1, FinishSpares DEF CreateSession
<1>2. CASE \/ StartUploading(h) \/ CommitInSession(h) \/ TouchSession(h) \/ PublishMLTask(h)
  BY <1>0, <1>2, FinishSpares DEF StartUploading, CommitInSession, TouchSession, PublishMLTask
<1>3. \A r : AfterDelete(r) \in Plain /\ AfterOld(r) \in Plain /\ AfterNew(r) \in Plain
  BY DEF AfterDelete, AfterOld, AfterNew, Plain, PCs
<1>4. CASE SetGroupingStatus(h) \/ AppendPending(h) \/ StartProcessing(h) \/ AssignInitiator(h)
  BY <1>0, <1>4, GotoSpares DEF SetGroupingStatus, AppendPending, StartProcessing,
     AssignInitiator, Plain, PCs, At
<1>5. CASE DeleteMedia(h) \/ AttachToNewPin(h) \/ ApplyReviewEdits(h) \/ PublishDraftPins(h)
  BY <1>0, <1>3, <1>5, FinishSpares, GotoSpares
     DEF DeleteMedia, AttachToNewPin, ApplyReviewEdits, PublishDraftPins, Plain, PCs, At
<1>6. ASSUME AttachToExistingPin(h)
      PROVE  AllSpare'
  <2> DEFINE skipped == [req[h] EXCEPT !.old = {}]
             r == [skipped EXCEPT !.pc = AfterOld(skipped)]
  <2>1. CASE req' = [req EXCEPT ![h] = r]
    <3>1. req[h] \in Requests /\ Spares(req[h], existing', state')
      BY <1>0, StaysSparing DEF AllSpare, TypeOK
    <3>2. skipped \in Requests /\ skipped.pc = "attachOld"
      BY <1>6, <3>1 DEF AttachToExistingPin, At, Requests
    <3>3. Spares(skipped, existing', state')
      BY <1>6, <3>1 DEF Spares, Remembers, AttachToExistingPin, At, Requests
    <3>4. Spares(r, existing', state')
      BY <1>3, <3>2, <3>3, PlainSpares
    <3>5. QED
      BY <1>0, <2>1, <3>4, OneChanges
  <2>2. QED
    BY <1>0, <1>3, <1>6, <2>1, GotoSpares DEF AttachToExistingPin, At
<1>7. ASSUME CreatePin(h)
      PROVE  AllSpare'
  <2>1. PICK p \in Pin : req' = [req EXCEPT ![h].pin = p, ![h].pc = "attachNew"]
    BY <1>7 DEF CreatePin
  <2> DEFINE r == [req[h] EXCEPT !.pin = p, !.pc = "attachNew"]
  <2>2. req' = [req EXCEPT ![h] = r]
    BY <1>0, <2>1 DEF TypeOK
  <2>3. req[h] \in Requests /\ Spares(req[h], existing', state')
    BY <1>0, StaysSparing DEF AllSpare, TypeOK
  <2>4. Spares(r, existing', state')
    BY <1>7, <2>3 DEF Spares, Remembers, CreatePin, At, Requests
  <2>5. QED
    BY <1>0, <2>2, <2>4, OneChanges
<1>8. ASSUME ExecuteTakeover(h)
      PROVE  AllSpare'
  <2>1. req[h] \in Requests /\ Spares(req[h], existing', state')
    BY <1>0, StaysSparing DEF AllSpare, TypeOK
  <2>2. CASE req[h].op = "takeover" /\ Finish(h)
    BY <1>0, <2>2, FinishSpares
  <2>3. ASSUME NEW pc, Goto(h, pc),
               <<pc, req[h].op>> \in {<<"edits", "confirm">>, <<"rollback", "cancel">>}
        PROVE  AllSpare'
    <3>1. Spares([req[h] EXCEPT !.pc = pc], existing', state')
      BY <1>8, <2>1, <2>3 DEF ExecuteTakeover, Spares, Remembers, At, Requests
    <3>2. req' = [req EXCEPT ![h] = [req[h] EXCEPT !.pc = pc]]
      BY <1>0, <2>3 DEF Goto, TypeOK
    <3>3. QED
      BY <1>0, <3>1, <3>2, OneChanges
  <2>4. CASE req[h].op = "confirm" /\ Goto(h, "edits")
    BY <2>3, <2>4
  <2>5. CASE req[h].op = "cancel" /\ Goto(h, "rollback")
    BY <2>3, <2>5
  <2>6. QED
    BY <1>8, <2>2, <2>4, <2>5 DEF ExecuteTakeover
<1>9. QED
  BY <1>1, <1>2, <1>4, <1>5, <1>6, <1>7, <1>8 DEF HandlerStep

\* The steps of confirm, cancel and the cron: the ids to delete are taken from
\* the media that are no originals.
LEMMA CloseSpares ==
  ASSUME TypeOK, [Next]_vars, AllSpare, NEW c \in Proc, CloseStep(c)
  PROVE  AllSpare'
<1>1. req[c] \in Requests /\ Spares(req[c], existing', state')
  BY StaysSparing DEF AllSpare, TypeOK
<1>2. ASSUME NEW pc \in {"drafts", "select"}, Goto(c, pc), At(c, "rollback") \/ At(c, "drafts")
      PROVE  AllSpare'
  <2>1. Spares([req[c] EXCEPT !.pc = pc], existing', state')
    BY <1>1, <1>2 DEF Spares, Remembers, At, Requests
  <2>2. req' = [req EXCEPT ![c] = [req[c] EXCEPT !.pc = pc]]
    BY <1>2 DEF Goto, TypeOK
  <2>3. QED
    BY <2>1, <2>2, OneChanges
<1>3. CASE RollbackAttachments(c) \/ DeleteDraftPins(c)
  BY <1>2, <1>3 DEF RollbackAttachments, DeleteDraftPins
<1>4. ASSUME SelectOrphans(c)
      PROVE  AllSpare'
  <2> DEFINE r == [req[c] EXCEPT !.ids = Orphans(req[c].ids), !.pc = "orphans"]
  <2>1. req' = [req EXCEPT ![c] = r]
    BY <1>4 DEF SelectOrphans, TypeOK
  <2>2. Orphans(req[c].ids) \cap req[c].ids = {}
    BY DEF Orphans
  <2>3. r.sess = req[c].sess /\ r.pc = "orphans" /\ r.ids = Orphans(req[c].ids)
    BY <1>1 DEF Requests
  <2>4. Spares(r, existing', state')
    BY <1>1, <1>4, <2>2, <2>3 DEF Spares, Remembers, SelectOrphans, At
  <2>5. QED
    BY <2>1, <2>4, OneChanges
<1>5. CASE DeleteOrphans(c) \/ CloseSession(c) \/ BackToReady(c)
  BY <1>5, FinishSpares, GotoSpares DEF DeleteOrphans, CloseSession, BackToReady, Plain, PCs, At
<1>6. QED
  BY <1>3, <1>4, <1>5 DEF CloseStep

\* What any step does to the rows of the media, the cron's list and the failures:
\* media leave the table only by the ids of the request that deletes them.
Deletes(c) == /\ req[c].pc \in {"delete", "edits", "orphans"}
              /\ rows \ req[c].ids \subseteq rows'
              /\ \A d \in Proc \ {c} : req'[d] = req[d]
Frame == /\ rows \subseteq rows' \/ \E c \in Proc : Deletes(c)
         /\ todo' \subseteq todo \/ ListAbandoned
         /\ faults' = faults \/ faults' = faults + 1

LEMMA DeletesOnly == ASSUME TypeOK, NEW c \in Proc,
                            DeleteMedia(c) \/ ApplyReviewEdits(c) \/ DeleteOrphans(c)
                     PROVE  rows \subseteq rows' \/ Deletes(c)
<1>1. \A d \in Proc \ {c} : req'[d] = req[d]
  BY DEF DeleteMedia, ApplyReviewEdits, DeleteOrphans, Goto, Finish, TypeOK
<1>2. QED
  BY <1>1 DEF DeleteMedia, ApplyReviewEdits, DeleteOrphans, Deletes, At

LEMMA StepFrame == ASSUME TypeOK, [Next]_vars
                   PROVE  Frame
<1>1. ASSUME NEW h \in Handler, Request(h)
      PROVE  Frame
  BY <1>1, RequestKeeps DEF Frame, mediaVars
<1>2. ASSUME NEW h \in Handler, HandlerStep(h)
      PROVE  Frame
  <2>1. CASE \/ CreateSession(h)       \/ StartUploading(h)  \/ SetGroupingStatus(h)
             \/ TouchSession(h)        \/ CreatePin(h)       \/ AppendPending(h)
             \/ StartProcessing(h)     \/ AssignInitiator(h) \/ PublishMLTask(h)
             \/ ExecuteTakeover(h)     \/ PublishDraftPins(h)
    BY <2>1 DEF CreateSession, StartUploading, SetGroupingStatus, TouchSession, CreatePin,
       AppendPending, StartProcessing, AssignInitiator, PublishMLTask, ExecuteTakeover,
       PublishDraftPins, Frame, mediaVars
  <2>2. CASE CommitInSession(h) \/ AttachToExistingPin(h) \/ AttachToNewPin(h)
    BY <2>2 DEF CommitInSession, AttachToExistingPin, AttachToNewPin, Frame, mediaVars
  <2>3. CASE DeleteMedia(h) \/ ApplyReviewEdits(h)
    <3>1. todo' = todo /\ faults' = faults
      BY <2>3 DEF DeleteMedia, ApplyReviewEdits
    <3>2. QED
      BY <2>3, <3>1, DeletesOnly DEF Frame, Proc
  <2>4. QED
    BY <1>2, <2>1, <2>2, <2>3 DEF HandlerStep
<1>3. ASSUME NEW c \in Proc, CloseStep(c)
      PROVE  Frame
  <2>1. CASE DeleteOrphans(c)
    <3>1. todo' = todo /\ faults' = faults
      BY <2>1 DEF DeleteOrphans
    <3>2. QED
      BY <2>1, <3>1, DeletesOnly DEF Frame
  <2>2. CASE \/ RollbackAttachments(c) \/ DeleteDraftPins(c) \/ SelectOrphans(c)
             \/ CloseSession(c)        \/ BackToReady(c)
    BY <2>2 DEF RollbackAttachments, DeleteDraftPins, SelectOrphans, CloseSession, BackToReady,
       Frame, mediaVars
  <2>3. QED
    BY <1>3, <2>1, <2>2 DEF CloseStep
<1>4. CASE ResultStep \/ ListAbandoned \/ (\E s \in Session : CleanupOne(s)) \/ UNCHANGED vars
  BY <1>4 DEF ResultStep, DeliverResult, FinalizeProcessing, ListAbandoned, CleanupOne, Frame,
     vars, mediaVars
<1>5. CASE Time \/ (\E h \in Handler : HandlerFails(h)) \/ (\E c \in Proc : LoggedFailure(c))
  BY <1>5 DEF Time, OneHour, SeventyTwoHours, HandlerFails, LoggedFailure, Frame, mediaVars
<1>6. QED
  BY <1>1, <1>2, <1>3, <1>4, <1>5 DEF Next, CronStep, Proc

\* The sessions the cron has listed stay sessions.
LEMMA ListedExist ==
  ASSUME TypeOK, [Next]_vars, \A s \in todo : state[s] # "UNUSED"
  PROVE  \A s \in todo' : state'[s] # "UNUSED"
<1>1. \A s \in todo : state'[s] # "UNUSED"
  BY OriginalsFixed DEF TypeOK
<1>2. CASE ListAbandoned
  BY <1>2 DEF ListAbandoned, Abandoned, IsOpen, sessVars
<1>3. QED
  BY <1>1, <1>2, StepFrame DEF Frame

\* As long as nothing has failed, the requests spare the originals.
LEMMA SpareStep == TypeOK /\ SpareInv /\ [Next]_vars => SpareInv'
<1> SUFFICES ASSUME TypeOK, SpareInv, [Next]_vars
             PROVE  SpareInv'
  OBVIOUS
<1>1. SUFFICES ASSUME faults' = 0
               PROVE  AllSpare'
  BY ListedExist DEF SpareInv
<1>2. ASSUME faults = 0
      PROVE  AllSpare'
  <2>0. AllSpare
    BY <1>2 DEF SpareInv
  <2>1. ASSUME NEW h \in Handler, Request(h) \/ HandlerStep(h)
        PROVE  AllSpare'
    BY <2>0, <2>1, RequestSpares, HandlerSpares
  <2>2. ASSUME NEW c \in Proc, CloseStep(c)
        PROVE  AllSpare'
    BY <2>0, <2>2, CloseSpares
  <2>3. ASSUME UNCHANGED req
        PROVE  AllSpare'
    BY <2>0, <2>3, StaysSparing DEF AllSpare
  <2>4. CASE ResultStep \/ ListAbandoned \/ Time \/ UNCHANGED vars
    BY <2>3, <2>4 DEF ResultStep, DeliverResult, FinalizeProcessing, ListAbandoned, Time, OneHour,
       SeventyTwoHours, vars
  <2>5. ASSUME NEW s \in Session, CleanupOne(s)
        PROVE  AllSpare'
    <3>1. state[s] # "UNUSED"
      BY <2>5 DEF CleanupOne, SpareInv
    <3>2. Begin(Cron, "cleanup", "rollback", NoUser, s, existing[s])
      BY <1>1, <1>2, <2>5 DEF CleanupOne
    <3>3. QED
      BY <2>0, <3>1, <3>2, BeginSpares DEF Proc
  <2>6. ~(\E h \in Handler : HandlerFails(h)) /\ ~(\E c \in Proc : LoggedFailure(c))
    BY <1>1, <1>2 DEF HandlerFails, LoggedFailure
  <2>7. QED
    BY <2>1, <2>2, <2>4, <2>5, <2>6 DEF Next, CronStep, Proc
<1>3. faults = 0
  <2>1. faults \in Nat /\ (faults' = faults \/ faults' = faults + 1)
    BY StepFrame, BoundAssumption DEF Frame, TypeOK
  <2>2. QED
    BY <1>1, <2>1
<1>4. QED
  BY <1>2, <1>3

\* What OriginalsKept says of the rows of the originals.
OriginalsNeverDeleted ==
  [][\A c \in Proc, s \in Session :
       Acting(c, s) /\ req'[c] # req[c] /\ faults = 0 =>
         existing[s] \cap rows \subseteq rows']_vars

\* However many requests of whatever sessions are in flight, an apply, a cancel or
\* the cron deletes no media the trip had before the session it acts for.
THEOREM OriginalsSurvive == Spec => OriginalsNeverDeleted
<1> DEFINE Survive(c, s) ==
      Acting(c, s) /\ req'[c] # req[c] /\ faults = 0 => existing[s] \cap rows \subseteq rows'
<1>1. Init => SpareInv
  <2> SUFFICES ASSUME Init
               PROVE  SpareInv
    OBVIOUS
  <2>1. todo = {} /\ \A c \in Proc : req[c] = NoRequest
    BY DEF Init
  <2>2. QED
    BY <2>1, NothingSpares DEF SpareInv, AllSpare
<1>2. TypeOK /\ SpareInv /\ [Next]_vars => [\A c \in Proc, s \in Session : Survive(c, s)]_vars
  <2> SUFFICES ASSUME TypeOK, SpareInv, [Next]_vars, NEW c \in Proc, NEW s \in Session,
                      Acting(c, s), req'[c] # req[c], faults = 0
               PROVE  existing[s] \cap rows \subseteq rows'
    OBVIOUS
  <2>1. Spares(req[c], existing, state)
    BY DEF SpareInv, AllSpare
  <2>2. CASE rows \subseteq rows'
    BY <2>2
  <2>3. ASSUME NEW d \in Proc, Deletes(d)
        PROVE  existing[s] \cap rows \subseteq rows'
    <3>1. d = c
      BY <2>3 DEF Deletes
    <3>2. req[c].ids \cap existing[s] = {}
      BY <2>1, <2>3, <3>1 DEF Deletes, Spares, Acting
    <3>3. QED
      BY <2>3, <3>1, <3>2 DEF Deletes
  <2>4. QED
    BY <2>2, <2>3, StepFrame DEF Frame
<1>3. Spec => []SpareInv
  BY <1>1, SpareStep, AddMediaTypeCorrect, PTL DEF Spec
<1>4. QED
  BY <1>2, <1>3, AddMediaTypeCorrect, PTL DEF Spec, OriginalsNeverDeleted

------------------------------------------------------------------------------
(* One request at a time                                                    *)

\* Clients wait for an answer, sessions are young, and what fails stops its request.
OneAtATime == (\A g, h \in Handler : g = h) /\ "cleanup" \notin Ops /\ "step" \notin FaultKinds

\* The session of a request is open until the request closes it, and by then its
\* draft pins are gone or published.
Stage(r) ==
  /\ r.pc \notin {"idle", "create", "ready"} => r.sess \in Session /\ IsOpen(r.sess)
  /\ r.pc \in {"select", "orphans", "close"} => DraftPins(r.sess) = {}
\* What a request carries to the step that needs it.
Carries(r) ==
  /\ r.pc = "create" => r.ids \subseteq used
  /\ r.pc = "attachNew" => r.pin \in DraftPins(r.sess)
  /\ r.pc \in {"rollback", "drafts", "select", "orphans"} => r.op = "cancel"
  /\ r.pc \in {"edits", "publishPins"} => r.op = "confirm"
  /\ r.pc = "close" => r.op \in {"confirm", "cancel"}
  /\ r.op = "cancel" /\ r.pc \in {"takeover", "rollback", "drafts", "select"} =>
       r.ids = existing[r.sess]

\* Draft pins are of an open session.
Hidden == \A s \in Session : DraftPins(s) # {} => IsOpen(s)
\* The media of a session are not among those the trip had before it.
Uploads ==
  /\ \A s \in Session : existing[s] \subseteq used
  /\ \A s \in Session, m \in Media : session[m] = s => state[s] # "UNUSED" /\ m \notin existing[s]

\* A cancel will find medium m of session s: on no pin, on a pin it deletes, or recorded;
\* unless the request is about to record it, has it in its list, or confirms.
Traced(r, s, m) ==
  \/ r.pc = "close" /\ r.op = "confirm"
  \/ r.pc = "orphans" /\ m \in r.ids
  \/ /\ r.pc \notin {"orphans", "close"}
     /\ \/ pinOf[m] = NoPin
        \/ r.pc # "select" /\ pinOf[m] \in DraftPins(s)
        \/ r.pc \notin {"drafts", "select"} /\ m \in pending[s]
        \/ r.pc \in {"createPin", "attachNew", "pending"} /\ m \in r.old
Traces(r) == \A s \in Session, m \in rows : IsOpen(s) /\ session[m] = s => Traced(r, s, m)
\* No medium of a cancelled session is left, and those of the open one can be found.
Undoable == /\ \A s \in Session, m \in rows : state[s] = "cancelled" => session[m] # s
            /\ \A h \in Handler : Traces(req[h])

Alone == /\ At(Cron, "idle") /\ Hidden /\ Uploads
         /\ \A h \in Handler : Stage(req[h]) /\ Carries(req[h])
SerialInv == /\ TypeOK /\ OneActive /\ Alone
             /\ "handler" \notin FaultKinds => Undoable

\* What it takes of a step.
Preserves == Alone' /\ (Undoable => Undoable')

\* The columns these are about, but for the media that are left.
undoVars == <<state, existing, pending, used, session, pinOf, pinRow, draftOf>>

\* With one handler, what is true of its request is true of all; the cron has its own slot.
LEMMA OneSlot ==
  ASSUME OneAtATime, TypeOK, NEW h \in Handler, NEW r, req' = [req EXCEPT ![h] = r]
  PROVE  (\A g \in Handler : req'[g] = r) /\ req'[Cron] = req[Cron]
<1>1. h \in Proc /\ Cron \in Proc /\ Cron # h /\ req \in [Proc -> Requests]
  BY CronAssumption DEF Proc, TypeOK
<1>2. \A g \in Handler : g = h
  BY DEF OneAtATime
<1>3. req'[h] = r /\ req'[Cron] = req[Cron]
  BY <1>1
<1>4. QED
  BY <1>2, <1>3

\* A step that writes none of these columns, but may delete media, moves the request.
LEMMA MovesAlone ==
  ASSUME OneAtATime, SerialInv, NEW h \in Handler, NEW r, req' = [req EXCEPT ![h] = r],
         UNCHANGED undoVars, Stage(r), Carries(r)
  PROVE  Alone'
<1>1. (\A g \in Handler : req'[g] = r) /\ req'[Cron] = req[Cron]
  BY OneSlot DEF SerialInv
<1>2. At(Cron, "idle")'
  BY <1>1 DEF SerialInv, Alone, At
<1>3. Hidden' /\ Uploads'
  BY DEF SerialInv, Alone, Hidden, Uploads, undoVars, DraftPins, IsOpen
<1>4. \A g \in Handler : Stage(req[g])' /\ Carries(req[g])'
  BY <1>1 DEF Stage, Carries, undoVars, DraftPins, IsOpen
<1>5. QED
  BY <1>2, <1>3, <1>4 DEF Alone

LEMMA Moves ==
  ASSUME OneAtATime, SerialInv, NEW h \in Handler, NEW r, req' = [req EXCEPT ![h] = r],
         UNCHANGED undoVars, rows' \subseteq rows, Stage(r), Carries(r), Undoable => Traces(r)
  PROVE  Preserves
<1>1. \A g \in Handler : req'[g] = r
  BY OneSlot DEF SerialInv
<1>2. ASSUME Undoable PROVE Undoable'
  <2>1. \A s \in Session, m \in rows' : state'[s] = "cancelled" => session'[m] # s
    BY <1>2 DEF Undoable, undoVars
  <2>2. ASSUME NEW g \in Handler PROVE Traces(req[g])'
    <3>1. Traces(r) /\ req'[g] = r
      BY <1>1, <1>2
    <3>2. QED
      BY <3>1 DEF Traces, Traced, undoVars, DraftPins, IsOpen
  <2>3. QED
    BY <2>1, <2>2 DEF Undoable
<1>3. QED
  BY <1>2, MovesAlone DEF Preserves

\* An idle slot carries nothing.
LEMMA IdleIsFine == Stage(NoRequest) /\ Carries(NoRequest)
BY DEF NoRequest, Stage, Carries

\* The steps at which the media of the session are found as they are between requests.
Between == PCs \ {"createPin", "attachNew", "pending", "drafts", "select", "orphans", "close"}
\* A request goes from there to one that is no closer to the deletion.
LEMMA BetweenTraces ==
  ASSUME NEW r, NEW q, r.pc \in Between, q.pc \notin {"drafts", "select", "orphans", "close"},
         Traces(r)
  PROVE  Traces(q)
BY DEF Between, Traces, Traced

LEMMA BetweenEnds ==
  ASSUME OneAtATime, SerialInv, NEW h \in Handler, Finish(h), UNCHANGED undoVars,
         rows' \subseteq rows, req[h].pc \in Between
  PROVE  Preserves
<1>1. Undoable => Traces(NoRequest)
  <2>1. NoRequest.pc = "idle"
    BY DEF NoRequest
  <2>2. QED
    BY <2>1, BetweenTraces DEF Undoable
<1>2. QED
  BY <1>1, Moves, IdleIsFine DEF Finish

LEMMA BetweenGoes ==
  ASSUME OneAtATime, SerialInv, NEW h \in Handler, NEW pc, Goto(h, pc), UNCHANGED undoVars,
         rows' \subseteq rows, req[h].pc \in Between \ {"idle", "create", "ready"},
         pc \in {"touch", "attachOld", "createPin", "pending", "processing", "initiator",
                "publish", "edits", "publishPins", "rollback"},
         pc \in {"edits", "publishPins"} => req[h].op = "confirm",
         pc = "rollback" => req[h].op = "cancel" /\ At(h, "takeover")
  PROVE  Preserves
<1> DEFINE r == [req[h] EXCEPT !.pc = pc]
<1>0. h \in Proc /\ req \in [Proc -> Requests]
  BY DEF Proc, SerialInv, TypeOK
<1>1. req' = [req EXCEPT ![h] = r]
  BY <1>0 DEF Goto
<1>2. r.pc = pc /\ r.sess = req[h].sess /\ r.op = req[h].op /\ r.ids = req[h].ids
  BY <1>0 DEF Requests
<1>3. Stage(req[h]) /\ Carries(req[h])
  BY DEF SerialInv, Alone
<1> HIDE DEF r
<1>4. Stage(r)
  BY <1>2, <1>3 DEF Stage, Between
<1>5. Carries(r)
  BY <1>2, <1>3 DEF Carries, Between, At
<1>6. Undoable => Traces(r)
  BY <1>2, BetweenTraces DEF Undoable
<1>7. QED
  BY <1>1, <1>4, <1>5, <1>6, Moves

\* A request enters a handler.
LEMMA SerialRequest ==
  ASSUME OneAtATime, SerialInv, NEW h \in Handler, Request(h)
  PROVE  Preserves
<1>0. /\ UNCHANGED undoVars /\ rows' \subseteq rows /\ rows \subseteq used
      /\ Undoable => Traces(req[h])
  BY RequestKeeps DEF undoVars, sessVars, mediaVars, pinVars, SerialInv, TypeOK, Undoable
<1>1. ASSUME NEW r, req' = [req EXCEPT ![h] = r], At(h, "idle"), Stage(r), Carries(r),
             r.pc \notin {"drafts", "select", "orphans", "close"}
      PROVE  Preserves
  <2>1. Undoable => Traces(r)
    BY <1>0, <1>1, BetweenTraces DEF At, Between, PCs
  <2>2. QED
    BY <1>0, <1>1, <2>1, Moves
<1>2. ASSUME NEW u \in User, AddMediaStart(h, u)
      PROVE  Preserves
  <2> DEFINE r == [NoRequest EXCEPT !.op = "start", !.pc = "create", !.by = u,
                                    !.sess = NoSession, !.ids = rows]
  <2>1. req' = [req EXCEPT ![h] = r] /\ At(h, "idle")
    BY <1>2 DEF AddMediaStart, Begin, At
  <2>2. r.pc = "create" /\ r.op = "start" /\ r.ids = rows
    BY DEF NoRequest
  <2> HIDE DEF r
  <2>3. Stage(r) /\ Carries(r)
    BY <1>0, <2>2 DEF Stage, Carries
  <2>4. QED
    BY <1>1, <2>1, <2>2, <2>3
<1>3. ASSUME NEW s \in Session, IsOpen(s), NEW op, NEW pc, NEW u, NEW ids,
             Begin(h, op, pc, u, s, ids),
             pc \in {"insert", "grouping", "uploadMore", "takeover", "edits", "rollback"},
             pc = "edits" => op = "confirm", pc = "rollback" => op = "cancel",
             op = "cancel" => ids = existing[s]
      PROVE  Preserves
  <2> DEFINE r == [NoRequest EXCEPT !.op = op, !.pc = pc, !.by = u, !.sess = s, !.ids = ids]
  <2>1. req' = [req EXCEPT ![h] = r] /\ At(h, "idle")
    BY <1>3 DEF Begin, At
  <2>2. r.pc = pc /\ r.op = op /\ r.ids = ids /\ r.sess = s
    BY DEF NoRequest
  <2> HIDE DEF r
  <2>3. Stage(r) /\ Carries(r)
    BY <1>3, <2>2 DEF Stage, Carries
  <2>4. QED
    BY <1>1, <1>3, <2>1, <2>2, <2>3
<1>4. ASSUME NEW u \in User, NEW s \in Session,
             AddMediaCommitUpload(h, u, s) \/ AddMediaProcessGrouping(h, u, s)
      PROVE  Preserves
  BY <1>3, <1>4 DEF AddMediaCommitUpload, AddMediaProcessGrouping
<1>5. ASSUME NEW u \in User, NEW s \in Session, AddMediaTakeover(h, u, s)
      PROVE  Preserves
  BY <1>3, <1>5 DEF AddMediaTakeover
<1>6. ASSUME NEW u \in User, NEW s \in Session, AddMediaCancel(h, u, s)
      PROVE  Preserves
  BY <1>3, <1>6 DEF AddMediaCancel, Lead
<1>7. ASSUME NEW u \in User, NEW s \in Session, NEW del, AddMediaConfirm(h, u, s, del)
      PROVE  Preserves
  BY <1>3, <1>7 DEF AddMediaConfirm, Lead
<1>8. ASSUME NEW u \in User, NEW s \in Session, NEW p, NEW del, NEW old, NEW new,
             AddMediaApplyGroups(h, u, s, p, del, old, new)
      PROVE  Preserves
  <2> DEFINE r0 == [op |-> "apply", pc |-> "delete", by |-> u, sess |-> s, pin |-> p,
                    ids |-> Requested(s, del), old |-> Requested(s, old),
                    new |-> Requested(s, new)]
             r  == IF r0.ids # {} THEN r0 ELSE [r0 EXCEPT !.pc = AfterDelete(r0)]
  <2>1. req' = [req EXCEPT ![h] = r] /\ At(h, "idle") /\ IsOpen(s)
    BY <1>8 DEF AddMediaApplyGroups, At
  <2>2. r.sess = s /\ r.op = "apply"
    OBVIOUS
  <2>3. r.pc \in {"delete", "attachOld", "createPin", "pending", "processing"}
    BY DEF AfterDelete, AfterOld, AfterNew
  <2> HIDE DEF r
  <2>4. Stage(r) /\ Carries(r)
    BY <2>1, <2>2, <2>3 DEF Stage, Carries
  <2>5. QED
    BY <1>1, <2>1, <2>3, <2>4
<1>9. QED
  BY <1>2, <1>4, <1>5, <1>6, <1>7, <1>8 DEF Request

\* CreateSession: the originals of a new session are all the media there are, and it
\* has no media of its own.
LEMMA SerialCreateSession ==
  ASSUME OneAtATime, SerialInv, NEW h \in Handler, CreateSession(h)
  PROVE  Preserves
<1>0. h \in Proc /\ req \in [Proc -> Requests] /\ At(h, "create")
  BY DEF Proc, SerialInv, TypeOK, CreateSession
<1>1. CASE Conflict /\ Finish(h) /\ UNCHANGED <<state, existing>>
  <2>1. UNCHANGED undoVars /\ rows' \subseteq rows
    BY <1>1 DEF CreateSession, undoVars, mediaVars, pinVars
  <2>2. req[h].pc \in Between
    BY <1>0 DEF At, Between, PCs
  <2>3. QED
    BY <1>1, <2>1, <2>2, BetweenEnds
<1>2. CASE ~Conflict
  <2>1. PICK s \in Session : /\ state[s] = "UNUSED"
                             /\ state' = [state EXCEPT ![s] = "open"]
                             /\ existing' = [existing EXCEPT ![s] = req[h].ids]
                             /\ req' = [req EXCEPT ![h].sess = s, ![h].pc = "uploading"]
    BY <1>2 DEF CreateSession
  <2> DEFINE r == [req[h] EXCEPT !.sess = s, !.pc = "uploading"]
  <2>2. req' = [req EXCEPT ![h] = r]
    BY <1>0, <2>1
  <2>3. r.pc = "uploading" /\ r.sess = s
    BY <1>0 DEF Requests
  <2> HIDE DEF r
  <2>4. (\A g \in Handler : req'[g] = r) /\ req'[Cron] = req[Cron]
    BY <2>2, OneSlot DEF SerialInv
  <2>5. UNCHANGED <<pending, rows, used, session, pinOf, pinRow, draftOf>>
    BY DEF CreateSession, mediaVars, pinVars
  <2>6. /\ state'[s] = "open" /\ existing'[s] \subseteq used
        /\ \A x \in Session : x # s => state'[x] = state[x] /\ existing'[x] = existing[x]
        /\ \A x \in Session : ~IsOpen(x)
    <3>1. req[h].ids \subseteq used
      BY <1>0 DEF SerialInv, Alone, Carries, At
    <3>2. QED
      BY <1>2, <2>1, <3>1 DEF SerialInv, TypeOK, Conflict
  <2>7. \A m \in Media : session[m] # s
    BY <2>1 DEF SerialInv, Alone, Uploads
  <2>8. At(Cron, "idle")'
    BY <2>4 DEF SerialInv, Alone, At
  <2>9. \A x \in Session : DraftPins(x)' = {}
    BY <2>5, <2>6 DEF SerialInv, Alone, Hidden, DraftPins
  <2>10. Uploads'
    BY <2>5, <2>6, <2>7 DEF SerialInv, Alone, Uploads
  <2>11. \A g \in Handler : Stage(req[g])' /\ Carries(req[g])'
    BY <2>3, <2>4, <2>6 DEF Stage, Carries, IsOpen
  <2>12. ASSUME Undoable PROVE Undoable'
    <3>1. \A x \in Session, m \in rows' : IsOpen(x)' => session'[m] # x
      BY <2>5, <2>6, <2>7 DEF IsOpen, SerialInv, TypeOK
    <3>2. \A x \in Session, m \in rows' : state'[x] = "cancelled" => session'[m] # x
      BY <2>5, <2>6, <2>12 DEF Undoable
    <3>3. QED
      BY <3>1, <3>2 DEF Undoable, Traces
  <2>13. QED
    BY <2>8, <2>9, <2>10, <2>11, <2>12 DEF Preserves, Alone, Hidden
<1>3. QED
  BY <1>1, <1>2 DEF CreateSession

\* CommitInSession: a medium is new, so no original, and on no pin.
LEMMA SerialCommit ==
  ASSUME OneAtATime, SerialInv, NEW h \in Handler, CommitInSession(h)
  PROVE  Preserves
<1>0. /\ At(h, "insert") /\ req' = [req EXCEPT ![h] = NoRequest]
      /\ req[h].sess \in Session /\ IsOpen(req[h].sess)
  BY DEF CommitInSession, Finish, SerialInv, Alone, Stage, At
<1>1. CASE UNCHANGED <<mediaVars, stale>>
  <2>1. UNCHANGED undoVars /\ rows' \subseteq rows
    BY <1>1 DEF CommitInSession, undoVars, mediaVars, pinVars
  <2>2. req[h].pc \in Between
    BY <1>0 DEF At, Between, PCs
  <2>3. QED
    BY <2>1, <2>2, BetweenEnds DEF CommitInSession
<1>2. CASE Cardinality(rows) < MaxMediaPerTrip
  <2>1. PICK m \in Media \ used :
          /\ rows' = rows \cup {m} /\ used' = used \cup {m}
          /\ session' = [session EXCEPT ![m] = req[h].sess]
          /\ pinOf' = [pinOf EXCEPT ![m] = NoPin]
    BY <1>2 DEF CommitInSession
  <2>2. UNCHANGED <<state, existing, pending, pinRow, draftOf>>
    BY DEF CommitInSession, pinVars
  <2>3. (\A g \in Handler : req'[g] = NoRequest) /\ req'[Cron] = req[Cron]
    BY <1>0, OneSlot DEF SerialInv
  <2>4. /\ session'[m] = req[h].sess /\ pinOf'[m] = NoPin
        /\ \A x \in Media : x # m => session'[x] = session[x] /\ pinOf'[x] = pinOf[x]
        /\ \A x \in rows : x \in Media /\ x # m
    BY <2>1 DEF SerialInv, TypeOK
  <2>5. At(Cron, "idle")'
    BY <2>3 DEF SerialInv, Alone, At
  <2>6. Hidden'
    BY <2>2 DEF SerialInv, Alone, Hidden, DraftPins, IsOpen
  <2>7. Uploads'
    BY <1>0, <2>1, <2>2, <2>4 DEF SerialInv, Alone, Uploads, IsOpen
  <2>8. \A g \in Handler : Stage(req[g])' /\ Carries(req[g])'
    BY <2>3 DEF Stage, Carries, NoRequest
  <2>9. ASSUME Undoable PROVE Undoable'
    <3>1. \A s \in Session, x \in rows' : state'[s] = "cancelled" => session'[x] # s
      BY <1>0, <2>1, <2>2, <2>4, <2>9 DEF Undoable, IsOpen
    <3>2. ASSUME NEW g \in Handler, NEW s \in Session, NEW x \in rows', IsOpen(s)', session'[x] = s
          PROVE  Traced(req[g], s, x)'
      <4>1. req'[g] = NoRequest /\ NoRequest.pc = "idle"
        BY <2>3 DEF NoRequest
      <4>2. CASE x = m
        BY <2>4, <4>1, <4>2 DEF Traced
      <4>3. CASE x # m
        <5>1. x \in rows /\ session[x] = s /\ IsOpen(s) /\ pinOf'[x] = pinOf[x]
          BY <2>1, <2>2, <2>4, <3>2, <4>3 DEF IsOpen
        <5>2. Traced(req[h], s, x)
          BY <2>9, <5>1 DEF Undoable, Traces
        <5>3. pinOf[x] = NoPin \/ pinOf[x] \in DraftPins(s) \/ x \in pending[s]
          BY <1>0, <5>2 DEF Traced, At
        <5>4. QED
          BY <2>2, <4>1, <5>1, <5>3 DEF Traced, DraftPins
      <4>4. QED
        BY <4>2, <4>3
    <3>3. QED
      BY <3>1, <3>2 DEF Undoable, Traces
  <2>10. QED
    BY <2>5, <2>6, <2>7, <2>8, <2>9 DEF Preserves, Alone
<1>3. QED
  BY <1>1, <1>2 DEF CommitInSession

\* The steps between which the media are found as they are.
LEMMA SerialPlain ==
  ASSUME OneAtATime, SerialInv, NEW h \in Handler,
         \/ StartUploading(h)  \/ SetGroupingStatus(h) \/ TouchSession(h)  \/ StartProcessing(h)
         \/ AssignInitiator(h) \/ PublishMLTask(h)     \/ BackToReady(h)   \/ ExecuteTakeover(h)
         \/ DeleteMedia(h)     \/ ApplyReviewEdits(h)
  PROVE  Preserves
<1>1. UNCHANGED undoVars /\ rows' \subseteq rows
  BY DEF StartUploading, SetGroupingStatus, TouchSession, StartProcessing, AssignInitiator,
     PublishMLTask, BackToReady, ExecuteTakeover, DeleteMedia, ApplyReviewEdits, undoVars,
     sessVars, mediaVars, pinVars
<1>2. req[h].pc \in Between \ {"idle", "create"}
  BY DEF StartUploading, SetGroupingStatus, TouchSession, StartProcessing, AssignInitiator,
     PublishMLTask, BackToReady, ExecuteTakeover, DeleteMedia, ApplyReviewEdits, At, Between, PCs
<1>3. CASE Finish(h)
  BY <1>1, <1>2, <1>3, BetweenEnds
<1>4. CASE SetGroupingStatus(h) \/ StartProcessing(h) \/ AssignInitiator(h)
  BY <1>1, <1>2, <1>4, BetweenGoes DEF SetGroupingStatus, StartProcessing, AssignInitiator, At
<1>5. CASE ExecuteTakeover(h)
  BY <1>1, <1>2, <1>3, <1>5, BetweenGoes DEF ExecuteTakeover, At
<1>6. CASE DeleteMedia(h)
  <2>1. AfterDelete(req[h]) \in {"attachOld", "createPin", "pending", "processing"}
    BY DEF AfterDelete, AfterOld, AfterNew
  <2>2. QED
    BY <1>1, <1>2, <1>3, <1>6, <2>1, BetweenGoes DEF DeleteMedia, At
<1>7. CASE ApplyReviewEdits(h)
  <2>1. req[h].op = "confirm"
    BY <1>7 DEF ApplyReviewEdits, SerialInv, Alone, Carries, At
  <2>2. QED
    BY <1>1, <1>2, <1>3, <1>7, <2>1, BetweenGoes DEF ApplyReviewEdits, At
<1>8. QED
  BY <1>3, <1>4, <1>5, <1>6, <1>7 DEF StartUploading, TouchSession, PublishMLTask, BackToReady

\* The session of the request is the open one.
LEMMA TheSession ==
  ASSUME SerialInv, NEW h \in Handler, req[h].pc \notin {"idle", "create", "ready"}
  PROVE  /\ req[h].sess \in Session /\ IsOpen(req[h].sess)
         /\ \A s \in Session : IsOpen(s) => s = req[h].sess
BY DEF SerialInv, Alone, Stage, OneActive

\* A step that writes what it takes to find the media.
LEMMA Writes ==
  ASSUME OneAtATime, SerialInv, NEW h \in Handler, req[h].pc \notin {"idle", "create", "ready"},
         NEW r, req' = [req EXCEPT ![h] = r], r.sess = req[h].sess,
         UNCHANGED <<state, existing, used, session>>, rows' \subseteq rows, Hidden',
         Stage(r)', Carries(r)',
         Undoable => \A m \in rows' : session[m] = r.sess => Traced(r, r.sess, m)'
  PROVE  Preserves
<1>1. (\A g \in Handler : req'[g] = r) /\ req'[Cron] = req[Cron]
  BY OneSlot DEF SerialInv
<1>2. At(Cron, "idle")'
  BY <1>1 DEF SerialInv, Alone, At
<1>3. Uploads'
  BY DEF SerialInv, Alone, Uploads
<1>4. \A g \in Handler : Stage(req[g])' /\ Carries(req[g])'
  BY <1>1 DEF Stage, Carries
<1>5. ASSUME Undoable PROVE Undoable'
  <2>1. \A s \in Session, m \in rows' : state'[s] = "cancelled" => session'[m] # s
    BY <1>5 DEF Undoable
  <2>2. ASSUME NEW g \in Handler, NEW s \in Session, NEW m \in rows', IsOpen(s)', session'[m] = s
        PROVE  Traced(req[g], s, m)'
    <3>1. s = r.sess /\ req'[g] = r
      BY <1>1, <2>2, TheSession DEF IsOpen
    <3>2. Traced(r, r.sess, m)'
      BY <1>5, <2>2, <3>1
    <3>3. QED
      BY <3>1, <3>2 DEF Traced
  <2>3. QED
    BY <2>1, <2>2 DEF Undoable, Traces
<1>6. QED
  BY <1>2, <1>3, <1>4, <1>5 DEF Preserves, Alone

\* AttachToExistingPin: what it attaches is what the request will record.
LEMMA SerialAttachOld ==
  ASSUME OneAtATime, SerialInv, NEW h \in Handler, AttachToExistingPin(h)
  PROVE  Preserves
<1>0. /\ h \in Proc /\ req \in [Proc -> Requests] /\ At(h, "attachOld")
      /\ req[h].pc \in Between \ {"idle", "create", "ready"}
  BY DEF Proc, SerialInv, TypeOK, AttachToExistingPin, At, Between, PCs
<1>1. UNCHANGED <<state, existing, pending, rows, used, session, pinRow, draftOf>>
  BY DEF AttachToExistingPin, sessVars, pinVars
<1>2. CASE Attach(req[h].old, req[h].pin) /\ Goto(h, AfterOld(req[h]))
  <2>0. PICK r : r = [req[h] EXCEPT !.pc = AfterOld(req[h])]
    OBVIOUS
  <2>1. req' = [req EXCEPT ![h] = r]
    BY <1>0, <1>2, <2>0 DEF Goto
  <2>2. r.pc = AfterOld(req[h]) /\ r.sess = req[h].sess /\ r.old = req[h].old
    BY <1>0, <2>0 DEF Requests
  <2>3. /\ r.pc \in {"createPin", "pending", "processing"}
        /\ req[h].old # {} => r.pc \in {"createPin", "pending"}
    BY <2>2 DEF AfterOld, AfterNew
  <2>4. Hidden'
    BY <1>1 DEF SerialInv, Alone, Hidden, DraftPins, IsOpen
  <2>5. Stage(r)'
    BY <1>0, <1>1, <2>2, <2>3, TheSession DEF Stage, IsOpen
  <2>6. Carries(r)'
    BY <2>3 DEF Carries
  <2>7. ASSUME Undoable, NEW m \in rows', session[m] = r.sess
        PROVE  Traced(r, r.sess, m)'
    <3>1. m \in rows /\ m \in Media
      BY <1>1 DEF SerialInv, TypeOK
    <3>2. CASE m \in req[h].old
      BY <2>2, <2>3, <3>2 DEF Traced
    <3>3. CASE m \notin req[h].old
      <4>1. pinOf'[m] = pinOf[m]
        BY <1>2, <3>1, <3>3 DEF Attach
      <4>2. Traced(req[h], req[h].sess, m)
        BY <1>0, <2>2, <2>7, <3>1, TheSession DEF Undoable, Traces
      <4>3. pinOf[m] = NoPin \/ pinOf[m] \in DraftPins(r.sess) \/ m \in pending[r.sess]
        BY <1>0, <2>2, <4>2 DEF Traced, At
      <4>4. QED
        BY <1>1, <2>3, <4>1, <4>3 DEF Traced, DraftPins
    <3>4. QED
      BY <3>2, <3>3
  <2>8. QED
    BY <1>0, <1>1, <2>1, <2>2, <2>4, <2>5, <2>6, <2>7, Writes
<1>3. CASE UNCHANGED pinOf
  <2> DEFINE skipped == [req[h] EXCEPT !.old = {}]
             r == [skipped EXCEPT !.pc = AfterOld(skipped)]
  <2>1. CASE req' = [req EXCEPT ![h] = r]
    <3>1. r.sess = req[h].sess /\ r.pc = AfterOld(skipped)
      BY <1>0 DEF Requests
    <3>2. AfterOld(skipped) \in {"createPin", "pending", "processing"}
      BY DEF AfterOld, AfterNew
    <3> HIDE DEF r
    <3>3. Stage(r) /\ Carries(r)
      BY <1>0, <3>1, <3>2, TheSession DEF Stage, Carries
    <3>4. Undoable => Traces(r)
      BY <1>0, <3>1, <3>2, BetweenTraces DEF Undoable
    <3>5. UNCHANGED undoVars
      BY <1>1, <1>3 DEF undoVars
    <3>6. QED
      BY <1>1, <2>1, <3>3, <3>4, <3>5, Moves
  <2>2. CASE Attach(req[h].old, req[h].pin) /\ Goto(h, AfterOld(req[h]))
    BY <1>2, <2>2
  <2>3. QED
    BY <2>1, <2>2 DEF AttachToExistingPin
<1>4. QED
  BY <1>2, <1>3 DEF AttachToExistingPin

\* The request as it is at another step.
LEMMA Going ==
  ASSUME TypeOK, NEW h \in Handler, NEW pc, Goto(h, pc)
  PROVE  \E r : /\ req' = [req EXCEPT ![h] = r] /\ r.pc = pc
                /\ r.sess = req[h].sess /\ r.op = req[h].op /\ r.ids = req[h].ids
                /\ r.old = req[h].old
<1>1. h \in Proc /\ req \in [Proc -> Requests]
  BY DEF Proc, TypeOK
<1>2. PICK r : r = [req[h] EXCEPT !.pc = pc]
  OBVIOUS
<1>3. req' = [req EXCEPT ![h] = r]
  BY <1>1, <1>2 DEF Goto
<1>4. /\ r.pc = pc /\ r.sess = req[h].sess /\ r.op = req[h].op /\ r.ids = req[h].ids
      /\ r.old = req[h].old
  BY <1>1, <1>2 DEF Requests
<1>5. QED
  BY <1>3, <1>4

\* What the request knows of the media of its session.
LEMMA TracedNow ==
  ASSUME SerialInv, Undoable, NEW h \in Handler, req[h].pc \notin {"idle", "create", "ready"},
         NEW m \in rows, session[m] = req[h].sess
  PROVE  Traced(req[h], req[h].sess, m)
BY TheSession DEF Undoable, Traces

\* CreatePin: one draft pin more.
LEMMA SerialCreatePin ==
  ASSUME OneAtATime, SerialInv, NEW h \in Handler, CreatePin(h)
  PROVE  Preserves
<1>0. /\ h \in Proc /\ req \in [Proc -> Requests] /\ req[h].pc = "createPin"
      /\ req[h].sess \in Session /\ IsOpen(req[h].sess)
  BY TheSession DEF Proc, SerialInv, TypeOK, CreatePin, At
<1>1. UNCHANGED <<state, existing, pending, rows, used, session, pinOf>>
  BY DEF CreatePin, sessVars, mediaVars
<1>2. PICK p \in Pin : /\ pinRow[p] = "UNUSED"
                       /\ pinRow' = [pinRow EXCEPT ![p] = "LIVE"]
                       /\ draftOf' = [draftOf EXCEPT ![p] = req[h].sess]
                       /\ req' = [req EXCEPT ![h].pin = p, ![h].pc = "attachNew"]
  BY DEF CreatePin
<1>3. PICK r : r = [req[h] EXCEPT !.pin = p, !.pc = "attachNew"]
  OBVIOUS
<1>4. req' = [req EXCEPT ![h] = r]
  BY <1>0, <1>2, <1>3
<1>5. r.pc = "attachNew" /\ r.sess = req[h].sess /\ r.old = req[h].old /\ r.pin = p
  BY <1>0, <1>3 DEF Requests
<1>6. \A s \in Session : DraftPins(s)' = IF s = r.sess THEN DraftPins(s) \cup {p} ELSE DraftPins(s)
  <2>1. /\ pinRow'[p] = "LIVE" /\ draftOf'[p] = r.sess
        /\ \A q \in Pin : q # p => pinRow'[q] = pinRow[q] /\ draftOf'[q] = draftOf[q]
    BY <1>2, <1>5 DEF SerialInv, TypeOK
  <2>2. QED
    BY <1>2, <2>1 DEF DraftPins
<1>7. Hidden'
  BY <1>0, <1>1, <1>5, <1>6 DEF SerialInv, Alone, Hidden, IsOpen
<1>8. Stage(r)' /\ Carries(r)'
  BY <1>0, <1>1, <1>5, <1>6 DEF Stage, Carries, IsOpen
<1>9. ASSUME Undoable, NEW m \in rows', session[m] = r.sess
      PROVE  Traced(r, r.sess, m)'
  <2>1. Traced(req[h], r.sess, m)
    BY <1>0, <1>1, <1>5, <1>9, TracedNow
  <2>2. \/ pinOf'[m] = NoPin \/ pinOf'[m] \in DraftPins(r.sess)' \/ m \in pending'[r.sess]
        \/ m \in r.old
    BY <1>0, <1>1, <1>5, <1>6, <2>1 DEF Traced
  <2>3. QED
    BY <1>5, <2>2 DEF Traced
<1>10. QED
  BY <1>0, <1>1, <1>4, <1>5, <1>7, <1>8, <1>9, Writes

\* AttachToNewPin: to a pin that a cancel deletes.
LEMMA SerialAttachNew ==
  ASSUME OneAtATime, SerialInv, NEW h \in Handler, AttachToNewPin(h)
  PROVE  Preserves
<1>0. /\ req[h].pc = "attachNew" /\ req[h].sess \in Session /\ IsOpen(req[h].sess)
      /\ req[h].pin \in DraftPins(req[h].sess)
  BY TheSession DEF SerialInv, Alone, Carries, AttachToNewPin, At
<1>1. UNCHANGED <<state, existing, pending, rows, used, session, pinRow, draftOf>>
  BY DEF AttachToNewPin, sessVars, pinVars
<1>2. Attach(req[h].new, req[h].pin) /\ Goto(h, AfterNew(req[h]))
  BY <1>0 DEF AttachToNewPin, DraftPins
<1>3. PICK r : /\ req' = [req EXCEPT ![h] = r] /\ r.pc = AfterNew(req[h])
               /\ r.sess = req[h].sess /\ r.old = req[h].old
  BY <1>2, Going DEF SerialInv
<1>4. r.pc \in {"pending", "processing"} /\ (r.old # {} => r.pc = "pending")
  BY <1>3 DEF AfterNew
<1>5. \A s \in Session : DraftPins(s)' = DraftPins(s)
  BY <1>1 DEF DraftPins
<1>6. Hidden'
  BY <1>1, <1>5 DEF SerialInv, Alone, Hidden, IsOpen
<1>7. Stage(r)' /\ Carries(r)'
  BY <1>0, <1>1, <1>3, <1>4 DEF Stage, Carries, IsOpen
<1>8. ASSUME Undoable, NEW m \in rows', session[m] = r.sess
      PROVE  Traced(r, r.sess, m)'
  <2>1. m \in rows /\ m \in Media
    BY <1>1 DEF SerialInv, TypeOK
  <2>2. Traced(req[h], r.sess, m)
    BY <1>0, <1>3, <1>8, <2>1, TracedNow
  <2>3. pinOf'[m] = req[h].pin \/ pinOf'[m] = pinOf[m]
    BY <1>2, <2>1 DEF Attach
  <2>4. \/ pinOf'[m] = NoPin \/ pinOf'[m] \in DraftPins(r.sess)' \/ m \in pending'[r.sess]
        \/ m \in r.old
    BY <1>0, <1>1, <1>3, <1>5, <2>2, <2>3 DEF Traced
  <2>5. QED
    BY <1>4, <2>4 DEF Traced
<1>9. QED
  BY <1>0, <1>1, <1>3, <1>6, <1>7, <1>8, Writes

\* AppendPending: the session is open, so what was attached is recorded.
LEMMA SerialAppend ==
  ASSUME OneAtATime, SerialInv, NEW h \in Handler, AppendPending(h)
  PROVE  Preserves
<1>0. req[h].pc = "pending" /\ req[h].sess \in Session /\ IsOpen(req[h].sess)
  BY TheSession DEF AppendPending, At
<1>1. UNCHANGED <<state, existing, rows, used, session, pinOf, pinRow, draftOf>>
  BY DEF AppendPending, mediaVars, pinVars
<1>2. PICK r : /\ req' = [req EXCEPT ![h] = r] /\ r.pc = "processing" /\ r.sess = req[h].sess
  BY Going DEF SerialInv, AppendPending
<1>3. pending'[r.sess] = pending[r.sess] \cup req[h].old
  BY <1>0, <1>2 DEF AppendPending, SerialInv, TypeOK
<1>4. \A s \in Session : DraftPins(s)' = DraftPins(s)
  BY <1>1 DEF DraftPins
<1>5. Hidden'
  BY <1>1, <1>4 DEF SerialInv, Alone, Hidden, IsOpen
<1>6. Stage(r)' /\ Carries(r)'
  BY <1>0, <1>1, <1>2 DEF Stage, Carries, IsOpen
<1>7. ASSUME Undoable, NEW m \in rows', session[m] = r.sess
      PROVE  Traced(r, r.sess, m)'
  <2>1. Traced(req[h], r.sess, m)
    BY <1>0, <1>1, <1>2, <1>7, TracedNow
  <2>2. pinOf'[m] = NoPin \/ pinOf'[m] \in DraftPins(r.sess)' \/ m \in pending'[r.sess]
    BY <1>0, <1>1, <1>2, <1>3, <1>4, <2>1 DEF Traced
  <2>3. QED
    BY <1>2, <2>2 DEF Traced
<1>8. QED
  BY <1>0, <1>1, <1>2, <1>5, <1>6, <1>7, Writes

\* PublishDraftPins: nothing is left to hide, and nothing will be undone.
LEMMA SerialPublish ==
  ASSUME OneAtATime, SerialInv, NEW h \in Handler, PublishDraftPins(h)
  PROVE  Preserves
<1>0. /\ req[h].pc = "publishPins" /\ req[h].op = "confirm"
      /\ req[h].sess \in Session /\ IsOpen(req[h].sess)
  BY TheSession DEF PublishDraftPins, At, SerialInv, Alone, Carries
<1>1. UNCHANGED <<state, existing, pending, rows, used, session, pinOf, pinRow>>
  BY DEF PublishDraftPins, sessVars, mediaVars
<1>2. PICK r : /\ req' = [req EXCEPT ![h] = r] /\ r.pc = "close"
               /\ r.sess = req[h].sess /\ r.op = req[h].op
  BY Going DEF SerialInv, PublishDraftPins
<1>3. \A s \in Session : DraftPins(s)' = IF s = r.sess THEN {} ELSE DraftPins(s)
  <2>1. /\ draftOf' = [p \in Pin |-> IF draftOf[p] = r.sess THEN NoSession ELSE draftOf[p]]
        /\ r.sess # NoSession
    BY <1>0, <1>2, NullAssumption DEF PublishDraftPins, Published
  <2>2. ASSUME NEW s \in Session
        PROVE  \A p \in Pin : draftOf'[p] = s <=> draftOf[p] = s /\ s # r.sess
    BY <2>1, NullAssumption
  <2>3. QED
    BY <1>1, <2>2 DEF DraftPins
<1>4. Hidden'
  BY <1>1, <1>3 DEF SerialInv, Alone, Hidden, IsOpen
<1>5. Stage(r)' /\ Carries(r)'
  BY <1>0, <1>1, <1>2, <1>3 DEF Stage, Carries, IsOpen
<1>6. \A m : Traced(r, r.sess, m)'
  BY <1>0, <1>2 DEF Traced
<1>7. QED
  BY <1>0, <1>1, <1>2, <1>4, <1>5, <1>6, Writes

\* RollbackAttachments: what was recorded is on no pin.
LEMMA SerialRollback ==
  ASSUME OneAtATime, SerialInv, NEW h \in Handler, RollbackAttachments(h)
  PROVE  Preserves
<1>0. /\ req[h].pc = "rollback" /\ req[h].op = "cancel" /\ req[h].ids = existing[req[h].sess]
      /\ req[h].sess \in Session /\ IsOpen(req[h].sess)
  BY TheSession DEF RollbackAttachments, At, SerialInv, Alone, Carries
<1>1. UNCHANGED <<state, existing, pending, rows, used, session, pinRow, draftOf>>
  BY DEF RollbackAttachments, sessVars, pinVars
<1>2. PICK r : /\ req' = [req EXCEPT ![h] = r] /\ r.pc = "drafts"
               /\ r.sess = req[h].sess /\ r.op = req[h].op /\ r.ids = req[h].ids
  BY Going DEF SerialInv, RollbackAttachments, Proc
<1>3. \A s \in Session : DraftPins(s)' = DraftPins(s)
  BY <1>1 DEF DraftPins
<1>4. Hidden'
  BY <1>1, <1>3 DEF SerialInv, Alone, Hidden, IsOpen
<1>5. Stage(r)' /\ Carries(r)'
  BY <1>0, <1>1, <1>2 DEF Stage, Carries, IsOpen
<1>6. ASSUME Undoable, NEW m \in rows', session[m] = r.sess
      PROVE  Traced(r, r.sess, m)'
  <2>1. Traced(req[h], r.sess, m)
    BY <1>0, <1>1, <1>2, <1>6, TracedNow
  <2>2. m \in Media /\ m \in rows
    BY <1>1 DEF SerialInv, TypeOK
  <2>3. pinOf'[m] = IF m \in pending[r.sess] THEN NoPin ELSE pinOf[m]
    BY <1>2, <2>2 DEF RollbackAttachments
  <2>4. pinOf'[m] = NoPin \/ pinOf'[m] \in DraftPins(r.sess)'
    BY <1>0, <1>2, <1>3, <2>1, <2>3 DEF Traced
  <2>5. QED
    BY <1>2, <2>4 DEF Traced
<1>7. QED
  BY <1>0, <1>1, <1>2, <1>4, <1>5, <1>6, Writes

\* DeleteDraftPins: neither is what was on a draft pin.
LEMMA SerialDrafts ==
  ASSUME OneAtATime, SerialInv, NEW h \in Handler, DeleteDraftPins(h)
  PROVE  Preserves
<1>0. /\ req[h].pc = "drafts" /\ req[h].op = "cancel" /\ req[h].ids = existing[req[h].sess]
      /\ req[h].sess \in Session /\ IsOpen(req[h].sess)
  BY TheSession DEF DeleteDraftPins, At, SerialInv, Alone, Carries
<1>1. UNCHANGED <<state, existing, pending, rows, used, session, draftOf>>
  BY DEF DeleteDraftPins, sessVars
<1>2. PICK r : /\ req' = [req EXCEPT ![h] = r] /\ r.pc = "select"
               /\ r.sess = req[h].sess /\ r.op = req[h].op /\ r.ids = req[h].ids
  BY Going DEF SerialInv, DeleteDraftPins, Proc
<1>3. DraftPins(r.sess)' = {} /\ \A s \in Session : DraftPins(s)' \subseteq DraftPins(s)
  BY <1>1, <1>2 DEF DeleteDraftPins, DraftPins
<1>4. Hidden'
  BY <1>1, <1>3 DEF SerialInv, Alone, Hidden, IsOpen
<1>5. Stage(r)' /\ Carries(r)'
  BY <1>0, <1>1, <1>2, <1>3 DEF Stage, Carries, IsOpen
<1>6. ASSUME Undoable, NEW m \in rows', session[m] = r.sess
      PROVE  Traced(r, r.sess, m)'
  <2>1. Traced(req[h], r.sess, m)
    BY <1>0, <1>1, <1>2, <1>6, TracedNow
  <2>2. m \in Media
    BY <1>1 DEF SerialInv, TypeOK
  <2>3. pinOf'[m] = IF pinOf[m] \in DraftPins(r.sess) THEN NoPin ELSE pinOf[m]
    BY <1>2, <2>2 DEF DeleteDraftPins
  <2>4. pinOf'[m] = NoPin
    BY <1>0, <2>1, <2>3 DEF Traced
  <2>5. QED
    BY <1>2, <2>4 DEF Traced
<1>7. QED
  BY <1>0, <1>1, <1>2, <1>4, <1>5, <1>6, Writes

\* SelectOrphans: so all the media of the session are selected, being no originals.
LEMMA SerialSelect ==
  ASSUME OneAtATime, SerialInv, NEW h \in Handler, SelectOrphans(h)
  PROVE  Preserves
<1>0. /\ h \in Proc /\ req \in [Proc -> Requests]
      /\ req[h].pc = "select" /\ req[h].op = "cancel" /\ req[h].ids = existing[req[h].sess]
      /\ req[h].sess \in Session /\ IsOpen(req[h].sess) /\ DraftPins(req[h].sess) = {}
  BY TheSession DEF SelectOrphans, At, SerialInv, Alone, Carries, Stage, Proc, TypeOK
<1>1. UNCHANGED <<state, existing, pending, rows, used, session, pinOf, pinRow, draftOf>>
  BY DEF SelectOrphans, sessVars, mediaVars, pinVars
<1>2. PICK r : r = [req[h] EXCEPT !.ids = Orphans(req[h].ids), !.pc = "orphans"]
  OBVIOUS
<1>3. req' = [req EXCEPT ![h] = r]
  BY <1>0, <1>2 DEF SelectOrphans
<1>4. /\ r.pc = "orphans" /\ r.sess = req[h].sess /\ r.op = req[h].op
      /\ r.ids = Orphans(existing[req[h].sess])
  BY <1>0, <1>2 DEF Requests
<1>5. \A s \in Session : DraftPins(s)' = DraftPins(s)
  BY <1>1 DEF DraftPins
<1>6. Hidden'
  BY <1>1, <1>5 DEF SerialInv, Alone, Hidden, IsOpen
<1>7. Stage(r)' /\ Carries(r)'
  BY <1>0, <1>1, <1>4, <1>5 DEF Stage, Carries, IsOpen
<1>8. ASSUME Undoable, NEW m \in rows', session[m] = r.sess
      PROVE  Traced(r, r.sess, m)'
  <2>1. Traced(req[h], r.sess, m)
    BY <1>0, <1>1, <1>4, <1>8, TracedNow
  <2>2. m \in rows /\ m \notin existing[r.sess]
    BY <1>0, <1>1, <1>4, <1>8 DEF SerialInv, TypeOK, Alone, Uploads
  <2>3. pinOf[m] = NoPin
    BY <1>0, <2>1 DEF Traced
  <2>4. m \in r.ids
    BY <1>4, <2>2, <2>3 DEF Orphans
  <2>5. QED
    BY <1>4, <2>4 DEF Traced
<1>9. QED
  BY <1>0, <1>1, <1>3, <1>4, <1>6, <1>7, <1>8, Writes

\* DeleteOrphans: and deleted.
LEMMA SerialOrphans ==
  ASSUME OneAtATime, SerialInv, NEW h \in Handler, DeleteOrphans(h)
  PROVE  Preserves
<1>0. /\ req[h].pc = "orphans" /\ req[h].op = "cancel"
      /\ req[h].sess \in Session /\ IsOpen(req[h].sess) /\ DraftPins(req[h].sess) = {}
  BY TheSession DEF DeleteOrphans, At, SerialInv, Alone, Carries, Stage
<1>1. /\ UNCHANGED <<state, existing, pending, used, session, pinOf, pinRow, draftOf>>
      /\ rows' = rows \ req[h].ids
  BY DEF DeleteOrphans, sessVars, pinVars
<1>2. PICK r : /\ req' = [req EXCEPT ![h] = r] /\ r.pc = "close"
               /\ r.sess = req[h].sess /\ r.op = req[h].op
  BY Going DEF SerialInv, DeleteOrphans, Proc
<1>3. \A s \in Session : DraftPins(s)' = DraftPins(s)
  BY <1>1 DEF DraftPins
<1>4. Hidden'
  BY <1>1, <1>3 DEF SerialInv, Alone, Hidden, IsOpen
<1>5. Stage(r)' /\ Carries(r)'
  BY <1>0, <1>1, <1>2, <1>3 DEF Stage, Carries, IsOpen
<1>6. ASSUME Undoable, NEW m \in rows', session[m] = r.sess
      PROVE  FALSE
  <2>1. Traced(req[h], r.sess, m)
    BY <1>0, <1>1, <1>2, <1>6, TracedNow
  <2>2. QED
    BY <1>0, <1>1, <1>6, <2>1 DEF Traced
<1>7. QED
  BY <1>0, <1>1, <1>2, <1>4, <1>5, <1>6, Writes

\* CloseSession: a cancelled session has neither pins nor media left.
LEMMA SerialClose ==
  ASSUME OneAtATime, SerialInv, NEW h \in Handler, CloseSession(h)
  PROVE  Preserves
<1>0. /\ req[h].pc = "close" /\ req[h].op \in {"confirm", "cancel"}
      /\ req[h].sess \in Session /\ IsOpen(req[h].sess) /\ DraftPins(req[h].sess) = {}
      /\ \A s \in Session : IsOpen(s) => s = req[h].sess
  BY TheSession DEF CloseSession, At, SerialInv, Alone, Carries, Stage
<1>1. UNCHANGED <<existing, pending, rows, used, session, pinOf, pinRow, draftOf>>
  BY DEF CloseSession, mediaVars, pinVars
<1>2. PICK r : /\ req' = [req EXCEPT ![h] = r] /\ r.pc = "ready"
  BY <1>0, Going DEF SerialInv, CloseSession, CanClose, Proc
<1>3. (\A g \in Handler : req'[g] = r) /\ req'[Cron] = req[Cron]
  BY <1>2, OneSlot DEF SerialInv
<1>4. /\ state'[req[h].sess] = (IF req[h].op = "confirm" THEN "confirmed" ELSE "cancelled")
      /\ \A s \in Session : s # req[h].sess => state'[s] = state[s]
  <2>1. state \in [Session -> Reason \cup {"UNUSED", "open"}]
    BY DEF SerialInv, TypeOK
  <2>2. state' = [state EXCEPT ![req[h].sess] = ReasonOf(h)]
    BY <1>0 DEF CloseSession, CanClose
  <2>3. ReasonOf(h) = IF req[h].op = "confirm" THEN "confirmed" ELSE "cancelled"
    BY <1>0 DEF ReasonOf
  <2>4. QED
    BY <1>0, <2>1, <2>2, <2>3
<1>5. \A s \in Session : ~IsOpen(s)'
  BY <1>0, <1>4 DEF IsOpen
<1>6. At(Cron, "idle")'
  BY <1>3 DEF SerialInv, Alone, At
<1>7. \A s \in Session : DraftPins(s)' = {}
  <2>1. \A s \in Session : DraftPins(s)' = DraftPins(s)
    BY <1>1 DEF DraftPins
  <2>2. QED
    BY <1>0, <2>1 DEF SerialInv, Alone, Hidden
<1>8. Uploads'
  BY <1>0, <1>1, <1>4 DEF SerialInv, Alone, Uploads
<1>9. \A g \in Handler : Stage(req[g])' /\ Carries(req[g])'
  BY <1>2, <1>3 DEF Stage, Carries
<1>10. ASSUME Undoable PROVE Undoable'
  <2>1. ASSUME NEW s \in Session, NEW m \in rows', state'[s] = "cancelled", session'[m] = s
        PROVE  FALSE
    <3>1. CASE s = req[h].sess
      <4>1. Traced(req[h], s, m)
        BY <1>0, <1>1, <1>10, <2>1, <3>1, TracedNow
      <4>2. req[h].op # "confirm"
        BY <1>4, <2>1, <3>1
      <4>3. QED
        BY <1>0, <4>1, <4>2 DEF Traced
    <3>2. CASE s # req[h].sess
      BY <1>1, <1>4, <1>10, <2>1, <3>2 DEF Undoable
    <3>3. QED
      BY <3>1, <3>2
  <2>2. QED
    BY <1>5, <2>1 DEF Undoable, Traces
<1>11. QED
  BY <1>6, <1>7, <1>8, <1>9, <1>10 DEF Preserves, Alone, Hidden

\* What happens beside the request: results, and time.  The cron has nothing to do.
LEMMA SerialBeside ==
  ASSUME OneAtATime, SerialInv, ResultStep \/ CronStep \/ Time \/ UNCHANGED vars
  PROVE  Preserves
<1>1. ~CronStep
  BY DEF OneAtATime, SerialInv, Alone, At, CronStep, ListAbandoned, CleanupOne, Begin, CloseStep,
     RollbackAttachments, DeleteDraftPins, SelectOrphans, DeleteOrphans, CloseSession, BackToReady
<1>2. UNCHANGED undoVars /\ UNCHANGED <<rows, req>>
  BY <1>1 DEF ResultStep, FinalizeProcessing, DeliverResult, Time, OneHour, SeventyTwoHours, vars,
     undoVars, sessVars, mediaVars, pinVars
<1>3. Alone'
  BY <1>2 DEF SerialInv, Alone, At, Hidden, Uploads, Stage, Carries, undoVars, DraftPins, IsOpen
<1>4. ASSUME Undoable PROVE Undoable'
  BY <1>2, <1>4 DEF Undoable, Traces, Traced, undoVars, DraftPins, IsOpen
<1>5. QED
  BY <1>3, <1>4 DEF Preserves

LEMMA SerialStep ==
  ASSUME OneAtATime
  PROVE  SerialInv /\ [Next]_vars => SerialInv'
<1> SUFFICES ASSUME SerialInv, [Next]_vars
             PROVE  SerialInv'
  OBVIOUS
<1>1. TypeOK' /\ OneActive'
  BY StepType, ActiveStep DEF SerialInv
<1>2. ASSUME Preserves PROVE SerialInv'
  BY <1>1, <1>2 DEF Preserves, SerialInv
<1>3. ASSUME NEW h \in Handler, Request(h) PROVE SerialInv'
  BY <1>2, <1>3, SerialRequest
<1>4. ASSUME NEW h \in Handler, HandlerStep(h) PROVE SerialInv'
  BY <1>2, <1>4, SerialCreateSession, SerialCommit, SerialPlain, SerialAttachOld, SerialCreatePin,
     SerialAttachNew, SerialAppend, SerialPublish DEF HandlerStep
<1>5. ASSUME NEW h \in Handler, CloseStep(h) PROVE SerialInv'
  BY <1>2, <1>5, SerialPlain, SerialRollback, SerialDrafts, SerialSelect, SerialOrphans, SerialClose
     DEF CloseStep
<1>6. ASSUME NEW h \in Handler, HandlerFails(h) PROVE SerialInv'
  <2>1. UNCHANGED undoVars /\ "handler" \in FaultKinds /\ req' = [req EXCEPT ![h] = NoRequest]
    BY <1>6 DEF HandlerFails, undoVars, sessVars, mediaVars, pinVars, Finish
  <2>2. Alone'
    BY <2>1, MovesAlone, IdleIsFine
  <2>3. QED
    BY <1>1, <2>1, <2>2 DEF SerialInv
<1>7. ~\E c \in Proc : LoggedFailure(c)
  BY DEF LoggedFailure, OneAtATime
<1>8. CASE ResultStep \/ CronStep \/ Time \/ UNCHANGED vars
  BY <1>2, <1>8, SerialBeside
<1>9. QED
  BY <1>3, <1>4, <1>5, <1>6, <1>7, <1>8 DEF Next

LEMMA SerialInit == Init => SerialInv
<1> SUFFICES ASSUME Init PROVE SerialInv
  OBVIOUS
<1>1. TypeOK
  BY InitType
<1>2. /\ \A s \in Session : state[s] = "UNUSED" /\ existing[s] = {}
      /\ \A m \in Media : session[m] = NoSession
      /\ \A p \in Pin : draftOf[p] = NoSession
      /\ rows \subseteq Media /\ \A c \in Proc : req[c] = NoRequest
  BY SeedAssumption DEF Init
<1>3. \A s \in Session : DraftPins(s) = {}
  BY <1>2, NullAssumption DEF DraftPins
<1>4. \A c \in Proc : At(c, "idle") /\ Stage(req[c]) /\ Carries(req[c])
  BY <1>2, IdleIsFine DEF At, NoRequest
<1>5. Alone
  BY <1>2, <1>3, <1>4, NullAssumption DEF Alone, Hidden, Uploads, Proc
<1>6. Undoable
  BY <1>2 DEF Undoable, Traces, IsOpen
<1>7. QED
  BY <1>1, <1>2, <1>5, <1>6 DEF SerialInv, OneActive, IsOpen

\* With one request at a time and no session left to the cron, no pin stays hidden for
\* ever: a session that ends has published its draft pins or deleted them, even if
\* handlers stop half-way.  (A deletion whose failure is only logged would leave them.)
THEOREM DraftsBelong ==
  ASSUME OneAtATime
  PROVE  Spec => []DraftsAreOpen
<1>1. SerialInv => DraftsAreOpen
  BY DEF SerialInv, Alone, Hidden, DraftsAreOpen
<1>2. QED
  BY <1>1, SerialInit, SerialStep, PTL DEF Spec

\* With one request at a time, none of which stops half-way, a cancel takes back the
\* whole session, however its media were moved between pins, regrouped and deleted,
\* and whoever cancelled it.
THEOREM CancelRestores ==
  ASSUME OneAtATime, "handler" \notin FaultKinds
  PROVE  Spec => []CancelUndoes
<1>1. SerialInv => CancelUndoes
  <2> SUFFICES ASSUME SerialInv, NEW s \in Session, state[s] = "cancelled"
               PROVE  DraftPins(s) = {} /\ \A m \in rows : session[m] # s
    BY DEF CancelUndoes
  <2>1. DraftPins(s) = {}
    BY DEF SerialInv, Alone, Hidden, IsOpen
  <2>2. \A m \in rows : session[m] # s
    BY DEF SerialInv, Undoable
  <2>3. QED
    BY <2>1, <2>2
<1>2. QED
  BY <1>1, SerialInit, SerialStep, PTL DEF Spec

=============================================================================
