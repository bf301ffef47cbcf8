--------------------------- MODULE PinUploadProofs ---------------------------
(***************************************************************************)
(* What PinUpload guarantees for every number of sessions, media, pins,    *)
(* requests and workers, and whatever fails.                               *)
(***************************************************************************)
EXTENDS PinUpload, FiniteSetTheorems, SequenceTheorems, TLAPS

(***************************************************************************)
(* TypeOK is not inductive: a step uses the session or pin of its request  *)
(* and the head of its batch, so the steps before it must have set them.   *)
(***************************************************************************)
SessionPCs == {"touch", "lock", "insert", "claim", "publish", "select",
               "createPin", "attachNew", "attach", "inc", "confirm", "orphans", "cancel"}
PinPCs     == {"attachNew", "attach", "inc", "refresh", "save", "deleteRow", "dec",
               "deleteMedia", "deletePin"}

\* A request has what its next step needs.
ArmedReq(r) == /\ r.pc \in SessionPCs => r.sess \in Session
               /\ r.pc \in PinPCs => r.pin \in Pin
               /\ r.op = "finalize" => r.sess \in Session

RequestsInv == RequestsOK /\ \A h \in Handler : ArmedReq(req[h])
WorkersInv  == WorkersOK /\ \A w \in Worker : wk[w].pc # "idle" => wk[w].batch # <<>>
BackInv     == /\ BackOK
               /\ ml.pc # "idle" => ml.sess \in Session
               /\ cron.pc = "close" => cron.sess \in Session

TypeInv == /\ SessionsOK /\ MediaOK /\ PinsOK /\ QueuesOK
           /\ RequestsInv /\ WorkersInv /\ BackInv /\ EnvOK

------------------------------------------------------------------------------
(* Facts about the helpers                                                  *)

\* The cardinality of a set of media is a number: Media is finite.
LEMMA MediaCardinality == ASSUME NEW S \in SUBSET Media
                          PROVE  Cardinality(S) \in Nat
<1>1. IsFiniteSet(S)
  BY FiniteAssumption, FS_Subset
<1>2. QED
  BY <1>1, FS_CardinalityType

\* The media of a session or of a pin are media.
LEMMA ListsAreMedia == ASSUME MediaOK
                       PROVE  /\ \A s : ListByUploadSession(s) \in SUBSET Media
                              /\ \A p : ListByPinID(p) \in SUBSET Media
BY DEF MediaOK, ListByUploadSession, ListByPinID

\* A request is replaced by a well-formed one: the requests stay well-formed.
LEMMA RequestSet == ASSUME RequestsInv, NEW h \in Handler, NEW r \in Requests,
                           ArmedReq(r), req' = [req EXCEPT ![h] = r]
                    PROVE  RequestsInv'
BY DEF RequestsInv, RequestsOK

\* A request that ends leaves an idle slot.
LEMMA FinishType == ASSUME RequestsInv, NEW h \in Handler, Finish(h)
                    PROVE  RequestsInv'
<1>1. NoRequest \in Requests /\ ArmedReq(NoRequest)
  BY DEF NoRequest, Requests, Operations, PCs, ArmedReq, SessionPCs, PinPCs
<1>2. QED
  BY <1>1, RequestSet DEF Finish

\* A request moves on to a step for which it has what is needed.
LEMMA GotoType == ASSUME RequestsInv, NEW h \in Handler, NEW pc \in PCs, Goto(h, pc),
                         pc \in SessionPCs => req[h].sess \in Session,
                         pc \in PinPCs => req[h].pin \in Pin
                  PROVE  RequestsInv'
<1> DEFINE r == [req[h] EXCEPT !.pc = pc]
<1>1. r \in Requests /\ ArmedReq(r)
  BY DEF RequestsInv, RequestsOK, Requests, ArmedReq
<1>2. QED
  BY <1>1, RequestSet DEF Goto

\* A client's call fills the slot of the request.
LEMMA CallType ==
  ASSUME RequestsInv, NEW h \in Handler, NEW op \in Operations, NEW pc \in PCs,
         NEW s \in Session \cup {NoSession}, NEW p \in Pin \cup {NoPin},
         NEW ids \in SUBSET Media, NEW cnt \in Nat, Call(h, op, pc, s, p, ids, cnt),
         pc \in SessionPCs \/ op = "finalize" => s \in Session, pc \in PinPCs => p \in Pin
  PROVE  RequestsInv'
<1> DEFINE r == [op |-> op, pc |-> pc, sess |-> s, pin |-> p, ids |-> ids, cnt |-> cnt]
<1>1. r \in Requests /\ ArmedReq(r)
  BY DEF Requests, ArmedReq
<1>2. QED
  BY <1>1, RequestSet DEF Call

\* A worker moves on with the batch it has.
LEMMA StepType == ASSUME WorkersInv, NEW w \in Worker, wk[w].pc # "idle",
                         NEW pc \in {"dedup", "snapshot", "ready", "announce"}, Step(w, pc)
                  PROVE  WorkersInv'
BY DEF WorkersInv, WorkersOK, Batches, Step

\* A worker acknowledges a message: its batch shrinks or is done.
LEMMA AckType == ASSUME WorkersInv, NEW w \in Worker, wk[w].pc # "idle", Ack(w)
                 PROVE  WorkersInv'
<1> DEFINE rest == Tail(wk[w].batch)
           b    == IF rest = <<>> THEN NoBatch ELSE [pc |-> "dedup", batch |-> rest]
<1>1. rest \in Seq(Session)
  BY DEF WorkersInv, WorkersOK, Batches
<1>2. b \in Batches /\ (b.pc # "idle" => b.batch # <<>>)
  BY <1>1 DEF NoBatch, Batches
<1>3. wk' = [wk EXCEPT ![w] = b]
  BY DEF Ack
<1>4. QED
  BY <1>2, <1>3 DEF WorkersInv, WorkersOK

\* An EXCEPT on a row that is there or not keeps the types of a session's columns.
LEMMA CloseRowType == ASSUME SessionsOK, NEW s, NEW r \in Reason, CloseRow(s, r),
                             UNCHANGED <<status, target, draft>>
                      PROVE  SessionsOK'
BY DEF SessionsOK, CloseRow, Touched, IsOpen, Row, Status

\* What a step leaves alone keeps its type.
LEMMA Kept == ASSUME TypeInv
              PROVE  /\ UNCHANGED sessVars => SessionsOK'
                     /\ UNCHANGED mediaVars => MediaOK'
                     /\ UNCHANGED pinVars => PinsOK'
                     /\ UNCHANGED queueVars => QueuesOK'
                     /\ UNCHANGED req => RequestsInv'
                     /\ UNCHANGED wk => WorkersInv'
                     /\ UNCHANGED <<ml, cron>> => BackInv'
                     /\ UNCHANGED backVars => WorkersInv' /\ BackInv'
                     /\ UNCHANGED envVars => EnvOK'
BY DEF TypeInv, SessionsOK, MediaOK, PinsOK, QueuesOK, RequestsInv, RequestsOK, ArmedReq,
       WorkersInv, WorkersOK, BackInv, BackOK, EnvOK, sessVars, mediaVars, pinVars,
       queueVars, backVars, envVars

------------------------------------------------------------------------------
(* Every step keeps the types                                               *)

\* A request that enters a handler leaves every table and queue well-typed.
LEMMA RequestsType == ASSUME TypeInv, NEW h \in Handler, Request(h)
                      PROVE  TypeInv'
<1>1. ASSUME NEW t \in Pin \cup {NoPin}, PinUploadStart(h, t)
      PROVE  TypeInv'
  <2>1. RequestsInv'
    BY <1>1, CallType DEF TypeInv, PinUploadStart, SessionPCs, PinPCs, PCs, Operations
  <2>2. QED
    BY <1>1, <2>1, Kept DEF TypeInv, PinUploadStart
<1>2. ASSUME NEW s \in Session,
             \/ RequestPinUploadUrls(h, s) \/ CommitPinUpload(h, s)
             \/ ProcessPinUpload(h, s) \/ CancelPinUpload(h, s)
      PROVE  TypeInv'
  <2>1. RequestsInv'
    BY <1>2, CallType DEF TypeInv, RequestPinUploadUrls, CommitPinUpload, ProcessPinUpload,
                          CancelPinUpload, SessionPCs, PinPCs, PCs, Operations
  <2>2. QED
    BY <1>2, <2>1, Kept DEF TypeInv, RequestPinUploadUrls, CommitPinUpload, ProcessPinUpload,
                            CancelPinUpload
<1>3. ASSUME NEW s \in Session, FinalizePinUpload(h, s)
      PROVE  TypeInv'
  <2>1. target[s] \in Pin \cup {NoPin}
    BY DEF TypeInv, SessionsOK
  <2>2. RequestsInv'
    BY <1>3, <2>1, CallType DEF TypeInv, FinalizePinUpload, SessionPCs, PinPCs, PCs, Operations
  <2>3. QED
    BY <1>3, <2>2, Kept DEF TypeInv, FinalizePinUpload
<1>4. ASSUME NEW p \in Pin, UpdatePin(h, p) \/ DeletePin(h, p)
      PROVE  TypeInv'
  <2>1. count[p] \in Nat
    BY DEF TypeInv, PinsOK
  <2>2. RequestsInv'
    BY <1>4, <2>1, CallType DEF TypeInv, UpdatePin, DeletePin, SessionPCs, PinPCs, PCs, Operations
  <2>3. QED
    BY <1>4, <2>2, Kept DEF TypeInv, UpdatePin, DeletePin
<1>5. ASSUME NEW p \in Pin, NEW m \in Media, RemoveMediaFromPin(h, p, m)
      PROVE  TypeInv'
  <2>1. RequestsInv'
    BY <1>5, CallType DEF TypeInv, RemoveMediaFromPin, SessionPCs, PinPCs, PCs, Operations
  <2>2. QED
    BY <1>5, <2>1, Kept DEF TypeInv, RemoveMediaFromPin
<1>6. QED
  BY <1>1, <1>2, <1>3, <1>4, <1>5 DEF Request

\* So does each step of the handlers that write the session table and the media of
\* a session: start, urls, commit, process, cancel and the closing of a finalize.
LEMMA SessionHandlersType ==
  ASSUME TypeInv, NEW h \in Handler,
         \/ CreateSession(h) \/ TouchSession(h) \/ LockAndCount(h) \/ InsertMedia(h)
         \/ ClaimProcessing(h) \/ AddPinUploadTask(h) \/ ConfirmSession(h)
         \/ DeleteOrphans(h) \/ CancelSession(h)
  PROVE  TypeInv'
<1> req[h] \in Requests /\ ArmedReq(req[h])
  BY DEF TypeInv, RequestsInv, RequestsOK
<1>1. CASE CreateSession(h)
  <2>1. RequestsInv'
    BY <1>1, FinishType DEF TypeInv, CreateSession
  <2>2. SessionsOK'
    <3>1. CASE UNCHANGED sessVars
      BY <3>1, Kept
    <3>2. CASE \E s \in Session :
                 /\ status' = [status EXCEPT ![s] = "UPLOADING"]
                 /\ target' = [target EXCEPT ![s] = req[h].pin]
                 /\ UNCHANGED <<closed, stale, draft>>
      BY <3>2 DEF TypeInv, SessionsOK, Requests, Status, Row
    <3>3. QED
      BY <1>1, <3>1, <3>2 DEF CreateSession
  <2>3. QED
    BY <1>1, <2>1, <2>2, Kept DEF TypeInv, CreateSession
<1>2. CASE TouchSession(h)
  <2>1. RequestsInv'
    BY <1>2, FinishType DEF TypeInv, TouchSession
  <2>2. SessionsOK'
    BY <1>2 DEF TypeInv, TouchSession, Touched, SessionsOK
  <2>3. QED
    BY <1>2, <2>1, <2>2, Kept DEF TypeInv, TouchSession
<1>3. CASE LockAndCount(h)
  <2> DEFINE n == Cardinality(rows)
             r == [req[h] EXCEPT !.pc = "insert", !.cnt = n]
  <2>1. n \in Nat
    BY MediaCardinality DEF TypeInv, MediaOK
  <2>2. r \in Requests /\ ArmedReq(r)
    BY <1>3, <2>1 DEF LockAndCount, At, Requests, ArmedReq, SessionPCs, PinPCs, PCs
  <2>3. Finish(h) \/ req' = [req EXCEPT ![h] = r]
    BY <1>3 DEF LockAndCount
  <2>4. RequestsInv'
    BY <2>2, <2>3, FinishType, RequestSet DEF TypeInv
  <2>5. QED
    BY <1>3, <2>4, Kept DEF TypeInv, LockAndCount
<1>4. CASE InsertMedia(h)
  <2>1. RequestsInv'
    BY <1>4, FinishType DEF TypeInv, InsertMedia
  <2>2. MediaOK'
    BY <1>4 DEF TypeInv, InsertMedia, MediaOK, mediaVars, Requests
  <2>3. SessionsOK'
    BY <1>4 DEF TypeInv, InsertMedia, SessionsOK, Touched
  <2>4. QED
    BY <1>4, <2>1, <2>2, <2>3, Kept DEF TypeInv, InsertMedia
<1>5. CASE ClaimProcessing(h)
  <2>1. RequestsInv'
    BY <1>5, FinishType, GotoType
       DEF TypeInv, ClaimProcessing, At, ArmedReq, SessionPCs, PinPCs, PCs
  <2>2. SessionsOK'
    BY <1>5 DEF TypeInv, ClaimProcessing, SessionsOK, Touched, Status, Row
  <2>3. QED
    BY <1>5, <2>1, <2>2, Kept DEF TypeInv, ClaimProcessing
<1>6. CASE AddPinUploadTask(h)
  <2>1. RequestsInv'
    BY <1>6, FinishType DEF TypeInv, AddPinUploadTask
  <2>2. QueuesOK'
    BY <1>6 DEF TypeInv, AddPinUploadTask, At, ArmedReq, SessionPCs, QueuesOK
  <2>3. QED
    BY <1>6, <2>1, <2>2, Kept DEF TypeInv, AddPinUploadTask
<1>7. CASE ConfirmSession(h) \/ CancelSession(h)
  <2>1. RequestsInv'
    BY <1>7, FinishType DEF TypeInv, ConfirmSession, CancelSession
  <2>2. SessionsOK'
    BY <1>7, CloseRowType DEF TypeInv, ConfirmSession, CancelSession, Reason
  <2>3. QED
    BY <1>7, <2>1, <2>2, Kept DEF TypeInv, ConfirmSession, CancelSession
<1>8. CASE DeleteOrphans(h)
  <2>1. RequestsInv'
    BY <1>8, GotoType DEF TypeInv, DeleteOrphans, At, ArmedReq, SessionPCs, PinPCs, PCs
  <2>2. MediaOK'
    BY <1>8 DEF TypeInv, DeleteOrphans, MediaOK
  <2>3. QED
    BY <1>8, <2>1, <2>2, Kept DEF TypeInv, DeleteOrphans
<1>9. QED
  BY <1>1, <1>2, <1>3, <1>4, <1>5, <1>6, <1>7, <1>8

\* So does each step of the handlers that write pins: finalize, remove, update, delete.
LEMMA PinHandlersType ==
  ASSUME TypeInv, NEW h \in Handler,
         \/ SelectMedia(h) \/ CreatePin(h) \/ AttachMedia(h) \/ IncMediaCount(h)
         \/ ReadPin(h) \/ SavePin(h) \/ DeleteMediaRow(h) \/ DecMediaCount(h)
         \/ DeletePinMedia(h) \/ DeletePinRow(h)
  PROVE  TypeInv'
<1>r. req[h] \in Requests /\ ArmedReq(req[h])
  BY DEF TypeInv, RequestsInv, RequestsOK
<1>1. CASE SelectMedia(h)
  <2> DEFINE L == ListByUploadSession(req[h].sess)
  <2>1. PICK del \in SUBSET L :
          /\ rows' = rows \ del
          /\ \/ Finish(h)
             \/ /\ req' = [req EXCEPT ![h].pc = "createPin", ![h].ids = L \ del]
             \/ /\ req[h].pin # NoPin
                /\ req' = [req EXCEPT ![h].ids = L \ del,
                                      ![h].pc = IF L \ del = {} THEN "confirm" ELSE "attach"]
    BY <1>1 DEF SelectMedia
  <2>2. MediaOK'
    BY <1>1, <2>1 DEF TypeInv, SelectMedia, MediaOK
  <2>3. L \ del \in SUBSET Media
    BY ListsAreMedia DEF TypeInv
  <2>4. ASSUME NEW pc \in {"createPin", "confirm", "attach"},
               pc = "attach" => req[h].pin # NoPin,
               req' = [req EXCEPT ![h].pc = pc, ![h].ids = L \ del]
        PROVE  RequestsInv'
    <3> DEFINE r == [req[h] EXCEPT !.pc = pc, !.ids = L \ del]
    <3>1. r \in Requests /\ ArmedReq(r)
      BY <1>r, <1>1, <2>3, <2>4 DEF SelectMedia, At, Requests, ArmedReq, SessionPCs, PinPCs, PCs
    <3>2. req' = [req EXCEPT ![h] = r]
      BY <2>4 DEF TypeInv, RequestsInv, RequestsOK, Requests
    <3>3. QED
      BY <3>1, <3>2, RequestSet DEF TypeInv
  <2>5. CASE Finish(h)
    BY <2>5, <2>2, <1>1, FinishType, Kept DEF TypeInv, SelectMedia
  <2>6. CASE req' = [req EXCEPT ![h].pc = "createPin", ![h].ids = L \ del]
    <3>1. RequestsInv'
      BY <2>4, <2>6
    <3>2. QED
      BY <3>1, <2>2, <1>1, Kept DEF TypeInv, SelectMedia
  <2>7. CASE /\ req[h].pin # NoPin
             /\ req' = [req EXCEPT ![h].ids = L \ del,
                                   ![h].pc = IF L \ del = {} THEN "confirm" ELSE "attach"]
    <3> DEFINE pc == IF L \ del = {} THEN "confirm" ELSE "attach"
    <3>1. req' = [req EXCEPT ![h].pc = pc, ![h].ids = L \ del]
      BY <2>7, <1>r DEF TypeInv, RequestsInv, RequestsOK, Requests
    <3>2. RequestsInv'
      BY <2>4, <2>7, <3>1
    <3>3. QED
      BY <3>2, <2>2, <1>1, Kept DEF TypeInv, SelectMedia
  <2>8. QED
    BY <2>1, <2>5, <2>6, <2>7
<1>2. CASE CreatePin(h)
  <2>1. PICK p \in Pin :
          /\ pinRow' = [pinRow EXCEPT ![p] = "LIVE"]
          /\ count' = [count EXCEPT ![p] = Cardinality(req[h].ids)]
          /\ req' = [req EXCEPT ![h].pin = p, ![h].pc = "attachNew"]
    BY <1>2 DEF CreatePin
  <2> DEFINE r == [req[h] EXCEPT !.pin = p, !.pc = "attachNew"]
  <2>2. r \in Requests /\ ArmedReq(r)
    BY <1>r, <1>2 DEF CreatePin, At, Requests, ArmedReq, SessionPCs, PinPCs, PCs
  <2>3. req' = [req EXCEPT ![h] = r]
    BY <2>1, <1>r DEF TypeInv, RequestsInv, RequestsOK, Requests
  <2>4. RequestsInv'
    BY <2>2, <2>3, RequestSet DEF TypeInv
  <2>5. Cardinality(req[h].ids) \in Nat
    BY <1>r, MediaCardinality DEF Requests
  <2>6. PinsOK'
    BY <2>1, <2>5 DEF TypeInv, PinsOK
  <2>7. QED
    BY <1>2, <2>4, <2>6, Kept DEF TypeInv, CreatePin
<1>3. CASE AttachMedia(h)
  <2>1. RequestsInv'
    BY <1>r, <1>3, FinishType, GotoType
       DEF TypeInv, AttachMedia, At, ArmedReq, SessionPCs, PinPCs, PCs
  <2>2. MediaOK'
    BY <1>r, <1>3 DEF TypeInv, AttachMedia, MediaOK, ArmedReq, PinPCs
  <2>3. QED
    BY <1>3, <2>1, <2>2, Kept DEF TypeInv, AttachMedia
<1>4. CASE IncMediaCount(h)
  <2>1. RequestsInv'
    BY <1>r, <1>4, GotoType DEF TypeInv, IncMediaCount, At, ArmedReq, SessionPCs, PinPCs, PCs
  <2>2. Attached(h) \in Nat
    BY <1>r, MediaCardinality DEF Attached, Requests
  <2>3. \A p \in Pin : count[p] + Attached(h) \in Nat
    BY <2>2 DEF TypeInv, PinsOK
  <2>4. PinsOK'
    BY <1>r, <1>4, <2>3 DEF TypeInv, IncMediaCount, PinsOK, At, ArmedReq, PinPCs
  <2>5. QED
    BY <1>4, <2>1, <2>4, Kept DEF TypeInv, IncMediaCount
<1>5. CASE ReadPin(h)
  <2>1. req[h].pin \in Pin
    BY <1>r, <1>5 DEF ReadPin, At, ArmedReq, PinPCs
  <2>2. count[req[h].pin] \in Nat
    BY <2>1 DEF TypeInv, PinsOK
  <2> DEFINE r == [req[h] EXCEPT !.pc = "save", !.cnt = count[req[h].pin]]
  <2>3. r \in Requests /\ ArmedReq(r)
    BY <1>r, <2>1, <2>2 DEF Requests, ArmedReq, SessionPCs, PinPCs, PCs
  <2>4. \/ req' = [req EXCEPT ![h] = r]
        \/ req[h].op = "finalize" /\ Goto(h, "confirm")
        \/ Finish(h)
    BY <1>5 DEF ReadPin
  <2>5. RequestsInv'
    BY <1>r, <2>3, <2>4, FinishType, GotoType, RequestSet
       DEF TypeInv, ArmedReq, SessionPCs, PinPCs, PCs
  <2>6. QED
    BY <1>5, <2>5, Kept DEF TypeInv, ReadPin
<1>6. CASE SavePin(h)
  <2>1. RequestsInv'
    BY <1>r, <1>6, FinishType, GotoType DEF TypeInv, SavePin, ArmedReq, SessionPCs, PinPCs, PCs
  <2>2. SavedCount(h) \in Nat
    BY <1>r DEF SavedCount, Requests
  <2>3. PinsOK'
    BY <1>6, <2>2 DEF TypeInv, SavePin, PinsOK
  <2>4. QED
    BY <1>6, <2>1, <2>3, Kept DEF TypeInv, SavePin
<1>7. CASE DeleteMediaRow(h) \/ DeletePinMedia(h)
  <2>1. RequestsInv'
    BY <1>r, <1>7, GotoType
       DEF TypeInv, DeleteMediaRow, DeletePinMedia, At, ArmedReq, SessionPCs, PinPCs, PCs
  <2>2. MediaOK'
    BY <1>7 DEF TypeInv, DeleteMediaRow, DeletePinMedia, MediaOK
  <2>3. QED
    BY <1>7, <2>1, <2>2, Kept DEF TypeInv, DeleteMediaRow, DeletePinMedia
<1>8. CASE DecMediaCount(h)
  <2>1. RequestsInv'
    BY <1>r, <1>8, GotoType DEF TypeInv, DecMediaCount, At, ArmedReq, SessionPCs, PinPCs, PCs
  <2>2. \A n \in Nat : Decremented(n) \in Nat
    BY DEF Decremented
  <2>3. PinsOK'
    BY <1>8, <2>2 DEF TypeInv, DecMediaCount, PinsOK
  <2>4. QED
    BY <1>8, <2>1, <2>3, Kept DEF TypeInv, DecMediaCount
<1>9. CASE DeletePinRow(h)
  <2>1. RequestsInv'
    BY <1>9, FinishType DEF TypeInv, DeletePinRow
  <2>2. SessionsOK' /\ MediaOK' /\ PinsOK'
    BY <1>9 DEF TypeInv, DeletePinRow, DeleteSessions, SessionsOK, MediaOK, PinsOK, Status
  <2>3. QED
    BY <1>9, <2>1, <2>2, Kept DEF TypeInv, DeletePinRow
<1>10. QED
  BY <1>1, <1>2, <1>3, <1>4, <1>5, <1>6, <1>7, <1>8, <1>9

\* A consumer that reads, dedups, saves, transitions or announces keeps the types.
LEMMA WorkersType ==
  ASSUME TypeInv, NEW w \in Worker, WorkerStep(w)
  PROVE  TypeInv'
<1>w. wk[w] \in Batches /\ (wk[w].pc # "idle" => Head(wk[w].batch) \in Session)
  BY DEF TypeInv, WorkersInv, WorkersOK, Batches
<1>1. CASE ReadTasks(w)
  <2>1. WorkersInv' /\ QueuesOK'
    BY <1>1 DEF TypeInv, ReadTasks, WorkersInv, WorkersOK, Batches, QueuesOK
  <2>2. QED
    BY <1>1, <2>1, Kept DEF TypeInv, ReadTasks
<1>2. CASE DedupMedia(w)
  <2>1. WorkersInv'
    BY <1>2, StepType, AckType DEF TypeInv, DedupMedia
  <2>2. MediaOK'
    BY <1>2 DEF TypeInv, DedupMedia, MediaOK
  <2>3. QED
    BY <1>2, <2>1, <2>2, Kept DEF TypeInv, DedupMedia
<1>3. CASE SaveSnapshot(w)
  <2>1. WorkersInv'
    BY <1>3, StepType DEF TypeInv, SaveSnapshot
  <2>2. [built |-> TRUE, merged |-> 0] \in Drafts
    BY DEF Drafts
  <2>3. SessionsOK'
    BY <1>3, <2>2 DEF TypeInv, SaveSnapshot, SessionsOK, Touched
  <2>4. QED
    BY <1>3, <2>1, <2>3, Kept DEF TypeInv, SaveSnapshot
<1>4. CASE SetReady(w)
  <2>1. WorkersInv'
    BY <1>4, StepType, AckType DEF TypeInv, SetReady
  <2>2. SessionsOK'
    BY <1>4 DEF TypeInv, SetReady, SessionsOK, Touched, Status, Row
  <2>3. QED
    BY <1>4, <2>1, <2>2, Kept DEF TypeInv, SetReady
<1>5. CASE Announce(w)
  <2>1. WorkersInv'
    BY <1>5, AckType DEF TypeInv, Announce
  <2>2. QueuesOK' /\ EnvOK'
    BY <1>5, BoundAssumption DEF TypeInv, Announce, QueuesOK, EnvOK
  <2>3. QED
    BY <1>5, <2>1, <2>2, Kept DEF TypeInv, Announce
<1>6. QED
  BY <1>1, <1>2, <1>3, <1>4, <1>5 DEF WorkerStep

\* A failure, wherever it strikes, leaves well-typed tables behind.
LEMMA FaultsType ==
  ASSUME TypeInv, Fault
  PROVE  TypeInv'
<1>1. ASSUME NEW h \in Handler, HandlerFails(h)
      PROVE  TypeInv'
  <2>1. RequestsInv' /\ EnvOK'
    BY <1>1, FinishType, BoundAssumption DEF TypeInv, HandlerFails, EnvOK
  <2>2. QED
    BY <1>1, <2>1, Kept DEF TypeInv, HandlerFails
<1>2. ASSUME NEW w \in Worker, WorkerError(w) \/ WorkerDrops(w) \/ WorkerCrash(w)
      PROVE  TypeInv'
  <2>1. EnvOK'
    BY <1>2, BoundAssumption DEF TypeInv, WorkerError, WorkerDrops, WorkerCrash, EnvOK
  <2>2. WorkersInv'
    <3>1. CASE WorkerError(w)
      BY <3>1, StepType DEF TypeInv, WorkerError, OnError
    <3>2. CASE WorkerDrops(w)
      BY <3>2, AckType DEF TypeInv, WorkerDrops
    <3>3. CASE WorkerCrash(w)
      BY <3>3 DEF TypeInv, WorkerCrash, WorkersInv, WorkersOK, Batches, NoBatch
    <3>4. QED
      BY <1>2, <3>1, <3>2, <3>3
  <2>3. QED
    BY <1>2, <2>1, <2>2, Kept DEF TypeInv, WorkerError, WorkerDrops, WorkerCrash
<1>3. QED
  BY <1>1, <1>2 DEF Fault

\* The ML result handler writes well-typed snapshots and statuses.
LEMMA ResultsType ==
  ASSUME TypeInv, ResultStep
  PROVE  TypeInv'
<1>d. [built |-> FALSE, merged |-> 0] \in Drafts
  BY DEF Drafts
<1>n. NoResult.pc = "idle" /\ NoResult \in [pc : {"idle", "merge", "status"}, old : Row,
                                            draft : Drafts, sess : Session \cup {NoSession}]
  BY <1>d DEF NoResult, Row
<1>1. ASSUME NEW s \in Session, DeliverResult(s)
      PROVE  TypeInv'
  <2>1. QueuesOK'
    BY <1>1 DEF TypeInv, DeliverResult, QueuesOK
  <2>2. BackInv'
    BY <1>1 DEF TypeInv, DeliverResult, BackInv, BackOK, SessionsOK, Row
  <2>3. QED
    BY <1>1, <2>1, <2>2, Kept DEF TypeInv, DeliverResult
<1>2. CASE MergeResult
  <2>1. [ml.draft EXCEPT !.merged = @ + 1] \in Drafts
    BY DEF TypeInv, BackInv, BackOK, Drafts
  <2>2. SessionsOK'
    BY <1>2, <2>1 DEF TypeInv, MergeResult, SessionsOK, Touched
  <2>3. BackInv'
    BY <1>2 DEF TypeInv, MergeResult, BackInv, BackOK
  <2>4. QED
    BY <1>2, <2>2, <2>3, Kept DEF TypeInv, MergeResult
<1>3. CASE AckResult
  <2>1. SessionsOK'
    BY <1>3 DEF TypeInv, AckResult, SessionsOK, Touched, Status, Row
  <2>2. QueuesOK'
    BY <1>3 DEF TypeInv, AckResult, QueuesOK, queueVars
  <2>3. BackInv'
    BY <1>3, <1>n DEF TypeInv, AckResult, BackInv, BackOK
  <2>4. QED
    BY <1>3, <2>1, <2>2, <2>3, Kept DEF TypeInv, AckResult
<1>4. QED
  BY <1>1, <1>2, <1>3 DEF ResultStep

\* The cleanup pass, the janitor and the passing of time keep the types.
LEMMA CleanupType ==
  ASSUME TypeInv, CleanupStep \/ Environment
  PROVE  TypeInv'
<1>1. CASE ListAbandoned
  <2>1. BackInv'
    BY <1>1 DEF TypeInv, ListAbandoned, NoPass, BackInv, BackOK
  <2>2. QED
    BY <1>1, <2>1, Kept DEF TypeInv, ListAbandoned
<1>2. ASSUME NEW s \in Session, CleanOrphans(s)
      PROVE  TypeInv'
  <2>1. MediaOK' /\ BackInv'
    BY <1>2 DEF TypeInv, CleanOrphans, MediaOK, BackInv, BackOK
  <2>2. QED
    BY <1>2, <2>1, Kept DEF TypeInv, CleanOrphans
<1>3. CASE CloseAbandoned
  <2>1. SessionsOK'
    BY <1>3, CloseRowType DEF TypeInv, CloseAbandoned, Reason
  <2>2. BackInv'
    BY <1>3 DEF TypeInv, CloseAbandoned, NoPass, BackInv, BackOK
  <2>3. QED
    BY <1>3, <2>1, <2>2, Kept DEF TypeInv, CloseAbandoned
<1>4. ASSUME NEW s \in Session, SeventyTwoHours(s)
      PROVE  TypeInv'
  <2>1. SessionsOK'
    BY <1>4 DEF TypeInv, SeventyTwoHours, SessionsOK
  <2>2. QED
    BY <1>4, <2>1, Kept DEF TypeInv, SeventyTwoHours
<1>5. ASSUME NEW s \in Session, DeleteClosed(s)
      PROVE  TypeInv'
  <2>1. SessionsOK' /\ MediaOK'
    BY <1>5 DEF TypeInv, DeleteClosed, DeleteSessions, SessionsOK, MediaOK, Status
  <2>2. QED
    BY <1>5, <2>1, Kept DEF TypeInv, DeleteClosed
<1>6. CASE TripStatusChanges
  <2>1. EnvOK'
    BY <1>6 DEF TypeInv, TripStatusChanges, EnvOK
  <2>2. QED
    BY <1>6, <2>1, Kept DEF TypeInv, TripStatusChanges
<1>7. QED
  BY <1>1, <1>2, <1>3, <1>4, <1>5, <1>6 DEF CleanupStep, Environment

\* The empty trip, or the trip with one pin, is well-typed.
LEMMA InitType == Init => TypeInv
<1> SUFFICES ASSUME Init PROVE TypeInv
  OBVIOUS
<1>1. SessionsOK /\ QueuesOK /\ EnvOK
  BY BoundAssumption DEF Init, SessionsOK, QueuesOK, EnvOK, Status, Row, Drafts
<1>2. MediaOK
  BY SeedAssumption DEF Init, MediaOK
<1>3. PinsOK
  BY SeedAssumption, MediaCardinality DEF Init, PinsOK
<1>4. RequestsInv
  BY DEF Init, RequestsInv, RequestsOK, NoRequest, Requests, Operations, PCs,
         ArmedReq, SessionPCs, PinPCs
<1>5. WorkersInv
  BY DEF Init, WorkersInv, WorkersOK, NoBatch, Batches
<1>6. BackInv
  BY DEF Init, BackInv, BackOK, NoResult, NoPass, Row, Drafts
<1>7. QED
  BY <1>1, <1>2, <1>3, <1>4, <1>5, <1>6 DEF TypeInv

\* The strengthened type invariant is inductive.
LEMMA StepTypeInv == TypeInv /\ [Next]_vars => TypeInv'
<1> SUFFICES ASSUME TypeInv, [Next]_vars PROVE TypeInv'
  OBVIOUS
<1>1. ASSUME NEW h \in Handler, HandlerStep(h)
      PROVE  TypeInv'
  BY <1>1, SessionHandlersType, PinHandlersType DEF HandlerStep
<1>2. CASE UNCHANGED vars
  BY <1>2, Kept DEF TypeInv, vars
<1>3. QED
  BY <1>1, <1>2, RequestsType, WorkersType, ResultsType, CleanupType, FaultsType DEF Next

\* Every reachable state satisfies the strengthened type invariant.
LEMMA TypeInvariant == Spec => []TypeInv
BY InitType, StepTypeInv, PTL DEF Spec

\* Every reachable state is well-typed: no handler, consumer or timer writes
\* through a session or a pin it never read, whatever ran since it read it.
THEOREM TypeCorrect == Spec => []TypeOK
<1>1. TypeInv => TypeOK
  BY DEF TypeInv, TypeOK, RequestsInv, WorkersInv, BackInv
<1>2. QED
  BY <1>1, TypeInvariant, PTL

------------------------------------------------------------------------------
(* The writes of pin_upload_sessions                                        *)

\* All that any step of any actor does to the table.
Opens(s, t)  == /\ status[s] = "UNUSED" /\ ~Conflict(t)
                /\ status' = [status EXCEPT ![s] = "UPLOADING"]
                /\ target' = [target EXCEPT ![s] = t]
                /\ UNCHANGED <<closed, draft>>
Advances(s)  == /\ IsOpen(s) /\ status[s] # "READY_FOR_REVIEW"
                /\ status' = [status EXCEPT ![s] = Life!After(status[s])]
                /\ UNCHANGED <<target, closed, draft>>
Closes(s, r) == /\ IsOpen(s)
                /\ closed' = [closed EXCEPT ![s] = r]
                /\ UNCHANGED <<status, target, draft>>
Drafted(s)   == /\ IsOpen(s)
                /\ \E d \in Drafts : draft' = [draft EXCEPT ![s] = d]
                /\ UNCHANGED <<status, target, closed>>
Removes(S)   == /\ \A s \in S : status[s] \in Row
                /\ \/ \A s \in S : closed[s] # "open"
                   \/ \E p \in Pin : \A s \in S : target[s] = p
                /\ status' = [s \in Session |-> IF s \in S THEN "DELETED" ELSE status[s]]
                /\ UNCHANGED <<target, closed, draft>>
TableWrite == \/ UNCHANGED <<status, target, closed, draft>>
              \/ \E s \in Session, t \in Pin \cup {NoPin} : Opens(s, t)
              \/ \E s \in Session : Advances(s)
              \/ \E s \in Session, r \in Reason : Closes(s, r)
              \/ \E s \in Session : Drafted(s)
              \/ \E S \in SUBSET Session : Removes(S)

\* CloseRow, called with a session that is still there or not, closes at most it.
LEMMA CloseRowWrites == ASSUME NEW s \in Session, NEW r \in Reason, CloseRow(s, r),
                               UNCHANGED <<status, target, draft>>
                        PROVE  TableWrite
BY DEF CloseRow, TableWrite, Closes

\* What a step of a request handler does to the session table.
LEMMA HandlersWrite == ASSUME TypeInv, NEW h \in Handler, HandlerStep(h)
                       PROVE  TableWrite
<1>r. req[h] \in Requests /\ ArmedReq(req[h])
  BY DEF TypeInv, RequestsInv, RequestsOK
<1>1. CASE CreateSession(h)
  <2>1. req[h].pin \in Pin \cup {NoPin}
    BY <1>r DEF Requests
  <2>2. QED
    BY <1>1, <2>1 DEF CreateSession, TableWrite, Opens, sessVars
<1>2. CASE ClaimProcessing(h)
  <2>1. req[h].sess \in Session
    BY <1>r, <1>2 DEF ClaimProcessing, At, ArmedReq, SessionPCs
  <2>2. QED
    BY <1>2, <2>1 DEF ClaimProcessing, CanSetStatus, TableWrite, Advances, Life!After
<1>3. CASE ConfirmSession(h) \/ CancelSession(h)
  <2>1. req[h].sess \in Session
    BY <1>r, <1>3 DEF ConfirmSession, CancelSession, At, ArmedReq, SessionPCs
  <2>2. QED
    BY <1>3, <2>1, CloseRowWrites DEF ConfirmSession, CancelSession, Reason
<1>4. CASE DeletePinRow(h)
  <2> DEFINE p == req[h].pin
             S == {s \in Session : status[s] \in Row /\ target[s] = p}
  <2>1. p \in Pin
    BY <1>r, <1>4 DEF DeletePinRow, At, ArmedReq, PinPCs
  <2>2. UNCHANGED <<target, closed, draft>> /\ (DeleteSessions(S) \/ UNCHANGED status)
    BY <1>4 DEF DeletePinRow
  <2>3. QED
    BY <2>1, <2>2 DEF DeleteSessions, TableWrite, Removes
<1>5. CASE TouchSession(h) \/ InsertMedia(h)
  BY <1>5 DEF TouchSession, InsertMedia, TableWrite
<1>6. CASE \/ LockAndCount(h) \/ AddPinUploadTask(h) \/ SelectMedia(h) \/ CreatePin(h)
           \/ AttachMedia(h) \/ IncMediaCount(h) \/ ReadPin(h) \/ SavePin(h)
           \/ DeleteOrphans(h) \/ DeleteMediaRow(h) \/ DecMediaCount(h) \/ DeletePinMedia(h)
  <2>1. UNCHANGED sessVars
    BY <1>6 DEF LockAndCount, AddPinUploadTask, SelectMedia, CreatePin, AttachMedia,
                IncMediaCount, ReadPin, SavePin, DeleteOrphans, DeleteMediaRow,
                DecMediaCount, DeletePinMedia
  <2>2. QED
    BY <2>1 DEF sessVars, TableWrite
<1>7. QED
  BY <1>1, <1>2, <1>3, <1>4, <1>5, <1>6 DEF HandlerStep

\* What the consumers, the ML results, the cleanup and the environment do to it.
LEMMA BackgroundWrites ==
  ASSUME TypeInv, \/ \E w \in Worker : WorkerStep(w)
                  \/ ResultStep \/ CleanupStep \/ Environment
  PROVE  TableWrite
<1>1. ASSUME NEW w \in Worker, WorkerStep(w)
      PROVE  TableWrite
  <2>s. wk[w].pc # "idle" => Head(wk[w].batch) \in Session
    BY DEF TypeInv, WorkersInv, WorkersOK, Batches
  <2>1. CASE SaveSnapshot(w)
    <3>1. [built |-> TRUE, merged |-> 0] \in Drafts
      BY DEF Drafts
    <3>2. QED
      BY <2>s, <2>1, <3>1 DEF SaveSnapshot, CanSetSnapshot, TableWrite, Drafted
  <2>2. CASE SetReady(w)
    BY <2>s, <2>2 DEF SetReady, CanSetStatus, TableWrite, Advances, Life!After
  <2>3. CASE ReadTasks(w) \/ DedupMedia(w) \/ Announce(w)
    BY <2>3 DEF ReadTasks, DedupMedia, Announce, sessVars, TableWrite
  <2>4. QED
    BY <1>1, <2>1, <2>2, <2>3 DEF WorkerStep
<1>2. CASE \E s \in Session : DeliverResult(s)
  BY <1>2 DEF DeliverResult, sessVars, TableWrite
<1>3. CASE MergeResult
  <2>1. [ml.draft EXCEPT !.merged = @ + 1] \in Drafts /\ ml.sess \in Session
    BY <1>3 DEF TypeInv, BackInv, BackOK, Drafts, MergeResult
  <2>2. QED
    BY <1>3, <2>1 DEF MergeResult, CanSetSnapshot, TableWrite, Drafted
<1>4. CASE AckResult
  <2>1. ml.sess \in Session
    BY <1>4 DEF TypeInv, BackInv, AckResult
  <2>2. QED
    BY <1>4, <2>1 DEF AckResult, CanSetStatus, TableWrite, Advances, Life!After
<1>5. CASE ListAbandoned \/ \E s \in Session : CleanOrphans(s)
  BY <1>5 DEF ListAbandoned, CleanOrphans, sessVars, TableWrite
<1>6. CASE CloseAbandoned
  <2>1. cron.sess \in Session
    BY <1>6 DEF TypeInv, BackInv, CloseAbandoned
  <2>2. QED
    BY <1>6, <2>1, CloseRowWrites DEF CloseAbandoned, Reason
<1>7. ASSUME NEW s \in Session, DeleteClosed(s)
      PROVE  TableWrite
  BY <1>7 DEF DeleteClosed, DeleteSessions, TableWrite, Removes
<1>8. CASE TripStatusChanges \/ \E s \in Session : SeventyTwoHours(s)
  BY <1>8 DEF TripStatusChanges, SeventyTwoHours, sessVars, TableWrite
<1>9. QED
  BY <1>1, <1>2, <1>3, <1>4, <1>5, <1>6, <1>7, <1>8 DEF ResultStep, CleanupStep, Environment

\* Whatever step the system takes, the table sees one of the six writes.
LEMMA StepWrites == TypeInv /\ [Next]_vars => TableWrite
<1> SUFFICES ASSUME TypeInv, [Next]_vars PROVE TableWrite
  OBVIOUS
<1>1. ASSUME NEW h \in Handler, Request(h)
      PROVE  UNCHANGED sessVars
  BY <1>1 DEF Request, PinUploadStart, RequestPinUploadUrls, CommitPinUpload, ProcessPinUpload,
              FinalizePinUpload, CancelPinUpload, UpdatePin, DeletePin, RemoveMediaFromPin
<1>2. CASE Fault
  BY <1>2 DEF Fault, HandlerFails, WorkerError, WorkerDrops, WorkerCrash, sessVars, TableWrite
<1>3. CASE UNCHANGED vars
  BY <1>3 DEF vars, sessVars, TableWrite
<1>4. QED
  BY <1>1, <1>2, <1>3, HandlersWrite, BackgroundWrites DEF Next, sessVars, TableWrite

------------------------------------------------------------------------------
(* What follows for the sessions                                            *)

\* UniqueActive is inductive: an INSERT that would break it hits the unique index.
LEMMA UniqueStep == TypeInv /\ UniqueActive /\ [Next]_vars => UniqueActive'
<1> SUFFICES ASSUME TypeInv, UniqueActive, [Next]_vars,
                    NEW s \in Session, NEW x \in Session, IsOpen(s)', IsOpen(x)',
                    target'[s] = target'[x]
             PROVE  s = x
  BY DEF UniqueActive
<1>t. /\ status \in [Session -> Status] /\ target \in [Session -> Pin \cup {NoPin}]
      /\ closed \in [Session -> Reason \cup {"open"}]
  BY DEF TypeInv, SessionsOK
<1>1. ASSUME NEW y \in Session, NEW t \in Pin \cup {NoPin}, Opens(y, t)
      PROVE  s = x
  <2>1. \A z \in Session \ {y} : IsOpen(z)' => IsOpen(z) /\ target'[z] = target[z]
    BY <1>t, <1>1 DEF Opens, IsOpen
  <2>2. target'[y] = t /\ \A z \in Session : IsOpen(z) => target[z] # t
    BY <1>t, <1>1 DEF Opens, Conflict
  <2>3. CASE s # y /\ x # y
    BY <2>1, <2>3 DEF UniqueActive
  <2>4. CASE s = y /\ x # y
    BY <2>1, <2>2, <2>4
  <2>5. CASE s # y /\ x = y
    BY <2>1, <2>2, <2>5
  <2>6. QED
    BY <2>3, <2>4, <2>5
<1>2. CASE ~ \E y \in Session, t \in Pin \cup {NoPin} : Opens(y, t)
  <2>1. UNCHANGED target /\ \A z \in Session : IsOpen(z)' => IsOpen(z)
    BY <1>t, <1>2, StepWrites
       DEF TableWrite, Advances, Closes, Drafted, Removes, IsOpen, Row, Reason
  <2>2. QED
    BY <2>1 DEF UniqueActive
<1>3. QED
  BY <1>1, <1>2

\* However requests interleave and whatever fails, two sessions are never open
\* on one target: PinUploadStart, FinalizePinUpload, the cancel and the cron.
THEOREM OneSessionPerTarget == Spec => []UniqueActive
<1>1. Init => UniqueActive
  BY DEF Init, UniqueActive, IsOpen, Row
<1>2. QED
  BY <1>1, UniqueStep, TypeInvariant, PTL DEF Spec

\* A closed session's row stays as it was closed, until it leaves the table.
THEOREM ClosedStaysClosed == Spec => ClosedIsFinal
<1> DEFINE Frozen(s) ==
      status[s] \in Row /\ closed[s] # "open" =>
        /\ closed'[s] = closed[s] /\ draft'[s] = draft[s] /\ target'[s] = target[s]
        /\ status'[s] \in {status[s], "DELETED"}
<1>1. TypeInv /\ [Next]_vars => [\A s \in Session : Frozen(s)]_vars
  <2> SUFFICES ASSUME TypeInv, [Next]_vars, NEW s \in Session, status[s] \in Row,
                      closed[s] # "open"
               PROVE  Frozen(s)
    OBVIOUS
  <2>1. /\ status \in [Session -> Status] /\ target \in [Session -> Pin \cup {NoPin}]
        /\ closed \in [Session -> Reason \cup {"open"}] /\ draft \in [Session -> Drafts]
    BY DEF TypeInv, SessionsOK
  <2>2. ~IsOpen(s) /\ status[s] # "UNUSED"
    BY DEF IsOpen, Row
  <2>3. QED
    BY <2>1, <2>2, StepWrites DEF TableWrite, Opens, Advances, Closes, Drafted, Removes
<1>2. QED
  BY <1>1, TypeInvariant, PTL DEF Spec, ClosedIsFinal

\* PinUpload implements UploadSession: every write of the table, by whichever
\* actor and at whatever moment, is a step of the session's lifecycle.
THEOREM LifecycleImplemented == Spec => ImplementsLifecycle
<1>1. Init => Life!LifeInit
  BY DEF Init, Life!LifeInit
<1>2. TypeInv /\ [Next]_vars => [Life!LifeNext]_Life!lifeVars
  <2> SUFFICES ASSUME TypeInv, [Next]_vars PROVE [Life!LifeNext]_Life!lifeVars
    OBVIOUS
  <2>o. \A s \in Session : IsOpen(s) <=> Life!IsOpen(s)
    BY DEF IsOpen, Life!IsOpen, Row, Life!Row
  <2>1. ASSUME NEW s \in Session, NEW t \in Pin \cup {NoPin}, Opens(s, t)
        PROVE  Life!LifeNext
    <3>1. Life!Open(s, t)
      BY <2>1, <2>o DEF Opens, Conflict, Life!Open
    <3>2. QED
      BY <3>1 DEF Life!LifeNext
  <2>2. ASSUME NEW s \in Session, Advances(s)
        PROVE  Life!LifeNext
    <3>1. Life!Advance(s)
      BY <2>2, <2>o DEF Advances, Life!Advance
    <3>2. QED
      BY <3>1 DEF Life!LifeNext
  <2>3. ASSUME NEW s \in Session, NEW r \in Reason, Closes(s, r)
        PROVE  Life!LifeNext
    <3>1. Life!Shut(s, r) /\ r \in Life!Reason
      BY <2>3, <2>o DEF Closes, Life!Shut, Reason, Life!Reason
    <3>2. QED
      BY <3>1 DEF Life!LifeNext
  <2>4. ASSUME NEW S \in SUBSET Session, Removes(S)
        PROVE  Life!LifeNext
    <3>1. Life!Remove(S)
      BY <2>4 DEF Removes, Life!Remove, Row, Life!Row
    <3>2. QED
      BY <3>1 DEF Life!LifeNext
  <2>5. CASE UNCHANGED <<status, target, closed, draft>> \/ \E s \in Session : Drafted(s)
    BY <2>5 DEF Drafted, Life!lifeVars
  <2>6. QED
    BY <2>1, <2>2, <2>3, <2>4, <2>5, StepWrites DEF TableWrite
<1>3. QED
  BY <1>1, <1>2, TypeInvariant, PTL DEF Spec, ImplementsLifecycle, Life!LifeSpec

------------------------------------------------------------------------------
(* Attached media                                                           *)

\* content_hash is never filled: the consumer finds no duplicate.
LEMMA NoDuplicates == \A new, old : Duplicates(new, old) = {}
BY DEF Duplicates, ContentHash

\* The dedup, the cancel and the cleanup cron take media without a pin, or none;
\* the other deletions are those a user asked for.
THEOREM AttachedStays == Spec => AttachedIsKept
<1> DEFINE Asked == \A m \in rows \ rows' : pinOf[m] # NoPin => Deleting(m)
<1>1. ASSUME NEW h \in Handler, HandlerStep(h)
      PROVE  Asked
  <2>1. CASE SelectMedia(h)
    <3>1. At(h, "select") /\ \A m \in rows \ rows' : m \in ListByUploadSession(req[h].sess)
      BY <2>1 DEF SelectMedia
    <3>2. QED
      BY <3>1 DEF ListByUploadSession, Deleting
  <2>2. CASE DeleteOrphans(h)
    BY <2>2 DEF DeleteOrphans, Orphans
  <2>3. CASE DeleteMediaRow(h)
    BY <2>3 DEF DeleteMediaRow, Deleting
  <2>4. CASE DeletePinMedia(h)
    BY <2>4 DEF DeletePinMedia, ListByPinID, Deleting
  <2>5. CASE InsertMedia(h)
    <3>1. rows \subseteq rows'
      BY <2>5 DEF InsertMedia, mediaVars
    <3>2. QED
      BY <3>1
  <2>6. CASE \/ CreateSession(h) \/ TouchSession(h) \/ LockAndCount(h) \/ ClaimProcessing(h)
             \/ AddPinUploadTask(h) \/ CreatePin(h) \/ AttachMedia(h) \/ IncMediaCount(h)
             \/ ReadPin(h) \/ SavePin(h) \/ ConfirmSession(h) \/ CancelSession(h)
             \/ DecMediaCount(h) \/ DeletePinRow(h)
    <3>1. rows' = rows
      BY <2>6 DEF CreateSession, TouchSession, LockAndCount, ClaimProcessing, AddPinUploadTask,
         CreatePin, AttachMedia, IncMediaCount, ReadPin, SavePin, ConfirmSession, CancelSession,
         DecMediaCount, DeletePinRow, mediaVars
    <3>2. QED
      BY <3>1
  <2>7. QED
    BY <1>1, <2>1, <2>2, <2>3, <2>4, <2>5, <2>6 DEF HandlerStep
<1>2. ASSUME NEW s \in Session, CleanOrphans(s)
      PROVE  Asked
  BY <1>2 DEF CleanOrphans, Orphans
<1>3. ASSUME NEW w \in Worker, DedupMedia(w)
      PROVE  Asked
  <2>1. rows' = rows
    BY <1>3, NoDuplicates DEF DedupMedia
  <2>2. QED
    BY <2>1
<1>4. ASSUME [Next]_vars, ~ \E h \in Handler : HandlerStep(h),
             ~ \E s \in Session : CleanOrphans(s), ~ \E w \in Worker : DedupMedia(w)
      PROVE  Asked
  <2>1. ASSUME NEW h \in Handler, Request(h)
        PROVE  rows' = rows
    BY <2>1 DEF Request, PinUploadStart, RequestPinUploadUrls, CommitPinUpload, ProcessPinUpload,
       FinalizePinUpload, CancelPinUpload, UpdatePin, DeletePin, RemoveMediaFromPin, mediaVars
  <2>2. CASE Fault \/ UNCHANGED vars
    <3>1. rows' = rows
      BY <2>2 DEF Fault, HandlerFails, WorkerError, WorkerDrops, WorkerCrash, vars, mediaVars
    <3>2. QED
      BY <3>1
  <2>3. ASSUME NEW w \in Worker, WorkerStep(w)
        PROVE  rows' = rows
    BY <1>4, <2>3 DEF WorkerStep, ReadTasks, SaveSnapshot, SetReady, Announce, mediaVars
  <2>4. CASE ResultStep \/ CleanupStep \/ Environment
    <3>1. rows' = rows
      BY <1>4, <2>4 DEF ResultStep, DeliverResult, MergeResult, AckResult, CleanupStep,
         ListAbandoned,
         CloseAbandoned, Environment, SeventyTwoHours, DeleteClosed, TripStatusChanges, mediaVars
    <3>2. QED
      BY <3>1
  <2>5. QED
    BY <1>4, <2>1, <2>2, <2>3, <2>4 DEF Next
<1>5. [Next]_vars => [Asked]_vars
  BY <1>1, <1>2, <1>3, <1>4
<1> HIDE DEF Asked
<1>6. AttachedIsKept <=> [][Asked]_vars
  BY PTL DEF AttachedIsKept, Asked
<1>7. QED
  BY <1>5, <1>6, PTL DEF Spec

------------------------------------------------------------------------------
(* Tasks                                                                    *)

(***************************************************************************)
(* A session leaves UNUSED and UPLOADING once, by the CAS of the request   *)
(* that will publish its task: before that its id is nowhere, while the    *)
(* request is about to publish it still is, and nobody else is about to.   *)
(***************************************************************************)
Publishing(h, s) == At(h, "publish") /\ req[h].sess = s
Batch(w)         == wk[w].batch

\* The task queue and the consumers hold every session at most once.
OneEntry ==
  /\ \A i, j \in DOMAIN stream : stream[i] = stream[j] => i = j
  /\ \A w, v \in Worker : \A i \in DOMAIN Batch(w), j \in DOMAIN Batch(v) :
       Batch(w)[i] = Batch(v)[j] => w = v /\ i = j
  /\ \A i \in DOMAIN stream, w \in Worker : \A j \in DOMAIN Batch(w) : stream[i] # Batch(w)[j]

Absent(s) == /\ \A i \in DOMAIN stream : stream[i] # s
             /\ \A w \in Worker : \A i \in DOMAIN Batch(w) : Batch(w)[i] # s

Unclaimed(s) == status[s] \in {"UNUSED", "UPLOADING"}
Over(s)      == status[s] \in {"READY_FOR_REVIEW", "DELETED"}

Unpublished == \A s \in Session : Unclaimed(s) => Absent(s)
Publishers  == \A h \in Handler, s \in Session : Publishing(h, s) =>
                 /\ ~Unclaimed(s) /\ Absent(s)
                 /\ \A g \in Handler : Publishing(g, s) => g = h
Announced   == \A w \in Worker : /\ wk[w].pc = "announce" => Over(Head(Batch(w)))
                                 /\ wk[w].pc = "idle" => Batch(w) = <<>>

TaskInv == TypeInv /\ OneEntry /\ Unpublished /\ Publishers /\ Announced

\* No step takes a session back before its claim, or back from review.
LEMMA ClaimsLast ==
  ASSUME TypeInv, [Next]_vars, NEW s \in Session
  PROVE  /\ Unclaimed(s)' => Unclaimed(s)
         /\ Over(s) => Over(s)'
<1>1. /\ status \in [Session -> Status] /\ closed \in [Session -> Reason \cup {"open"}]
  BY DEF TypeInv, SessionsOK
<1>2. QED
  BY <1>1, StepWrites DEF TableWrite, Opens, Advances, Closes, Drafted, Removes, Unclaimed, Over,
     IsOpen, Row, Life!After

\* Only the CAS of ProcessPinUpload makes a request the publisher of a session.
LEMMA RequestPublishes ==
  ASSUME TypeInv, NEW h \in Handler, Request(h)
  PROVE  /\ UNCHANGED <<stream, wk>>
         /\ \A s : \A g \in Handler : Publishing(g, s)' => Publishing(g, s)
<1>1. req \in [Handler -> Requests]
  BY DEF TypeInv, RequestsInv, RequestsOK
<1>2. ASSUME NEW op, NEW pc, NEW s, NEW p, NEW ids, NEW cnt, pc # "publish",
             Call(h, op, pc, s, p, ids, cnt)
      PROVE  \A x : \A g \in Handler : Publishing(g, x)' => Publishing(g, x)
  BY <1>1, <1>2 DEF Call, Publishing, At
<1>3. ASSUME NEW t \in Pin \cup {NoPin}, PinUploadStart(h, t)
      PROVE  \A x : \A g \in Handler : Publishing(g, x)' => Publishing(g, x)
  BY <1>2, <1>3 DEF PinUploadStart
<1>4. ASSUME NEW s \in Session,
             \/ RequestPinUploadUrls(h, s) \/ CommitPinUpload(h, s) \/ ProcessPinUpload(h, s)
             \/ FinalizePinUpload(h, s) \/ CancelPinUpload(h, s)
      PROVE  \A x : \A g \in Handler : Publishing(g, x)' => Publishing(g, x)
  <2>1. \E op, pc, p : pc # "publish" /\ Call(h, op, pc, s, p, {}, 0)
    BY <1>4 DEF RequestPinUploadUrls, CommitPinUpload, ProcessPinUpload, FinalizePinUpload,
       CancelPinUpload
  <2>2. QED
    BY <1>2, <2>1
<1>5. ASSUME NEW p \in Pin, UpdatePin(h, p) \/ DeletePin(h, p)
      PROVE  \A x : \A g \in Handler : Publishing(g, x)' => Publishing(g, x)
  BY <1>2, <1>5 DEF UpdatePin, DeletePin
<1>6. ASSUME NEW p \in Pin, NEW m \in Media, RemoveMediaFromPin(h, p, m)
      PROVE  \A x : \A g \in Handler : Publishing(g, x)' => Publishing(g, x)
  BY <1>2, <1>6 DEF RemoveMediaFromPin
<1>7. UNCHANGED <<stream, wk>>
  BY DEF Request, PinUploadStart, RequestPinUploadUrls, CommitPinUpload, ProcessPinUpload,
     FinalizePinUpload, CancelPinUpload, UpdatePin, DeletePin, RemoveMediaFromPin, queueVars,
     backVars
<1>8. QED
  BY <1>3, <1>4, <1>5, <1>6, <1>7 DEF Request

\* The other statements of a handler, and its failure, publish nothing.
Silent(h) == \/ HandlerFails(h)
             \/ HandlerStep(h) /\ ~ClaimProcessing(h) /\ ~AddPinUploadTask(h)

\* No request becomes a publisher by them.
LEMMA SilentPublishes ==
  ASSUME TypeInv, NEW h \in Handler, Silent(h)
  PROVE  /\ UNCHANGED <<stream, wk>>
         /\ \A s : \A g \in Handler : Publishing(g, s)' => Publishing(g, s)
<1>1. req \in [Handler -> Requests]
  BY DEF TypeInv, RequestsInv, RequestsOK
<1> DEFINE Quieter == \A s : \A g \in Handler : Publishing(g, s)' => Publishing(g, s)
<1>2. Finish(h) \/ UNCHANGED req => Quieter
  BY <1>1 DEF Finish, NoRequest, Publishing, At
<1>3. ASSUME NEW pc, pc # "publish", Goto(h, pc)
      PROVE  Quieter
  BY <1>1, <1>3 DEF Goto, Publishing, At
<1>4. UNCHANGED <<stream, wk>>
  BY DEF Silent, HandlerFails, HandlerStep, CreateSession, TouchSession, LockAndCount, InsertMedia,
     SelectMedia, CreatePin, AttachMedia, IncMediaCount, ReadPin, SavePin, ConfirmSession,
     DeleteOrphans, CancelSession, DeleteMediaRow, DecMediaCount, DeletePinMedia, DeletePinRow,
     queueVars, backVars
<1> SUFFICES Quieter
  BY <1>4
<1>5. CASE \/ HandlerFails(h) \/ CreateSession(h) \/ TouchSession(h) \/ InsertMedia(h)
           \/ ConfirmSession(h) \/ CancelSession(h) \/ DeletePinRow(h)
  BY <1>2, <1>5 DEF HandlerFails, CreateSession, TouchSession, InsertMedia, ConfirmSession,
     CancelSession, DeletePinRow
<1>6. CASE \/ AttachMedia(h) \/ IncMediaCount(h) \/ SavePin(h) \/ DeleteOrphans(h)
           \/ DeleteMediaRow(h) \/ DecMediaCount(h) \/ DeletePinMedia(h)
  BY <1>2, <1>3, <1>6 DEF AttachMedia, IncMediaCount, SavePin, DeleteOrphans,
     DeleteMediaRow, DecMediaCount, DeletePinMedia
<1>7. CASE LockAndCount(h) \/ ReadPin(h)
  <2>1. \A g \in Handler \ {h} : req'[g] = req[g]
    BY <1>1, <1>7 DEF LockAndCount, ReadPin, Goto, Finish
  <2>2. req'[h].pc # "publish"
    BY <1>1, <1>7 DEF LockAndCount, ReadPin, Goto, Finish, NoRequest, Requests
  <2>3. QED
    BY <2>1, <2>2 DEF Publishing, At
<1>8. CASE SelectMedia(h)
  <2>1. \A g \in Handler \ {h} : req'[g] = req[g]
    BY <1>1, <1>8 DEF SelectMedia, Finish
  <2>2. req'[h].pc # "publish"
    BY <1>1, <1>8 DEF SelectMedia, Finish, NoRequest, Requests
  <2>3. QED
    BY <2>1, <2>2 DEF Publishing, At
<1>9. CASE CreatePin(h)
  <2>1. req'[h].pc # "publish" /\ \A g \in Handler \ {h} : req'[g] = req[g]
    BY <1>1, <1>9 DEF CreatePin, Requests
  <2>2. QED
    BY <2>1 DEF Publishing, At
<1>10. QED
  BY <1>5, <1>6, <1>7, <1>8, <1>9 DEF Silent, HandlerStep

\* What a step must leave to the tasks: no new publisher, no new entry.
LEMMA TasksKept ==
  ASSUME TaskInv, [Next]_vars, OneEntry', Announced',
         \A s \in Session : Absent(s) => Absent(s)',
         \A s : \A g \in Handler : Publishing(g, s)' => Publishing(g, s)
  PROVE  TaskInv'
<1>1. TypeInv'
  BY StepTypeInv DEF TaskInv
<1>2. \A s \in Session : Unclaimed(s)' => Unclaimed(s)
  BY ClaimsLast DEF TaskInv
<1>3. Unpublished' /\ Publishers'
  BY <1>2 DEF TaskInv, Unpublished, Publishers
<1>4. QED
  BY <1>1, <1>3 DEF TaskInv

\* A worker that changes its batch at most by acknowledging its head.
LEMMA BatchShrinks ==
  ASSUME TaskInv, NEW w \in Worker, wk[w].pc # "idle", UNCHANGED stream,
         \/ \E pc : Step(w, pc)
         \/ Ack(w)
         \/ wk' = [wk EXCEPT ![w] = NoBatch]
  PROVE  /\ OneEntry'
         /\ \A s \in Session : Absent(s) => Absent(s)'
<1>1. wk \in [Worker -> Batches] /\ wk[w].batch # <<>>
  BY DEF TaskInv, TypeInv, WorkersInv, WorkersOK
<1>2. Batch(w) \in Seq(Session) /\ Batch(w) # <<>>
  BY <1>1 DEF Batches, Batch
<1>3. \A v \in Worker \ {w} : Batch(v)' = Batch(v)
  BY <1>1 DEF Batch, Step, Ack
<1>4. \/ Batch(w)' = Batch(w)
      \/ Batch(w)' = Tail(Batch(w))
      \/ Batch(w)' = <<>>
  <2>1. CASE \E pc : Step(w, pc)
    BY <1>1, <2>1 DEF Batch, Step, Batches
  <2>2. CASE Ack(w)
    BY <1>1, <2>2 DEF Batch, Ack, NoBatch
  <2>3. CASE wk' = [wk EXCEPT ![w] = NoBatch]
    BY <1>1, <2>3 DEF Batch, NoBatch
  <2>4. QED
    BY <2>1, <2>2, <2>3
<1>5. \E d \in {0, 1} : \A i \in DOMAIN Batch(w)' :
        i + d \in DOMAIN Batch(w) /\ Batch(w)'[i] = Batch(w)[i + d] /\ i \in Nat
  <2>1. CASE Batch(w)' = Tail(Batch(w))
    <3>1. \A i \in DOMAIN Tail(Batch(w)) :
            i + 1 \in DOMAIN Batch(w) /\ Tail(Batch(w))[i] = Batch(w)[i + 1] /\ i \in Nat
      BY <1>2
    <3>2. QED
      BY <2>1, <3>1
  <2>2. CASE Batch(w)' = Batch(w)
    <3>1. \A i \in DOMAIN Batch(w) : i + 0 = i /\ i \in Nat
      BY <1>2
    <3>2. QED
      BY <2>2, <3>1
  <2>3. CASE Batch(w)' = <<>>
    <3>1. DOMAIN Batch(w)' = {}
      BY <2>3
    <3>2. QED
      BY <3>1
  <2>4. QED
    BY <1>4, <2>1, <2>2, <2>3
<1>6. PICK d \in {0, 1} : \A i \in DOMAIN Batch(w)' :
        i + d \in DOMAIN Batch(w) /\ Batch(w)'[i] = Batch(w)[i + d] /\ i \in Nat
  BY <1>5
<1>7. \A i, j \in Nat : i + d = j + d => i = j
  OBVIOUS
<1>8. OneEntry'
  <2>1. OneEntry
    BY DEF TaskInv
  <2>2. \A u, v \in Worker : \A i \in DOMAIN Batch(u)', j \in DOMAIN Batch(v)' :
          Batch(u)'[i] = Batch(v)'[j] => u = v /\ i = j
    <3> SUFFICES ASSUME NEW u \in Worker, NEW v \in Worker, NEW i \in DOMAIN Batch(u)',
                        NEW j \in DOMAIN Batch(v)', Batch(u)'[i] = Batch(v)'[j]
                 PROVE  u = v /\ i = j
      OBVIOUS
    <3>1. CASE u = w /\ v = w
      BY <1>6, <1>7, <2>1, <3>1 DEF OneEntry
    <3>2. CASE u = w /\ v # w
      BY <1>3, <1>6, <2>1, <3>2 DEF OneEntry
    <3>3. CASE u # w /\ v = w
      BY <1>3, <1>6, <2>1, <3>3 DEF OneEntry
    <3>4. CASE u # w /\ v # w
      BY <1>3, <2>1, <3>4 DEF OneEntry
    <3>5. QED
      BY <3>1, <3>2, <3>3, <3>4
  <2>3. \A i \in DOMAIN stream, v \in Worker : \A j \in DOMAIN Batch(v)' : stream[i] # Batch(v)'[j]
    BY <1>3, <1>6, <2>1 DEF OneEntry
  <2>4. QED
    BY <2>1, <2>2, <2>3 DEF OneEntry
<1>9. \A s \in Session : Absent(s) => Absent(s)'
  BY <1>3, <1>6 DEF Absent
<1>10. QED
  BY <1>8, <1>9

\* XREADGROUP moves the whole queue to a consumer that had nothing.
LEMMA ReadTasksKeeps ==
  ASSUME TaskInv, NEW w \in Worker, ReadTasks(w)
  PROVE  /\ OneEntry'
         /\ \A s \in Session : Absent(s) => Absent(s)'
<1>1. wk \in [Worker -> Batches] /\ stream \in Seq(Session) /\ OneEntry
  BY DEF TaskInv, TypeInv, WorkersInv, WorkersOK, QueuesOK
<1>2. /\ Batch(w)' = stream /\ DOMAIN stream' = {}
      /\ \A v \in Worker \ {w} : Batch(v)' = Batch(v)
  BY <1>1 DEF ReadTasks, Batch
<1>3. QED
  BY <1>1, <1>2 DEF OneEntry, Absent

\* XADD puts a session where it was not.
LEMMA AddTask ==
  ASSUME TaskInv, NEW h \in Handler, AddPinUploadTask(h)
  PROVE  /\ OneEntry' /\ UNCHANGED wk
         /\ \A s \in Session : Absent(s) /\ s # req[h].sess => Absent(s)'
<1> DEFINE t == req[h].sess
<1>1. /\ wk \in [Worker -> Batches] /\ stream \in Seq(Session) /\ OneEntry
      /\ t \in Session
  BY DEF TaskInv, TypeInv, WorkersInv, WorkersOK, QueuesOK, RequestsInv, ArmedReq, AddPinUploadTask,
     At, SessionPCs
<1>2. Publishing(h, t) /\ stream' = Append(stream, t) /\ UNCHANGED wk
  BY DEF AddPinUploadTask, Publishing, backVars
<1>3. Absent(t)
  BY <1>1, <1>2 DEF TaskInv, Publishers
<1>4. \A i \in DOMAIN stream' : stream'[i] = t \/ (i \in DOMAIN stream /\ stream'[i] = stream[i])
  BY <1>1, <1>2
<1>5. \A i, j \in DOMAIN stream' : stream'[i] = t /\ stream'[j] = t => i = j
  <2> SUFFICES ASSUME NEW i \in DOMAIN stream', NEW j \in DOMAIN stream',
                      stream'[i] = t, stream'[j] = t
               PROVE  i = j
    OBVIOUS
  <2>1. \A k \in DOMAIN stream' : k \in DOMAIN stream \/ k = Len(stream) + 1
    BY <1>1, <1>2
  <2>2. \A k \in DOMAIN stream : stream'[k] = stream[k] /\ stream[k] # t
    BY <1>1, <1>2, <1>3 DEF Absent
  <2>3. QED
    BY <2>1, <2>2
<1>6. OneEntry'
  BY <1>1, <1>2, <1>3, <1>4, <1>5 DEF OneEntry, Absent, Batch
<1>7. \A s \in Session : Absent(s) /\ s # t => Absent(s)'
  BY <1>2, <1>4 DEF Absent, Batch
<1>8. QED
  BY <1>2, <1>6, <1>7

\* The claim makes the only publisher of a session that is nowhere.
LEMMA ClaimKeeps ==
  ASSUME TaskInv, [Next]_vars, NEW h \in Handler, ClaimProcessing(h)
  PROVE  TaskInv'
<1> DEFINE t == req[h].sess
<1>1. req \in [Handler -> Requests] /\ t \in Session /\ status \in [Session -> Status]
  BY DEF TaskInv, TypeInv, RequestsInv, RequestsOK, ArmedReq, ClaimProcessing, At, SessionPCs,
     SessionsOK
<1>2. UNCHANGED <<stream, wk>>
  BY DEF ClaimProcessing, queueVars, backVars
<1>3. OneEntry' /\ Announced' /\ \A s \in Session : Absent(s)' <=> Absent(s)
  <2>1. \A w \in Worker : wk[w].pc = "announce" => Head(Batch(w)) \in Session
    BY DEF TaskInv, TypeInv, WorkersInv, WorkersOK, Batches, Batch
  <2>2. QED
    BY <1>2, <2>1, ClaimsLast DEF TaskInv, OneEntry, Announced, Absent, Batch
<1>4. CASE Finish(h)
  <2>1. \A s : \A g \in Handler : Publishing(g, s)' => Publishing(g, s)
    BY <1>1, <1>4 DEF Finish, NoRequest, Publishing, At
  <2>2. QED
    BY <1>3, <2>1, TasksKept
<1>5. CASE /\ CanSetStatus(t, "UPLOADING") /\ Goto(h, "publish")
           /\ status' = [status EXCEPT ![t] = "PROCESSING"]
  <2>1. Unclaimed(t) /\ status'[t] = "PROCESSING"
    BY <1>1, <1>5 DEF CanSetStatus, Unclaimed
  <2>2. Absent(t) /\ \A g \in Handler : ~Publishing(g, t)
    BY <1>1, <2>1 DEF TaskInv, Unpublished, Publishers
  <2>3. \A g \in Handler \ {h} : req'[g] = req[g]
    BY <1>1, <1>5 DEF Goto
  <2>4. req'[h].sess = t
    BY <1>1, <1>5 DEF Goto, Requests
  <2>5. \A s \in Session : Unclaimed(s)' => Unclaimed(s)
    BY ClaimsLast DEF TaskInv
  <2>6. Publishers'
    BY <1>3, <2>1, <2>2, <2>3, <2>4, <2>5 DEF TaskInv, Publishers, Publishing, At, Unclaimed
  <2>7. QED
    BY <1>3, <2>5, <2>6, StepTypeInv DEF TaskInv, Unpublished
<1>6. QED
  BY <1>4, <1>5 DEF ClaimProcessing

\* The XADD that follows it keeps the invariant.
LEMMA AddKeeps ==
  ASSUME TaskInv, [Next]_vars, NEW h \in Handler, AddPinUploadTask(h)
  PROVE  TaskInv'
<1> DEFINE t == req[h].sess
<1>1. req \in [Handler -> Requests] /\ t \in Session
  BY DEF TaskInv, TypeInv, RequestsInv, RequestsOK, ArmedReq, AddPinUploadTask, At, SessionPCs
<1>2. Publishing(h, t)
  BY DEF AddPinUploadTask, Publishing
<1>3. \A s : \A g \in Handler : Publishing(g, s)' => g # h /\ Publishing(g, s)
  BY <1>1 DEF AddPinUploadTask, Finish, NoRequest, Publishing, At
<1>4. \A g \in Handler, s \in Session : Publishing(g, s)' => s # t
  BY <1>1, <1>2, <1>3 DEF TaskInv, Publishers
<1>5. \A s \in Session : Unclaimed(s)' => Unclaimed(s) /\ s # t
  BY <1>1, <1>2, ClaimsLast DEF TaskInv, Publishers
<1>6. \A w \in Worker : wk[w].pc = "announce" => Head(Batch(w)) \in Session
  BY DEF TaskInv, TypeInv, WorkersInv, WorkersOK, Batches, Batch
<1>7. Announced'
  BY <1>6, AddTask, ClaimsLast DEF TaskInv, Announced, Batch
<1>8. Unpublished' /\ Publishers'
  BY <1>3, <1>4, <1>5, AddTask DEF TaskInv, Unpublished, Publishers
<1>9. QED
  BY <1>7, <1>8, AddTask, StepTypeInv DEF TaskInv

\* What a consumer does to its batch, and whether it lets a session go.
LEMMA WorkerMoves ==
  ASSUME TaskInv, NEW w \in Worker,
         \/ WorkerStep(w) /\ ~ReadTasks(w)
         \/ WorkerError(w) \/ WorkerDrops(w) \/ WorkerCrash(w)
  PROVE  /\ wk[w].pc # "idle" /\ UNCHANGED <<stream, req>>
         /\ \/ Step(w, "snapshot") \/ Step(w, "ready")
            \/ Step(w, "announce") /\ status'[Head(Batch(w))] = "READY_FOR_REVIEW"
            \/ Ack(w)
            \/ wk' = [wk EXCEPT ![w] = NoBatch]
<1>1. wk[w].pc # "idle" => Head(Batch(w)) \in Session
  BY DEF TaskInv, TypeInv, WorkersInv, WorkersOK, Batches, Batch
<1>2. status \in [Session -> Status]
  BY DEF TaskInv, TypeInv, SessionsOK
<1>3. CASE SetReady(w)
  BY <1>1, <1>2, <1>3 DEF SetReady, CanSetStatus, Batch, queueVars
<1>4. CASE DedupMedia(w) \/ SaveSnapshot(w) \/ Announce(w)
  BY <1>4 DEF DedupMedia, SaveSnapshot, Announce, queueVars
<1>5. CASE WorkerError(w) \/ WorkerDrops(w) \/ WorkerCrash(w)
  BY <1>5 DEF WorkerError, OnError, WorkerDrops, WorkerCrash, queueVars
<1>6. QED
  BY <1>3, <1>4, <1>5 DEF WorkerStep

\* A consumer announces only the session it has made reviewable.
LEMMA WorkerKeeps ==
  ASSUME TaskInv, [Next]_vars, NEW w \in Worker,
         WorkerStep(w) \/ WorkerError(w) \/ WorkerDrops(w) \/ WorkerCrash(w)
  PROVE  TaskInv'
<1>1. /\ wk \in [Worker -> Batches]
      /\ \A v \in Worker : wk[v].pc # "idle" => Head(Batch(v)) \in Session
  BY DEF TaskInv, TypeInv, WorkersInv, WorkersOK, Batches, Batch
<1>2. CASE ReadTasks(w)
  <2>1. /\ UNCHANGED <<req, status>> /\ wk'[w].pc = "dedup"
        /\ \A v \in Worker \ {w} : wk'[v] = wk[v]
    BY <1>1, <1>2 DEF ReadTasks, sessVars
  <2>2. Announced'
    BY <2>1 DEF TaskInv, Announced, Over, Batch
  <2>3. QED
    BY <1>2, <2>1, <2>2, ReadTasksKeeps, TasksKept DEF Publishing, At
<1>3. CASE ~ReadTasks(w)
  <2>1. /\ wk[w].pc # "idle" /\ UNCHANGED <<stream, req>>
        /\ \/ Step(w, "snapshot") \/ Step(w, "ready")
           \/ Step(w, "announce") /\ status'[Head(Batch(w))] = "READY_FOR_REVIEW"
           \/ Ack(w)
           \/ wk' = [wk EXCEPT ![w] = NoBatch]
    BY <1>3, WorkerMoves
  <2>2. OneEntry' /\ \A s \in Session : Absent(s) => Absent(s)'
    BY <2>1, BatchShrinks
  <2>3. \A v \in Worker \ {w} : wk'[v] = wk[v]
    BY <1>1, <2>1 DEF Step, Ack
  <2>4. \/ wk'[w].pc # "announce"
        \/ Batch(w)' = Batch(w) /\ status'[Head(Batch(w))] = "READY_FOR_REVIEW"
    BY <1>1, <2>1 DEF Step, Ack, NoBatch, Batch, Batches
  <2>e. wk'[w].pc = "idle" => Batch(w)' = <<>>
    BY <1>1, <2>1 DEF Step, Ack, NoBatch, Batch, Batches
  <2>5. Announced'
    <3>e. \A v \in Worker : wk'[v].pc = "idle" => Batch(v)' = <<>>
      BY <2>3, <2>e DEF TaskInv, Announced, Batch
    <3> SUFFICES ASSUME NEW v \in Worker, wk'[v].pc = "announce"
                 PROVE  Over(Head(Batch(v)))'
      BY <3>e DEF Announced
    <3>1. CASE v = w
      BY <2>4, <3>1 DEF Over
    <3>2. CASE v # w
      <4>1. wk'[v] = wk[v] /\ Over(Head(wk[v].batch)) /\ Head(wk[v].batch) \in Session
        BY <1>1, <2>3, <3>2 DEF TaskInv, Announced, Batch
      <4>2. status'[Head(wk[v].batch)] \in {"READY_FOR_REVIEW", "DELETED"}
        BY <4>1, ClaimsLast DEF TaskInv, Over
      <4>3. QED
        BY <4>1, <4>2 DEF Over, Batch
    <3>3. QED
      BY <3>1, <3>2
  <2>6. QED
    BY <2>1, <2>2, <2>5, TasksKept DEF Publishing, At
<1>4. QED
  BY <1>2, <1>3

\* Who else moves does not see the tasks.
LEMMA OthersKeep ==
  ASSUME TaskInv, [Next]_vars, UNCHANGED <<stream, wk>>,
         \A s : \A g \in Handler : Publishing(g, s)' => Publishing(g, s)
  PROVE  TaskInv'
<1>1. \A v \in Worker : wk[v].pc # "idle" => Head(Batch(v)) \in Session
  BY DEF TaskInv, TypeInv, WorkersInv, WorkersOK, Batches, Batch
<1>2. Announced'
  BY <1>1, ClaimsLast DEF TaskInv, Announced, Batch
<1>3. OneEntry' /\ \A s \in Session : Absent(s) => Absent(s)'
  BY DEF TaskInv, OneEntry, Absent, Batch
<1>4. QED
  BY <1>2, <1>3, TasksKept

\* Every step keeps the tasks.
LEMMA TaskNext ==
  ASSUME TaskInv, [Next]_vars
  PROVE  TaskInv'
<1>1. ASSUME NEW h \in Handler, Request(h) \/ HandlerStep(h) \/ HandlerFails(h)
      PROVE  TaskInv'
  <2>1. CASE Request(h)
    BY <2>1, RequestPublishes, OthersKeep DEF TaskInv
  <2>2. CASE Silent(h)
    BY <2>2, SilentPublishes, OthersKeep DEF TaskInv
  <2>3. QED
    BY <1>1, <2>1, <2>2, ClaimKeeps, AddKeeps DEF Silent
<1>2. CASE ResultStep \/ CleanupStep \/ Environment \/ UNCHANGED vars
  <2>1. UNCHANGED <<stream, wk, req>>
    BY <1>2 DEF ResultStep, DeliverResult, MergeResult, AckResult, CleanupStep, ListAbandoned,
       CleanOrphans, CloseAbandoned, Environment, SeventyTwoHours, DeleteClosed, TripStatusChanges,
       vars, queueVars, backVars
  <2>2. QED
    BY <2>1, OthersKeep DEF Publishing, At
<1>3. QED
  BY <1>1, <1>2, WorkerKeeps DEF Next, Fault

\* At the start there is no task.
LEMMA TaskInit == Init => TaskInv
<1> SUFFICES ASSUME Init PROVE OneEntry /\ Unpublished /\ Publishers /\ Announced
  BY InitType DEF TaskInv
<1>1. /\ \A w \in Worker : wk[w].pc = "idle" /\ DOMAIN Batch(w) = {}
      /\ DOMAIN stream = {} /\ \A s : \A h \in Handler : ~Publishing(h, s)
  BY DEF Init, NoBatch, Batch, NoRequest, Publishing, At
<1>2. QED
  BY <1>1 DEF OneEntry, Unpublished, Absent, Publishers, Announced

\* However often ProcessPinUpload is called at once, a session is at one place of
\* the queue and the consumers at most, whatever fails.
THEOREM OneTask == Spec => []AtMostOneTask
<1>1. TaskInv => AtMostOneTask
  <2> SUFFICES ASSUME TaskInv, NEW s \in Session
               PROVE  Cardinality(Occurrences(s)) <= 1
    BY DEF AtMostOneTask
  <2>1. \A x, y \in Occurrences(s) : x = y
    BY DEF TaskInv, OneEntry, Occurrences, Batch
  <2>2. CASE Occurrences(s) = {}
    BY <2>2, FS_EmptySet
  <2>3. CASE Occurrences(s) # {}
    <3>1. PICK x : x \in Occurrences(s)
      BY <2>3
    <3>2. Occurrences(s) = {x}
      BY <2>1, <3>1
    <3>3. Cardinality({x}) = 1
      BY FS_Singleton
    <3>4. QED
      BY <3>2, <3>3
  <2>4. QED
    BY <2>2, <2>3
<1>2. QED
  BY <1>1, TaskInit, TaskNext, PTL DEF Spec

------------------------------------------------------------------------------
(* Sessions in PROCESSING                                                   *)

\* Somebody who will move the session on.
Owned(s) == \/ ~Absent(s)
            \/ \E h \in Handler : Publishing(h, s)

Claimed(s) == IsOpen(s) /\ status[s] = "PROCESSING"
Undropped  == faults = 0 \/ FaultKinds \subseteq {"error"}

OwnedInv == Undropped => \A s \in Session : Claimed(s) => Owned(s)

\* Only the CAS of ProcessPinUpload brings a session into PROCESSING ...
LEMMA OnlyClaimsProcess ==
  ASSUME TypeInv, [Next]_vars, ~ \E h \in Handler : ClaimProcessing(h), NEW s \in Session,
         status'[s] = "PROCESSING"
  PROVE  status[s] = "PROCESSING"
<1>1. status \in [Session -> Status]
  BY DEF TypeInv, SessionsOK
<1>2. ASSUME NEW x \in Session, NEW v, v # "PROCESSING", status' = [status EXCEPT ![x] = v]
      PROVE  status[s] = "PROCESSING"
  BY <1>1, <1>2
<1>3. ASSUME NEW S, DeleteSessions(S)
      PROVE  status[s] = "PROCESSING"
  BY <1>1, <1>3 DEF DeleteSessions
<1>4. ASSUME NEW h \in Handler, HandlerStep(h)
      PROVE  status[s] = "PROCESSING"
  <2>1. CASE CreateSession(h)
    BY <1>2, <2>1 DEF CreateSession, sessVars
  <2>2. CASE DeletePinRow(h)
    BY <1>3, <2>2 DEF DeletePinRow
  <2>3. CASE ~CreateSession(h) /\ ~DeletePinRow(h)
    <3>1. UNCHANGED status
      BY <1>4, <2>3 DEF HandlerStep, TouchSession, LockAndCount, InsertMedia, AddPinUploadTask,
         SelectMedia, CreatePin, AttachMedia, IncMediaCount, ReadPin, SavePin, ConfirmSession,
         DeleteOrphans, CancelSession, DeleteMediaRow, DecMediaCount, DeletePinMedia, sessVars
    <3>2. QED
      BY <3>1
  <2>4. QED
    BY <2>1, <2>2, <2>3
<1>5. ASSUME NEW w \in Worker, SetReady(w)
      PROVE  status[s] = "PROCESSING"
  <2>1. Head(wk[w].batch) \in Session
    BY <1>5 DEF TypeInv, WorkersInv, WorkersOK, Batches, SetReady
  <2>2. QED
    BY <1>2, <1>5, <2>1 DEF SetReady
<1>6. CASE AckResult
  <2>1. ml.sess \in Session
    BY <1>6 DEF TypeInv, BackInv, AckResult
  <2>2. QED
    BY <1>2, <1>6, <2>1 DEF AckResult
<1>7. ASSUME NEW x \in Session, DeleteClosed(x)
      PROVE  status[s] = "PROCESSING"
  BY <1>3, <1>7 DEF DeleteClosed
<1>8. ASSUME ~ \E h \in Handler : HandlerStep(h), ~ \E w \in Worker : SetReady(w), ~AckResult,
             ~ \E x \in Session : DeleteClosed(x)
      PROVE  status[s] = "PROCESSING"
  <2>1. ASSUME NEW h \in Handler, Request(h)
        PROVE  UNCHANGED status
    BY <2>1 DEF Request, PinUploadStart, RequestPinUploadUrls, CommitPinUpload, ProcessPinUpload,
       FinalizePinUpload, CancelPinUpload, UpdatePin, DeletePin, RemoveMediaFromPin, sessVars
  <2>2. ASSUME NEW w \in Worker, WorkerStep(w)
        PROVE  UNCHANGED status
    BY <1>8, <2>2 DEF WorkerStep, ReadTasks, DedupMedia, SaveSnapshot, Announce, sessVars
  <2>3. CASE ResultStep \/ CleanupStep \/ Environment
    <3>1. UNCHANGED status
      BY <1>8, <2>3 DEF ResultStep, DeliverResult, MergeResult, CleanupStep, ListAbandoned,
         CleanOrphans, CloseAbandoned, Environment, SeventyTwoHours, TripStatusChanges, sessVars
    <3>2. QED
      BY <3>1
  <2>4. CASE Fault \/ UNCHANGED vars
    <3>1. UNCHANGED status
      BY <2>4 DEF Fault, HandlerFails, WorkerError, WorkerDrops, WorkerCrash, vars, sessVars
    <3>2. QED
      BY <3>1
  <2>5. QED
    BY <1>8, <2>1, <2>2, <2>3, <2>4 DEF Next
<1>9. QED
  BY <1>4, <1>5, <1>6, <1>7, <1>8

\* ... and makes that request its publisher.
LEMMA ClaimedBefore ==
  ASSUME TaskInv, [Next]_vars, NEW s \in Session, Claimed(s)'
  PROVE  \/ Claimed(s)
         \/ \E h \in Handler : Publishing(h, s)'
<1>1. /\ status \in [Session -> Status] /\ closed \in [Session -> Reason \cup {"open"}]
  BY DEF TaskInv, TypeInv, SessionsOK
<1>2. CASE \E h \in Handler : ClaimProcessing(h)
  <2>1. PICK h \in Handler : ClaimProcessing(h)
    BY <1>2
  <2>2. req \in [Handler -> Requests] /\ req[h].sess \in Session
    BY <2>1 DEF TaskInv, TypeInv, RequestsInv, RequestsOK, ArmedReq, ClaimProcessing, At, SessionPCs
  <2>3. CASE UNCHANGED <<status, closed>>
    BY <2>3 DEF Claimed, IsOpen
  <2>4. CASE /\ status' = [status EXCEPT ![req[h].sess] = "PROCESSING"]
             /\ Goto(h, "publish") /\ UNCHANGED closed
    <3>1. s = req[h].sess \/ status'[s] = status[s]
      BY <1>1, <2>2, <2>4
    <3>2. req'[h].pc = "publish" /\ req'[h].sess = req[h].sess
      BY <2>2, <2>4 DEF Goto, Requests
    <3>3. CASE s = req[h].sess
      BY <3>2, <3>3 DEF Publishing, At
    <3>4. CASE status'[s] = status[s]
      BY <2>4, <3>4 DEF Claimed, IsOpen
    <3>5. QED
      BY <3>1, <3>3, <3>4
  <2>5. QED
    BY <2>1, <2>3, <2>4 DEF ClaimProcessing
<1>3. CASE ~ \E h \in Handler : ClaimProcessing(h)
  <2>1. status'[s] = "PROCESSING" => status[s] = "PROCESSING"
    BY <1>3, OnlyClaimsProcess DEF TaskInv
  <2>2. closed'[s] = "open" => closed[s] = "open"
    BY <1>1, StepWrites DEF TaskInv, TableWrite, Opens, Advances, Closes, Drafted, Removes, Reason
  <2>3. QED
    BY <2>1, <2>2 DEF Claimed, IsOpen, Row
<1>4. QED
  BY <1>2, <1>3

\* A consumer acknowledges the session at its head only when it is not in PROCESSING.
LEMMA WorkerLetsGo ==
  ASSUME TaskInv, NEW w \in Worker, Undropped',
         WorkerStep(w) \/ WorkerError(w) \/ WorkerDrops(w) \/ WorkerCrash(w),
         NEW s \in Session, ~Absent(s), Claimed(s)'
  PROVE  ~Absent(s)'
<1>1. /\ wk \in [Worker -> Batches] /\ stream \in Seq(Session)
      /\ wk[w].pc # "idle" => Batch(w) # <<>> /\ Head(Batch(w)) \in Session
      /\ Batch(w) \in Seq(Session) /\ faults \in Nat /\ status \in [Session -> Status]
  BY DEF TaskInv, TypeInv, WorkersInv, WorkersOK, Batches, Batch, QueuesOK, EnvOK, SessionsOK
<1>2. CASE ReadTasks(w)
  <2>1. /\ Batch(w)' = stream /\ DOMAIN Batch(w) = {}
        /\ \A v \in Worker \ {w} : Batch(v)' = Batch(v)
    BY <1>1, <1>2 DEF ReadTasks, Batch, TaskInv, Announced
  <2>2. QED
    BY <2>1 DEF Absent
<1>3. CASE \E pc : Step(w, pc) /\ UNCHANGED stream
  <2>1. \A v \in Worker : Batch(v)' = Batch(v)
    BY <1>1, <1>3 DEF Step, Batch, Batches
  <2>2. QED
    BY <1>3, <2>1 DEF Absent
<1>4. CASE Ack(w) /\ Head(Batch(w)) # s /\ wk[w].pc # "idle" /\ UNCHANGED stream
  <2>1. /\ Batch(w)' = Tail(Batch(w))
        /\ \A v \in Worker \ {w} : Batch(v)' = Batch(v)
    BY <1>1, <1>4 DEF Ack, Batch, NoBatch
  <2>2. ASSUME NEW i \in DOMAIN Batch(w), Batch(w)[i] = s
        PROVE  i - 1 \in DOMAIN Tail(Batch(w)) /\ Tail(Batch(w))[i - 1] = s
    <3>1. i # 1 /\ i \in 1..Len(Batch(w))
      BY <1>1, <1>4, <2>2
    <3>2. QED
      BY <1>1, <1>4, <2>2, <3>1
  <2>3. QED
    BY <1>4, <2>1, <2>2 DEF Absent
<1>5. CASE DedupMedia(w) \/ SetReady(w) \/ Announce(w) \/ SaveSnapshot(w) \/ WorkerError(w)
  <2>1. UNCHANGED stream /\ wk[w].pc # "idle"
    BY <1>5 DEF DedupMedia, SetReady, Announce, SaveSnapshot, WorkerError, queueVars
  <2>2. DedupMedia(w) => Step(w, "snapshot") \/ (Ack(w) /\ Head(Batch(w)) # s)
    BY <1>1 DEF DedupMedia, Batch, Claimed, IsOpen, Row, sessVars
  <2>3. SetReady(w) => Step(w, "announce") \/ (Ack(w) /\ Head(Batch(w)) # s)
    BY <1>1 DEF SetReady, Batch, Claimed, IsOpen, CanSetStatus
  <2>4. Announce(w) => Ack(w) /\ Head(Batch(w)) # s
    BY <1>1 DEF Announce, Batch, Claimed, TaskInv, Announced, Over, sessVars
  <2>5. SaveSnapshot(w) \/ WorkerError(w) => Step(w, "ready")
    BY DEF SaveSnapshot, WorkerError, OnError
  <2>6. QED
    BY <1>3, <1>4, <1>5, <2>1, <2>2, <2>3, <2>4, <2>5
<1>6. CASE WorkerDrops(w) \/ WorkerCrash(w)
  BY <1>1, <1>6 DEF WorkerDrops, WorkerCrash, Undropped
<1>7. QED
  BY <1>2, <1>5, <1>6 DEF WorkerStep

\* The other requests of a handler's step, and one that is about to publish, stay.
LEMMA PublishersStay ==
  ASSUME TypeInv, NEW h \in Handler, Request(h) \/ (HandlerStep(h) /\ ~AddPinUploadTask(h))
  PROVE  /\ UNCHANGED faults
         /\ \A s : \A g \in Handler : Publishing(g, s) => Publishing(g, s)'
<1>1. req \in [Handler -> Requests]
  BY DEF TypeInv, RequestsInv, RequestsOK
<1> DEFINE Only == \E r : req' = [req EXCEPT ![h] = r]
<1>2. CASE Request(h)
  <2>1. ASSUME NEW op, NEW pc, NEW s, NEW p, NEW ids, NEW cnt, Call(h, op, pc, s, p, ids, cnt)
        PROVE  Only /\ req[h].pc = "idle"
    BY <2>1 DEF Call
  <2>2. ASSUME NEW t \in Pin \cup {NoPin}, PinUploadStart(h, t)
        PROVE  Only /\ req[h].pc = "idle" /\ UNCHANGED faults
    BY <2>1, <2>2 DEF PinUploadStart, envVars
  <2>3. ASSUME NEW s \in Session,
               \/ RequestPinUploadUrls(h, s) \/ CommitPinUpload(h, s) \/ ProcessPinUpload(h, s)
               \/ FinalizePinUpload(h, s) \/ CancelPinUpload(h, s)
        PROVE  Only /\ req[h].pc = "idle" /\ UNCHANGED faults
    <3>1. UNCHANGED faults /\ \E op, pc, p : Call(h, op, pc, s, p, {}, 0)
      BY <2>3 DEF RequestPinUploadUrls, CommitPinUpload, ProcessPinUpload, FinalizePinUpload,
         CancelPinUpload, envVars
    <3>2. QED
      BY <2>1, <3>1
  <2>4. ASSUME NEW p \in Pin, UpdatePin(h, p) \/ DeletePin(h, p)
        PROVE  Only /\ req[h].pc = "idle" /\ UNCHANGED faults
    BY <2>1, <2>4 DEF UpdatePin, DeletePin, envVars
  <2>5. ASSUME NEW p \in Pin, NEW m \in Media, RemoveMediaFromPin(h, p, m)
        PROVE  Only /\ req[h].pc = "idle" /\ UNCHANGED faults
    BY <2>1, <2>5 DEF RemoveMediaFromPin, envVars
  <2>6. Only /\ req[h].pc = "idle" /\ UNCHANGED faults
    BY <1>2, <2>2, <2>3, <2>4, <2>5 DEF Request
  <2>7. QED
    BY <1>1, <2>6 DEF Publishing, At
<1>3. CASE HandlerStep(h) /\ ~AddPinUploadTask(h)
  <2>1. UNCHANGED faults /\ req[h].pc # "publish"
    BY <1>3 DEF HandlerStep, CreateSession, TouchSession, LockAndCount, InsertMedia,
       ClaimProcessing,
       SelectMedia, CreatePin, AttachMedia, IncMediaCount, ReadPin, SavePin, ConfirmSession,
       DeleteOrphans, CancelSession, DeleteMediaRow, DecMediaCount, DeletePinMedia, DeletePinRow,
       At, envVars
  <2>2. \A g \in Handler \ {h} : req'[g] = req[g]
    <3>1. CASE SelectMedia(h) \/ CreatePin(h)
      BY <1>1, <3>1 DEF SelectMedia, CreatePin, Finish
    <3>2. CASE LockAndCount(h) \/ ReadPin(h) \/ AttachMedia(h) \/ ClaimProcessing(h) \/ SavePin(h)
      BY <1>1, <3>2 DEF LockAndCount, ReadPin, AttachMedia, ClaimProcessing, SavePin, Finish, Goto
    <3>3. CASE \/ IncMediaCount(h) \/ DeleteOrphans(h) \/ DeleteMediaRow(h)
               \/ DecMediaCount(h) \/ DeletePinMedia(h)
      BY <1>1, <3>3 DEF IncMediaCount, DeleteOrphans, DeleteMediaRow, DecMediaCount,
         DeletePinMedia, Goto
    <3>4. CASE \/ CreateSession(h) \/ TouchSession(h) \/ InsertMedia(h) \/ ConfirmSession(h)
               \/ CancelSession(h) \/ DeletePinRow(h)
      BY <1>1, <3>4 DEF CreateSession, TouchSession, InsertMedia, ConfirmSession,
         CancelSession, DeletePinRow, Finish
    <3>5. QED
      BY <1>3, <3>1, <3>2, <3>3, <3>4 DEF HandlerStep
  <2>3. QED
    BY <2>1, <2>2 DEF Publishing, At
<1>4. QED
  BY <1>2, <1>3

\* A step that drops nothing leaves an owner to every session in PROCESSING.
LEMMA OwnedNext ==
  ASSUME TaskInv, OwnedInv, [Next]_vars
  PROVE  OwnedInv'
<1> SUFFICES ASSUME Undropped', NEW s \in Session, Claimed(s)'
             PROVE  Owned(s)'
  BY DEF OwnedInv
<1>1. TypeInv /\ faults \in Nat
  BY DEF TaskInv, TypeInv, EnvOK
<1>2. ASSUME UNCHANGED faults \/ faults' = faults + 1
      PROVE  Undropped /\ (Owned(s) \/ \E h \in Handler : Publishing(h, s)')
  <2>1. Undropped
    BY <1>1, <1>2 DEF Undropped
  <2>2. QED
    BY <2>1, ClaimedBefore DEF OwnedInv
<1>3. ASSUME NEW h \in Handler, Request(h) \/ HandlerStep(h)
      PROVE  Owned(s)'
  <2>1. CASE AddPinUploadTask(h)
    <3>1. /\ UNCHANGED <<wk, faults>> /\ stream' = Append(stream, req[h].sess)
          /\ stream \in Seq(Session) /\ req[h].sess \in Session
          /\ \A g \in Handler \ {h} : req'[g] = req[g] /\ req'[h].pc = "idle"
      BY <1>1, <2>1 DEF AddPinUploadTask, TypeInv, QueuesOK, RequestsInv, RequestsOK, ArmedReq, At,
         SessionPCs, Finish, NoRequest, backVars, envVars
    <3>2. /\ \A i \in DOMAIN stream : i \in DOMAIN stream' /\ stream'[i] = stream[i]
          /\ Len(stream) + 1 \in DOMAIN stream' /\ stream'[Len(stream) + 1] = req[h].sess
      BY <3>1
    <3>3. ~Absent(s) \/ s = req[h].sess => ~Absent(s)'
      BY <3>1, <3>2 DEF Absent, Batch
    <3>4. \A g \in Handler : Publishing(g, s) => Publishing(g, s)' \/ s = req[h].sess
      BY <3>1 DEF Publishing, At
    <3>5. QED
      BY <1>2, <3>1, <3>3, <3>4 DEF Owned
  <2>2. CASE ~AddPinUploadTask(h)
    <3>1. UNCHANGED faults /\ \A x : \A g \in Handler : Publishing(g, x) => Publishing(g, x)'
      BY <1>1, <1>3, <2>2, PublishersStay
    <3>2. UNCHANGED <<stream, wk>>
      BY <1>1, <1>3, <2>2, RequestPublishes, SilentPublishes
         DEF Silent, ClaimProcessing, queueVars, backVars
    <3>3. QED
      BY <1>2, <3>1, <3>2 DEF Owned, Absent, Batch
  <2>3. QED
    BY <2>1, <2>2
<1>4. ASSUME NEW h \in Handler, HandlerFails(h)
      PROVE  FALSE
  BY <1>1, <1>4 DEF HandlerFails, Undropped
<1>5. ASSUME NEW w \in Worker, WorkerStep(w) \/ WorkerError(w) \/ WorkerDrops(w) \/ WorkerCrash(w)
      PROVE  Owned(s)'
  <2>1. UNCHANGED req /\ (UNCHANGED faults \/ faults' = faults + 1)
    BY <1>5 DEF WorkerStep, ReadTasks, DedupMedia, SaveSnapshot, SetReady, Announce, WorkerError,
       WorkerDrops, WorkerCrash, envVars
  <2>2. QED
    BY <1>2, <1>5, <2>1, WorkerLetsGo DEF Owned, Publishing, At
<1>6. CASE ResultStep \/ CleanupStep \/ Environment \/ UNCHANGED vars
  <2>1. UNCHANGED <<stream, wk, req, faults>>
    BY <1>6 DEF ResultStep, DeliverResult, MergeResult, AckResult, CleanupStep, ListAbandoned,
       CleanOrphans, CloseAbandoned, Environment, SeventyTwoHours, DeleteClosed, TripStatusChanges,
       vars, queueVars, backVars, envVars
  <2>2. QED
    BY <1>2, <2>1 DEF Owned, Absent, Batch, Publishing, At
<1>7. QED
  BY <1>3, <1>4, <1>5, <1>6 DEF Next, Fault

\* While no handler or consumer fails in a way that drops a task, a session in
\* PROCESSING has its publisher, its task, or the consumer that holds it; the
\* fallback of a processing error drops none.
THEOREM ProcessingOwned == Spec => []ProcessingIsOwned
<1>1. TaskInv /\ OwnedInv => ProcessingIsOwned
  <2> SUFFICES ASSUME TaskInv, OwnedInv, NEW s \in Session, Claimed(s), Undropped
               PROVE  \/ Occurrences(s) # {}
                      \/ \E h \in Handler : req[h].sess = s /\ At(h, "publish")
    BY DEF ProcessingIsOwned, Claimed, Undropped
  <2>1. CASE ~Absent(s)
    <3>1. ASSUME NEW i \in DOMAIN stream, stream[i] = s
          PROVE  <<0, i>> \in Occurrences(s)
      BY <3>1 DEF Occurrences
    <3>2. ASSUME NEW w \in Worker, NEW i \in DOMAIN wk[w].batch, wk[w].batch[i] = s
          PROVE  <<w, i>> \in Occurrences(s)
      BY <3>2 DEF Occurrences
    <3>3. QED
      BY <2>1, <3>1, <3>2 DEF Absent, Batch
  <2>2. QED
    BY <2>1 DEF OwnedInv, Owned, Publishing
<1>2. Init => OwnedInv
  BY DEF Init, OwnedInv, Claimed
<1>3. TaskInv /\ OwnedInv /\ [Next]_vars => TaskInv' /\ OwnedInv'
  BY TaskNext, OwnedNext
<1>4. QED
  BY <1>1, <1>2, <1>3, TaskInit, PTL DEF Spec
=============================================================================
