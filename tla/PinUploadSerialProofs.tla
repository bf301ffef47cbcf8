------------------------ MODULE PinUploadSerialProofs ------------------------
(***************************************************************************)
(* The media and the pins of a trip when its requests come one after the   *)
(* other, none stops half-way, and no session is old enough for the cron:  *)
(* no pin is empty, media_count is right, and a closed session leaves no   *)
(* media without a pin.  The consumers, the ML results and the trip's      *)
(* status go on at any time.  And the limit of the trip, which needs less. *)
(***************************************************************************)
EXTENDS PinUploadProofs

\* Clients wait for an answer, ...
OneAtATime == \E h : Handler = {h}
\* ... no handler stops half-way, and sessions are young.
Serial == OneAtATime /\ MaxFaults = 0 /\ "cleanup" \notin Ops

------------------------------------------------------------------------------
(* The limit of the trip                                                    *)

\* A commit that has counted is the only one, and there is room for its media.
LimitInv == /\ TripWithinLimit
            /\ \A h \in Handler : At(h, "insert") => Cardinality(rows) < MaxMediaPerTrip
            /\ \A g, h \in Handler : At(g, "insert") /\ At(h, "insert") => g = h

\* The advisory lock is per session: it is one lock if there is one session, or
\* one request at a time.
OneLock == (\A s, x \in Session : s = x) \/ (\A g, h \in Handler : g = h)

\* Nothing but InsertMedia adds a row, and only LockAndCount leads there.
LEMMA RequestInserts ==
  ASSUME TypeInv, NEW h \in Handler, Request(h)
  PROVE  /\ UNCHANGED rows
         /\ \A g \in Handler : At(g, "insert")' => At(g, "insert")
<1>1. req \in [Handler -> Requests]
  BY DEF TypeInv, RequestsInv, RequestsOK
<1>2. ASSUME NEW op, NEW pc, NEW s, NEW p, NEW ids, NEW cnt, pc # "insert",
             Call(h, op, pc, s, p, ids, cnt)
      PROVE  \A g \in Handler : At(g, "insert")' => At(g, "insert")
  BY <1>1, <1>2 DEF Call, At
<1>3. ASSUME NEW t \in Pin \cup {NoPin}, PinUploadStart(h, t)
      PROVE  \A g \in Handler : At(g, "insert")' => At(g, "insert")
  BY <1>2, <1>3 DEF PinUploadStart
<1>4. ASSUME NEW s \in Session,
             \/ RequestPinUploadUrls(h, s) \/ CommitPinUpload(h, s) \/ ProcessPinUpload(h, s)
             \/ FinalizePinUpload(h, s) \/ CancelPinUpload(h, s)
      PROVE  \A g \in Handler : At(g, "insert")' => At(g, "insert")
  <2>1. \E op, pc, p : pc # "insert" /\ Call(h, op, pc, s, p, {}, 0)
    BY <1>4 DEF RequestPinUploadUrls, CommitPinUpload, ProcessPinUpload, FinalizePinUpload,
       CancelPinUpload
  <2>2. QED
    BY <1>2, <2>1
<1>5. ASSUME NEW p \in Pin, UpdatePin(h, p) \/ DeletePin(h, p)
      PROVE  \A g \in Handler : At(g, "insert")' => At(g, "insert")
  BY <1>2, <1>5 DEF UpdatePin, DeletePin
<1>6. ASSUME NEW p \in Pin, NEW m \in Media, RemoveMediaFromPin(h, p, m)
      PROVE  \A g \in Handler : At(g, "insert")' => At(g, "insert")
  BY <1>2, <1>6 DEF RemoveMediaFromPin
<1>7. UNCHANGED rows
  BY DEF Request, PinUploadStart, RequestPinUploadUrls, CommitPinUpload, ProcessPinUpload,
     FinalizePinUpload, CancelPinUpload, UpdatePin, DeletePin, RemoveMediaFromPin, mediaVars
<1>8. QED
  BY <1>3, <1>4, <1>5, <1>6, <1>7 DEF Request

\* A step of a handler is a step of its own request.
LEMMA HandlerMoves ==
  ASSUME TypeInv, NEW h \in Handler, HandlerStep(h)
  PROVE  /\ \A g \in Handler \ {h} : req'[g] = req[g]
         /\ req'[h].pc = "insert" => LockAndCount(h)
<1>1. req \in [Handler -> Requests]
  BY DEF TypeInv, RequestsInv, RequestsOK
<1>2. CASE SelectMedia(h) \/ CreatePin(h)
  <2>1. \A g \in Handler \ {h} : req'[g] = req[g]
    BY <1>1, <1>2 DEF SelectMedia, CreatePin, Finish
  <2>2. SelectMedia(h) => req'[h].pc # "insert"
    BY <1>1 DEF SelectMedia, Finish, NoRequest, Requests
  <2>3. CreatePin(h) => req'[h].pc # "insert"
    BY <1>1 DEF CreatePin, Requests
  <2>4. QED
    BY <1>2, <2>1, <2>2, <2>3
<1>3. CASE LockAndCount(h)
  BY <1>1, <1>3 DEF LockAndCount, Finish
<1>4. CASE ReadPin(h) \/ AttachMedia(h) \/ ClaimProcessing(h) \/ SavePin(h)
  BY <1>1, <1>4 DEF ReadPin, AttachMedia, ClaimProcessing, SavePin, Finish, Goto, NoRequest,
     Requests
<1>5. CASE \/ IncMediaCount(h) \/ DeleteOrphans(h) \/ DeleteMediaRow(h)
           \/ DecMediaCount(h) \/ DeletePinMedia(h)
  BY <1>1, <1>5 DEF IncMediaCount, DeleteOrphans, DeleteMediaRow, DecMediaCount, DeletePinMedia,
     Goto, Requests
<1>6. CASE \/ CreateSession(h) \/ TouchSession(h) \/ InsertMedia(h) \/ ConfirmSession(h)
           \/ CancelSession(h) \/ DeletePinRow(h) \/ AddPinUploadTask(h)
  BY <1>1, <1>6 DEF CreateSession, TouchSession, InsertMedia, ConfirmSession, CancelSession,
     DeletePinRow, AddPinUploadTask, Finish, NoRequest
<1>7. QED
  BY <1>2, <1>3, <1>4, <1>5, <1>6 DEF HandlerStep

\* Nothing but the INSERT of a commit adds a row.
LEMMA OnlyInsertsAdd ==
  ASSUME [Next]_vars, ~ \E h \in Handler : InsertMedia(h)
  PROVE  rows' \subseteq rows
<1>1. ASSUME NEW h \in Handler, Request(h)
      PROVE  rows' = rows
  BY <1>1 DEF Request, PinUploadStart, RequestPinUploadUrls, CommitPinUpload, ProcessPinUpload,
     FinalizePinUpload, CancelPinUpload, UpdatePin, DeletePin, RemoveMediaFromPin, mediaVars
<1>2. ASSUME NEW h \in Handler, HandlerStep(h)
      PROVE  rows' \subseteq rows
  <2>1. CASE SelectMedia(h) \/ DeleteOrphans(h) \/ DeleteMediaRow(h) \/ DeletePinMedia(h)
    BY <2>1 DEF SelectMedia, DeleteOrphans, DeleteMediaRow, DeletePinMedia
  <2>2. CASE ~(SelectMedia(h) \/ DeleteOrphans(h) \/ DeleteMediaRow(h) \/ DeletePinMedia(h))
    <3>1. rows' = rows
      BY <1>2, <2>2 DEF HandlerStep, CreateSession, TouchSession, LockAndCount, ClaimProcessing,
         AddPinUploadTask, CreatePin, AttachMedia, IncMediaCount, ReadPin, SavePin, ConfirmSession,
         CancelSession, DecMediaCount, DeletePinRow, mediaVars
    <3>2. QED
      BY <3>1
  <2>3. QED
    BY <2>1, <2>2
<1>3. ASSUME NEW w \in Worker, WorkerStep(w)
      PROVE  rows' \subseteq rows
  BY <1>3 DEF WorkerStep, ReadTasks, DedupMedia, SaveSnapshot, SetReady, Announce, mediaVars
<1>4. CASE ResultStep \/ CleanupStep \/ Environment \/ Fault \/ UNCHANGED vars
  BY <1>4 DEF ResultStep, DeliverResult, MergeResult, AckResult, CleanupStep, ListAbandoned,
     CleanOrphans, CloseAbandoned, Environment, SeventyTwoHours, DeleteClosed, TripStatusChanges,
     Fault, HandlerFails, WorkerError, WorkerDrops, WorkerCrash, vars, mediaVars
<1>5. QED
  BY <1>1, <1>2, <1>3, <1>4 DEF Next

\* A commit that has counted holds the lock: the count is an upper bound until its INSERT.
LEMMA LimitNext ==
  ASSUME OneLock, TypeInv, LimitInv, [Next]_vars
  PROVE  LimitInv'
<1>1. /\ rows \subseteq Media /\ IsFiniteSet(rows) /\ req \in [Handler -> Requests]
      /\ Cardinality(rows) \in Nat /\ MaxMediaPerTrip \in Nat
  BY MediaCardinality, FiniteAssumption, FS_Subset, BoundAssumption
     DEF TypeInv, MediaOK, RequestsInv, RequestsOK
<1>2. ASSUME NEW h \in Handler, InsertMedia(h)
      PROVE  LimitInv'
  <2>1. Cardinality(rows) < MaxMediaPerTrip /\ \A g \in Handler \ {h} : ~At(g, "insert")
    BY <1>2 DEF InsertMedia, LimitInv
  <2>2. rows' = rows \/ \E m : m \notin rows /\ rows' = rows \cup {m}
    BY <1>2 DEF InsertMedia, mediaVars, TypeInv, MediaOK
  <2>3. Cardinality(rows') <= MaxMediaPerTrip
    <3>1. CASE rows' = rows
      BY <1>1, <2>1, <3>1
    <3>2. ASSUME NEW m, m \notin rows, rows' = rows \cup {m}
          PROVE  Cardinality(rows') = Cardinality(rows) + 1
      BY <1>1, <3>2, FS_AddElement
    <3>3. QED
      BY <1>1, <2>1, <2>2, <3>1, <3>2
  <2>4. \A g \in Handler : ~At(g, "insert")'
    BY <1>1, <1>2, <2>1 DEF InsertMedia, Finish, NoRequest, At
  <2>5. QED
    BY <2>3, <2>4 DEF LimitInv, TripWithinLimit
<1>3. ASSUME NEW h \in Handler, LockAndCount(h)
      PROVE  LimitInv'
  <2>1. UNCHANGED rows /\ At(h, "lock") /\ \A g \in Handler \ {h} : req'[g] = req[g]
    BY <1>1, <1>3 DEF LockAndCount, mediaVars, Finish
  <2>2. \A g \in Handler : ~At(g, "insert")
    <3> SUFFICES ASSUME NEW g \in Handler, At(g, "insert") PROVE FALSE
      OBVIOUS
    <3>1. req[g].sess \in Session /\ req[h].sess \in Session /\ g # h
      BY <2>1 DEF TypeInv, RequestsInv, ArmedReq, At, SessionPCs
    <3>2. QED
      BY <1>3, <3>1 DEF LockAndCount, LockFree, OneLock
  <2>3. req'[h].pc = "insert" => Cardinality(rows) < MaxMediaPerTrip
    BY <1>1, <1>3 DEF LockAndCount, Finish, NoRequest
  <2>4. QED
    BY <2>1, <2>2, <2>3 DEF LimitInv, TripWithinLimit, At
<1>4. CASE /\ ~ \E h \in Handler : InsertMedia(h)
           /\ \A g \in Handler : At(g, "insert")' => At(g, "insert")
  <2>1. rows' \subseteq rows
    BY <1>4, OnlyInsertsAdd
  <2>2. Cardinality(rows') <= Cardinality(rows) /\ Cardinality(rows') \in Nat
    BY <1>1, <2>1, FS_Subset, FS_CardinalityType
  <2>3. Cardinality(rows') <= MaxMediaPerTrip
    BY <1>1, <2>2 DEF LimitInv, TripWithinLimit
  <2>4. QED
    BY <1>1, <1>4, <2>2, <2>3 DEF LimitInv, TripWithinLimit
<1>5. CASE /\ ~ \E h \in Handler : InsertMedia(h)
           /\ ~ \E h \in Handler : LockAndCount(h)
  <2>1. ASSUME NEW h \in Handler, HandlerStep(h)
        PROVE  \A g \in Handler : At(g, "insert")' => At(g, "insert")
    BY <1>5, <2>1, HandlerMoves DEF At
  <2>2. ASSUME NEW h \in Handler, HandlerFails(h)
        PROVE  \A g \in Handler : At(g, "insert")' => At(g, "insert")
    BY <1>1, <2>2 DEF HandlerFails, Finish, NoRequest, At
  <2>3. ASSUME ~ \E h \in Handler : Request(h) \/ HandlerStep(h) \/ HandlerFails(h)
        PROVE  \A g \in Handler : At(g, "insert")' => At(g, "insert")
    <3>1. UNCHANGED req
      BY <2>3 DEF Next, WorkerStep, ReadTasks, DedupMedia, SaveSnapshot, SetReady, Announce,
         ResultStep, DeliverResult, MergeResult, AckResult, CleanupStep, ListAbandoned,
         CleanOrphans, CloseAbandoned, Environment, SeventyTwoHours, DeleteClosed,
         TripStatusChanges, Fault, WorkerError, WorkerDrops, WorkerCrash, vars
    <3>2. QED
      BY <3>1 DEF At
  <2>4. \A g \in Handler : At(g, "insert")' => At(g, "insert")
    BY <2>1, <2>2, <2>3, RequestInserts
  <2>5. QED
    BY <1>4, <1>5, <2>4
<1>6. QED
  BY <1>2, <1>3, <1>5

\* A trip that starts within the limit stays within it, if its commits take turns
\* at one lock: the same session, or one request at a time.  Any failure allowed.
THEOREM WithinLimit ==
  ASSUME OneLock, Cardinality(SeedMedia) <= MaxMediaPerTrip
  PROVE  Spec => []TripWithinLimit
<1>1. Init => LimitInv
  BY DEF Init, LimitInv, TripWithinLimit, At, NoRequest
<1>2. TypeInv /\ LimitInv /\ [Next]_vars => LimitInv'
  BY LimitNext
<1>3. LimitInv => TripWithinLimit
  BY DEF LimitInv
<1>4. QED
  BY <1>1, <1>2, <1>3, TypeInvariant, PTL DEF Spec

------------------------------------------------------------------------------
(* The invariant of one request at a time                                   *)

InTable(s)    == status[s] \in Row
Unattached(s) == \A m \in ListByUploadSession(s) : pinOf[m] = NoPin
Accurate(p)   == count[p] = Cardinality(ListByPinID(p))

\* The foreign keys of media.
Keys == /\ \A m \in rows : owner[m] # NoSession => InTable(owner[m])
        /\ \A m \in rows : pinOf[m] # NoPin => pinRow[pinOf[m]] = "LIVE"

\* A finalize before and after it has attached the media of its session.
Attaching == {"createPin", "attachNew", "attach"}
Done(r)   == r.op = "finalize" /\ r.pc \in {"inc", "refresh", "save", "confirm"}

\* A closed session has no orphan, an open one no attached media: but for the
\* session that the request at work is about to close.
SessionMedia(r) ==
  /\ r.pc \in {"select", "inc", "confirm"} \cup Attaching => r.op = "finalize"
  /\ r.pc \in {"deleteRow", "dec"} => r.op # "finalize"
  /\ \A s \in Session :
       /\ InTable(s) /\ closed[s] # "open" => Orphans(s) = {}
       /\ IsOpen(s) => Unattached(s) \/ (Done(r) /\ r.sess = s)
       /\ r.sess = s =>
            /\ r.pc \in {"lock", "insert", "select"} \cup Attaching => IsOpen(s)
            /\ r.pc \in Attaching => r.ids = ListByUploadSession(s) /\ r.ids # {}
            /\ Done(r) \/ r.pc = "cancel" => Orphans(s) = {}

\* A pin has media and their number, but for the pin that the request at work is
\* building, emptying, or has not counted yet.
PinMedia(r) ==
  \A p \in Pin :
    /\ pinRow[p] = "LIVE" =>
         /\ ListByPinID(p) # {} \/ (r.pin = p /\ r.pc \in {"attachNew", "deletePin"})
         /\ Accurate(p) \/ (r.pin = p /\ r.pc \in {"attachNew", "inc", "dec", "deletePin"})
    /\ r.pin = p =>
         /\ r.pc = "attachNew" => /\ pinRow[p] = "LIVE" /\ ListByPinID(p) = {}
                                  /\ count[p] = Cardinality(r.ids)
         /\ r.pc = "inc" => count[p] + Cardinality(r.ids) = Cardinality(ListByPinID(p))
         /\ r.pc = "dec" => count[p] = Cardinality(ListByPinID(p)) + 1
         /\ r.pc = "save" => r.cnt = count[p]
         /\ r.pc = "deleteRow" => /\ pinRow[p] = "LIVE"
                                  /\ \E m, x \in ListByPinID(p) : m # x /\ r.ids = {m}
         /\ r.pc = "deletePin" => ListByPinID(p) = {}

Good(r) == Keys /\ SessionMedia(r) /\ PinMedia(r)

SerialInv == TypeInv /\ cron.pc = "idle" /\ \A h \in Handler : Good(req[h])

------------------------------------------------------------------------------
(* Steps that leave the media and the pins alone                            *)

Still == /\ UNCHANGED <<rows, owner, pinOf, pinRow, count, closed>>
         /\ \A s \in Session : InTable(s)' <=> InTable(s)

\* Then every session and pin is as it was.
LEMMA StillSame ==
  ASSUME TypeInv, Keys, Still
  PROVE  /\ Keys'
         /\ \A s \in Session : /\ InTable(s)' <=> InTable(s)
                               /\ IsOpen(s)' <=> IsOpen(s)
                               /\ Unattached(s)' <=> Unattached(s)
                               /\ Orphans(s)' = Orphans(s)
                               /\ ListByUploadSession(s)' = ListByUploadSession(s)
         /\ \A p \in Pin : /\ ListByPinID(p)' = ListByPinID(p)
                           /\ Accurate(p)' <=> Accurate(p)
         /\ UNCHANGED <<pinRow, count, closed>>
<1>1. \A p : ListByPinID(p)' = ListByPinID(p)
  BY DEF Still, ListByPinID
<1>2. \A s : /\ ListByUploadSession(s)' = ListByUploadSession(s)
             /\ Orphans(s)' = Orphans(s)
             /\ Unattached(s)' <=> Unattached(s)
  BY DEF Still, ListByUploadSession, Orphans, Unattached
<1>3. \A s \in Session : IsOpen(s)' <=> IsOpen(s)
  BY DEF Still, IsOpen, InTable
<1>4. Keys'
  <2>1. rows \subseteq Media /\ owner \in [Media -> Session \cup {NoSession}]
    BY DEF TypeInv, MediaOK
  <2>2. QED
    BY <2>1 DEF Keys, Still
<1>5. \A p \in Pin : Accurate(p)' <=> Accurate(p)
  BY <1>1 DEF Still, Accurate
<1>6. QED
  BY <1>1, <1>2, <1>3, <1>4, <1>5 DEF Still

\* A step of which a request sees nothing.
LEMMA StillGood ==
  ASSUME TypeInv, NEW h \in Handler, Good(req[h]), Still, UNCHANGED req
  PROVE  Good(req[h])'
BY StillSame DEF Good, SessionMedia, PinMedia, Done, Attaching

\* The places of a request about which the invariant says nothing.
Ordinary == {"idle", "create", "touch", "claim", "publish", "orphans", "deleteMedia"}

\* A request that stays at such places.
LEMMA OrdinaryGood ==
  ASSUME TypeInv, NEW h \in Handler, Good(req[h]), Still,
         req[h].pc \in Ordinary, req'[h].pc \in Ordinary
  PROVE  Good(req[h])'
BY StillSame DEF Good, SessionMedia, PinMedia, Done, Attaching, Ordinary

\* Moving on changes nothing but the place of the request.
LEMMA GotoOnly ==
  ASSUME TypeInv, NEW h \in Handler, NEW pc, Goto(h, pc)
  PROVE  /\ req'[h].pc = pc /\ req'[h].op = req[h].op /\ req'[h].sess = req[h].sess
         /\ req'[h].pin = req[h].pin /\ req'[h].ids = req[h].ids /\ req'[h].cnt = req[h].cnt
BY DEF TypeInv, RequestsInv, RequestsOK, Requests, Goto

\* A request that ends leaves an idle slot.
LEMMA FinishOnly ==
  ASSUME TypeInv, NEW h \in Handler, Finish(h)
  PROVE  req'[h].pc = "idle" /\ req'[h].op = "none"
BY DEF TypeInv, RequestsInv, RequestsOK, Finish, NoRequest

\* A request enters with what its handler has asked: an open session, the count it
\* read, or a pin with another media.
LEMMA RequestGood ==
  ASSUME TypeInv, NEW h \in Handler, Good(req[h]), Request(h)
  PROVE  Good(req[h])'
<1>1. req \in [Handler -> Requests]
  BY DEF TypeInv, RequestsInv, RequestsOK
<1>2. Still
  <2>1. UNCHANGED <<sessVars, mediaVars, pinVars>>
    BY DEF Request, PinUploadStart, RequestPinUploadUrls, CommitPinUpload, ProcessPinUpload,
       FinalizePinUpload, CancelPinUpload, UpdatePin, DeletePin, RemoveMediaFromPin
  <2>2. QED
    BY <2>1 DEF Still, sessVars, mediaVars, pinVars, InTable
<1>3. ASSUME NEW pc \in Ordinary, NEW op, NEW s, NEW p, Call(h, op, pc, s, p, {}, 0)
      PROVE  Good(req[h])'
  <2>1. req[h].pc \in Ordinary /\ req'[h].pc \in Ordinary
    BY <1>1, <1>3 DEF Call, Ordinary
  <2>2. QED
    BY <1>2, <2>1, OrdinaryGood
<1>4. ASSUME NEW t \in Pin \cup {NoPin}, PinUploadStart(h, t)
      PROVE  Good(req[h])'
  BY <1>3, <1>4 DEF PinUploadStart, Ordinary
<1>5. ASSUME NEW s \in Session,
             RequestPinUploadUrls(h, s) \/ ProcessPinUpload(h, s) \/ CancelPinUpload(h, s)
      PROVE  Good(req[h])'
  BY <1>3, <1>5 DEF RequestPinUploadUrls, ProcessPinUpload, CancelPinUpload, Ordinary
<1>6. ASSUME NEW s \in Session, CommitPinUpload(h, s) \/ FinalizePinUpload(h, s)
      PROVE  Good(req[h])'
  <2>1. /\ req[h].pc = "idle" /\ IsOpen(s) /\ req'[h].sess = s
        /\ req'[h].pc \in {"lock", "select"} /\ (req'[h].pc = "select" => req'[h].op = "finalize")
    BY <1>1, <1>6 DEF CommitPinUpload, FinalizePinUpload, Active, Call
  <2>2. QED
    BY <1>2, <2>1, StillSame DEF Good, SessionMedia, PinMedia, Done, Attaching
<1>7. ASSUME NEW p \in Pin, UpdatePin(h, p)
      PROVE  Good(req[h])'
  <2>1. /\ req[h].pc = "idle" /\ req'[h].pc = "save" /\ req'[h].op = "update"
        /\ req'[h].pin = p /\ req'[h].cnt = count[p]
    BY <1>1, <1>7 DEF UpdatePin, Call
  <2>2. QED
    BY <1>2, <2>1, StillSame DEF Good, SessionMedia, PinMedia, Done, Attaching
<1>8. ASSUME NEW p \in Pin, DeletePin(h, p)
      PROVE  Good(req[h])'
  BY <1>3, <1>8 DEF DeletePin, Ordinary
<1>9. ASSUME NEW p \in Pin, NEW m \in Media, RemoveMediaFromPin(h, p, m)
       PROVE  Good(req[h])'
  <2>1. /\ req[h].pc = "idle" /\ req'[h].pc = "deleteRow" /\ req'[h].op = "remove"
        /\ req'[h].pin = p /\ req'[h].ids = {m} /\ pinRow[p] = "LIVE"
        /\ m \in ListByPinID(p)
    BY <1>1, <1>9 DEF RemoveMediaFromPin, Call
  <2>2. \E x \in ListByPinID(p) : m # x
    <3>1. Cardinality(ListByPinID(p)) > 1
      BY <1>9 DEF RemoveMediaFromPin, MayRemove
    <3>2. ListByPinID(p) # {m}
      <4>1. Cardinality({m}) = 1
        BY FS_Singleton
      <4>2. QED
        BY <3>1, <4>1
    <3>3. QED
      BY <2>1, <3>2
  <2>3. QED
    BY <1>2, <2>1, <2>2, StillSame DEF Good, SessionMedia, PinMedia, Done, Attaching
<1>10. QED
  BY <1>4, <1>5, <1>6, <1>7, <1>8, <1>9 DEF Request

------------------------------------------------------------------------------
(* The handlers                                                             *)

\* A new session has no media yet.
LEMMA CreateGood ==
  ASSUME TypeInv, NEW h \in Handler, Good(req[h]), CreateSession(h)
  PROVE  Good(req[h])'
<1>1. req'[h].pc = "idle" /\ req[h].pc = "create"
  BY FinishOnly DEF CreateSession, At
<1>2. UNCHANGED <<rows, owner, pinOf, pinRow, count>>
  BY DEF CreateSession, mediaVars, pinVars
<1>3. CASE UNCHANGED sessVars
  <2>1. Still
    BY <1>2, <1>3 DEF Still, InTable, sessVars
  <2>2. QED
    BY <1>1, <2>1, OrdinaryGood DEF Ordinary
<1>4. ASSUME NEW s \in Session, status[s] = "UNUSED", status' = [status EXCEPT ![s] = "UPLOADING"],
             UNCHANGED closed
      PROVE  Good(req[h])'
  <2>1. status \in [Session -> Status] /\ rows \subseteq Media /\ NoSession \notin Session
    BY NullAssumption DEF TypeInv, SessionsOK, MediaOK
  <2>2. \A x \in Session : InTable(x) => InTable(x)'
    BY <1>4, <2>1 DEF InTable, Row
  <2>3. \A x \in Session \ {s} : (InTable(x)' <=> InTable(x)) /\ (IsOpen(x)' <=> IsOpen(x))
    BY <1>4, <2>1 DEF InTable, IsOpen
  <2>4. \A x : /\ ListByUploadSession(x)' = ListByUploadSession(x)
               /\ Orphans(x)' = Orphans(x)
               /\ Unattached(x)' <=> Unattached(x)
    BY <1>2 DEF ListByUploadSession, Orphans, Unattached
  <2>5. \A p : ListByPinID(p)' = ListByPinID(p) /\ (Accurate(p)' <=> Accurate(p))
    BY <1>2 DEF ListByPinID, Accurate
  <2>6. ListByUploadSession(s) = {}
    BY <1>4, <2>1 DEF Good, Keys, InTable, Row, ListByUploadSession
  <2>7. Orphans(s) = {} /\ Unattached(s)
    BY <2>6 DEF ListByUploadSession, Orphans, Unattached
  <2>8. Keys'
    BY <1>2, <2>1, <2>2 DEF Good, Keys, TypeInv, MediaOK
  <2>9. SessionMedia(req[h])'
    BY <1>1, <1>4, <2>3, <2>4, <2>7 DEF Good, SessionMedia, Done, Attaching
  <2>10. PinMedia(req[h])'
    BY <1>1, <1>2, <2>5 DEF Good, PinMedia
  <2>11. QED
    BY <2>8, <2>9, <2>10 DEF Good
<1>5. QED
  BY <1>3, <1>4 DEF CreateSession

\* The statements on the session's row, and the lock.
LEMMA SessionGood ==
  ASSUME TypeInv, NEW h \in Handler, Good(req[h]),
         TouchSession(h) \/ LockAndCount(h) \/ ClaimProcessing(h) \/ AddPinUploadTask(h)
  PROVE  Good(req[h])'
<1>1. status \in [Session -> Status] /\ req \in [Handler -> Requests]
  BY DEF TypeInv, SessionsOK, RequestsInv, RequestsOK
<1>2. Still
  <2>1. UNCHANGED <<mediaVars, pinVars, closed>> /\ (UNCHANGED status \/ ClaimProcessing(h))
    BY DEF TouchSession, LockAndCount, ClaimProcessing, AddPinUploadTask, sessVars
  <2>2. \A s \in Session : InTable(s)' <=> InTable(s)
    BY <1>1, <2>1 DEF ClaimProcessing, CanSetStatus, InTable, Row
  <2>3. QED
    BY <2>1, <2>2 DEF Still, mediaVars, pinVars
<1>3. CASE TouchSession(h) \/ ClaimProcessing(h) \/ AddPinUploadTask(h)
  <2>1. req[h].pc \in Ordinary /\ req'[h].pc \in Ordinary
    BY <1>3, FinishOnly, GotoOnly DEF TouchSession, ClaimProcessing, AddPinUploadTask, At, Ordinary
  <2>2. QED
    BY <1>2, <2>1, OrdinaryGood
<1>4. CASE LockAndCount(h)
  <2>1. /\ req[h].pc = "lock"
        /\ \/ req'[h].pc = "idle"
           \/ req'[h].pc = "insert" /\ req'[h].sess = req[h].sess /\ req'[h].pin = req[h].pin
    BY <1>1, <1>4, FinishOnly DEF LockAndCount, At, Requests
  <2>2. QED
    BY <1>2, <2>1, StillSame DEF Good, SessionMedia, PinMedia, Done, Attaching
<1>5. QED
  BY <1>3, <1>4

\* The INSERT of a commit goes to an open session.
LEMMA InsertGood ==
  ASSUME TypeInv, NEW h \in Handler, Good(req[h]), InsertMedia(h)
  PROVE  Good(req[h])'
<1> DEFINE t == req[h].sess
<1>1. /\ t \in Session /\ req[h].pc = "insert" /\ rows \subseteq used /\ used \subseteq Media
      /\ owner \in [Media -> Session \cup {NoSession}] /\ pinOf \in [Media -> Pin \cup {NoPin}]
  BY DEF TypeInv, MediaOK, RequestsInv, ArmedReq, InsertMedia, At, SessionPCs
<1>2. IsOpen(t) /\ InTable(t)
  BY <1>1 DEF Good, SessionMedia, IsOpen, InTable
<1>3. PICK m \in Media \ used : /\ rows' = rows \cup {m}
                                /\ owner' = [owner EXCEPT ![m] = t]
                                /\ pinOf' = [pinOf EXCEPT ![m] = NoPin]
  BY <1>2 DEF InsertMedia, InTable
<1>4. req'[h].pc = "idle" /\ UNCHANGED <<status, closed, pinRow, count>>
  BY FinishOnly DEF InsertMedia, pinVars
<1>5. NoPin \notin Pin
  BY NullAssumption
<1>6. \A p \in Pin : ListByPinID(p)' = ListByPinID(p)
  BY <1>1, <1>3, <1>5 DEF ListByPinID
<1>7. \A s \in Session \ {t} : ListByUploadSession(s)' = ListByUploadSession(s) /\ Orphans(s)' = Orphans(s)
  BY <1>1, <1>3 DEF ListByUploadSession, Orphans
<1>8. ASSUME NEW s \in Session, Unattached(s)
      PROVE  Unattached(s)'
  BY <1>1, <1>3, <1>8 DEF ListByUploadSession, Unattached
<1>9. \A s \in Session : (InTable(s)' <=> InTable(s)) /\ (IsOpen(s)' <=> IsOpen(s))
  BY <1>4 DEF InTable, IsOpen
<1>10. Keys'
  BY <1>1, <1>2, <1>3, <1>4 DEF Good, Keys, InTable
<1>11. SessionMedia(req[h])'
  BY <1>1, <1>2, <1>4, <1>7, <1>8, <1>9 DEF Good, SessionMedia, Done, Attaching, IsOpen
<1>12. PinMedia(req[h])'
  BY <1>1, <1>4, <1>6 DEF Good, PinMedia, Accurate
<1>13. QED
  BY <1>10, <1>11, <1>12 DEF Good

\* Rows go.
Fewer == rows' \subseteq rows /\ UNCHANGED <<status, closed, owner, pinOf, pinRow>>

LEMMA FewerRows ==
  ASSUME TypeInv, Keys, Fewer
  PROVE  /\ Keys'
         /\ \A s \in Session : /\ InTable(s)' <=> InTable(s)
                               /\ IsOpen(s)' <=> IsOpen(s)
                               /\ Unattached(s) => Unattached(s)'
                               /\ Orphans(s) = {} => Orphans(s)' = {}
         /\ (\A m \in rows \ rows' : pinOf[m] = NoPin) => \A p \in Pin : ListByPinID(p)' = ListByPinID(p)
<1>1. Keys'
  BY DEF TypeInv, MediaOK, Keys, Fewer, InTable
<1>2. \A s \in Session : (InTable(s)' <=> InTable(s)) /\ (IsOpen(s)' <=> IsOpen(s))
  BY DEF Fewer, InTable, IsOpen
<1>3. \A s \in Session : Unattached(s) => Unattached(s)'
  BY DEF Fewer, Unattached, ListByUploadSession
<1>4. \A s \in Session : Orphans(s) = {} => Orphans(s)' = {}
  BY DEF Fewer, Orphans
<1>5. (\A m \in rows \ rows' : pinOf[m] = NoPin) => \A p \in Pin : ListByPinID(p)' = ListByPinID(p)
  <2>1. NoPin \notin Pin
    BY NullAssumption
  <2>2. QED
    BY <2>1 DEF Fewer, ListByPinID
<1>6. QED
  BY <1>1, <1>2, <1>3, <1>4, <1>5

\* The session and the pin of the request at work.
LEMMA TheRequest ==
  ASSUME TypeInv, NEW h \in Handler
  PROVE  /\ req \in [Handler -> Requests] /\ req[h] \in Requests
         /\ req[h].pc \in SessionPCs => \E t \in Session : t = req[h].sess
         /\ req[h].pc \in PinPCs => \E p \in Pin : p = req[h].pin
BY DEF TypeInv, RequestsInv, RequestsOK, ArmedReq

\* media_to_delete names media of the open session, which have no pin.
LEMMA SelectGood ==
  ASSUME TypeInv, NEW h \in Handler, Good(req[h]), SelectMedia(h)
  PROVE  Good(req[h])'
<1>1. req[h].pc = "select" /\ req[h].op = "finalize"
  BY DEF SelectMedia, At, Good, SessionMedia
<1>2. PICK t \in Session : t = req[h].sess
  BY <1>1, TheRequest DEF SessionPCs
<1>3. IsOpen(t) /\ Unattached(t)
  BY <1>1, <1>2 DEF Good, SessionMedia, Done
<1>4. PICK del \in SUBSET ListByUploadSession(t) :
        /\ rows' = rows \ del
        /\ \/ /\ ListByUploadSession(t) \ del # {}
              /\ req' = [req EXCEPT ![h].pc = "createPin", ![h].ids = ListByUploadSession(t) \ del]
           \/ req' = [req EXCEPT ![h].ids = ListByUploadSession(t) \ del,
                                 ![h].pc = IF ListByUploadSession(t) \ del = {} THEN "confirm" ELSE "attach"]
           \/ Finish(h)
  BY <1>2 DEF SelectMedia
<1>5. UNCHANGED <<status, closed, owner, pinOf, pinRow, count>>
  BY DEF SelectMedia, sessVars, pinVars
<1>6. Fewer
  BY <1>4, <1>5 DEF Fewer
<1>7. ListByUploadSession(t)' = ListByUploadSession(t) \ del
  BY <1>4, <1>5 DEF ListByUploadSession
<1>8. \A p \in Pin : ListByPinID(p)' = ListByPinID(p)
  BY <1>3, <1>4, <1>6, FewerRows DEF Unattached, Good
<1>9. \/ req'[h].pc = "idle"
      \/ /\ req'[h].sess = t /\ req'[h].op = "finalize"
         /\ \/ /\ req'[h].pc \in {"createPin", "attach"}
               /\ req'[h].ids = ListByUploadSession(t)' /\ req'[h].ids # {}
            \/ req'[h].pc = "confirm" /\ ListByUploadSession(t)' = {}
  BY <1>1, <1>2, <1>4, <1>7, TheRequest, FinishOnly DEF Requests
<1>10. ListByUploadSession(t)' = {} => Orphans(t)' = {}
  BY DEF ListByUploadSession, Orphans
<1>11. SessionMedia(req[h])'
  BY <1>1, <1>2, <1>3, <1>5, <1>6, <1>9, <1>10, FewerRows DEF Good, SessionMedia, Done, Attaching
<1>12. PinMedia(req[h])'
  BY <1>1, <1>5, <1>8, <1>9 DEF Good, PinMedia, Accurate
<1>13. QED
  BY <1>6, <1>11, <1>12, FewerRows DEF Good

\* A new pin has no media, and their number.
LEMMA CreatePinGood ==
  ASSUME TypeInv, NEW h \in Handler, Good(req[h]), CreatePin(h)
  PROVE  Good(req[h])'
<1>1. req[h].pc = "createPin"
  BY DEF CreatePin, At
<1>2. PICK p \in Pin : /\ pinRow[p] = "UNUSED"
                       /\ pinRow' = [pinRow EXCEPT ![p] = "LIVE"]
                       /\ count' = [count EXCEPT ![p] = Cardinality(req[h].ids)]
                       /\ req' = [req EXCEPT ![h].pin = p, ![h].pc = "attachNew"]
  BY DEF CreatePin
<1>3. /\ req'[h].pc = "attachNew" /\ req'[h].pin = p /\ req'[h].op = req[h].op
      /\ req'[h].sess = req[h].sess /\ req'[h].ids = req[h].ids
  BY <1>2, TheRequest DEF Requests
<1>4. UNCHANGED <<rows, owner, pinOf, status, closed>>
  BY DEF CreatePin, sessVars, mediaVars
<1>5. /\ pinRow \in [Pin -> {"UNUSED", "LIVE", "DELETED"}] /\ count \in [Pin -> Nat]
      /\ rows \subseteq Media /\ pinOf \in [Media -> Pin \cup {NoPin}]
  BY DEF TypeInv, PinsOK, MediaOK
<1>6. \A q : ListByPinID(q)' = ListByPinID(q)
  BY <1>4 DEF ListByPinID
<1>7. ListByPinID(p) = {}
  BY <1>2, NullAssumption DEF Good, Keys, ListByPinID
<1>8. Keys'
  BY <1>2, <1>4, <1>5 DEF Good, Keys, InTable
<1>9. \A s : /\ ListByUploadSession(s)' = ListByUploadSession(s) /\ Orphans(s)' = Orphans(s)
             /\ Unattached(s)' <=> Unattached(s)
             /\ IsOpen(s)' <=> IsOpen(s)
  BY <1>4 DEF ListByUploadSession, Orphans, Unattached, IsOpen
<1>10. SessionMedia(req[h])'
  BY <1>1, <1>3, <1>4, <1>9 DEF Good, SessionMedia, Done, Attaching, InTable
<1>11. PinMedia(req[h])'
  BY <1>1, <1>2, <1>3, <1>5, <1>6, <1>7 DEF Good, PinMedia, Accurate
<1>12. QED
  BY <1>8, <1>10, <1>11 DEF Good

\* The media of the session go to the pin, which had none of them.
LEMMA AttachGood ==
  ASSUME TypeInv, NEW h \in Handler, Good(req[h]), AttachMedia(h)
  PROVE  Good(req[h])'
<1>1. req[h].pc \in {"attachNew", "attach"} /\ req[h].op = "finalize"
  BY DEF AttachMedia, Good, SessionMedia, Attaching
<1>2. PICK t \in Session : t = req[h].sess
  BY <1>1, TheRequest DEF SessionPCs
<1>3. PICK p \in Pin : p = req[h].pin
  BY <1>1, TheRequest DEF PinPCs
<1>4. PICK ids \in SUBSET Media : ids = req[h].ids
  BY TheRequest DEF Requests
<1>5. /\ ids = ListByUploadSession(t) /\ ids # {} /\ IsOpen(t) /\ Unattached(t)
      /\ ids \subseteq rows /\ rows \subseteq Media /\ pinOf \in [Media -> Pin \cup {NoPin}]
      /\ NoPin \notin Pin
  BY <1>1, <1>2, <1>4, NullAssumption
     DEF Good, SessionMedia, Attaching, Done, ListByUploadSession, TypeInv, MediaOK
<1>6. \A m \in ids : m \in rows /\ owner[m] = t /\ pinOf[m] = NoPin
  BY <1>5 DEF ListByUploadSession, Unattached
<1>7. UNCHANGED <<rows, owner, status, closed, pinRow, count>>
  BY DEF AttachMedia, sessVars, pinVars
<1>8. CASE pinRow[p] # "LIVE"
  <2>1. UNCHANGED pinOf /\ Finish(h)
    BY <1>3, <1>4, <1>5, <1>8 DEF AttachMedia
  <2>2. Still /\ req'[h].pc = "idle"
    BY <1>7, <2>1, FinishOnly DEF Still, InTable
  <2>3. SessionMedia(req[h])'
    BY <1>1, <2>2, StillSame DEF Good, SessionMedia, Done, Attaching
  <2>4. PinMedia(req[h])'
    BY <1>1, <1>3, <1>8, <2>2, StillSame DEF Good, PinMedia
  <2>5. QED
    BY <2>2, <2>3, <2>4, StillSame DEF Good
<1>9. CASE pinRow[p] = "LIVE"
  <2>1. pinOf' = [m \in Media |-> IF m \in ids THEN p ELSE pinOf[m]]
    BY <1>3, <1>4, <1>5, <1>9 DEF AttachMedia
  <2>2. PICK pc \in {"inc", "refresh", "confirm"} :
          Goto(h, pc) /\ (pc = "inc" <=> req[h].pc = "attach")
    BY <1>3, <1>9 DEF AttachMedia, At
  <2>3. /\ req'[h].pc = pc /\ req'[h].op = "finalize" /\ req'[h].sess = t
        /\ req'[h].pin = p /\ req'[h].ids = ids
    BY <1>1, <1>2, <1>3, <1>4, <2>2, GotoOnly
  <2>4. ListByPinID(p)' = ListByPinID(p) \cup ids /\ ListByPinID(p) \cap ids = {}
    BY <1>5, <1>6, <1>7, <2>1 DEF ListByPinID
  <2>5. \A q \in Pin \ {p} : ListByPinID(q)' = ListByPinID(q)
    BY <1>5, <1>6, <1>7, <2>1 DEF ListByPinID
  <2>6. \A s : ListByUploadSession(s)' = ListByUploadSession(s)
    BY <1>7 DEF ListByUploadSession
  <2>7. Orphans(t)' = {}
    BY <1>5, <1>7, <2>1 DEF Orphans, ListByUploadSession
  <2>8. \A s \in Session \ {t} : Orphans(s)' = Orphans(s) /\ (Unattached(s)' <=> Unattached(s))
    BY <1>5, <1>6, <1>7, <2>1 DEF Orphans, ListByUploadSession, Unattached
  <2>9. \A s \in Session : (InTable(s)' <=> InTable(s)) /\ (IsOpen(s)' <=> IsOpen(s))
    BY <1>7 DEF InTable, IsOpen
  <2>10. Keys'
    BY <1>5, <1>7, <1>9, <2>1 DEF Good, Keys, InTable
  <2>11. SessionMedia(req[h])'
    BY <1>1, <1>2, <1>7, <2>3, <2>6, <2>7, <2>8, <2>9 DEF Good, SessionMedia, Done, Attaching
  <2>12. Cardinality(ListByPinID(p)') = Cardinality(ListByPinID(p)) + Cardinality(ids)
    <3>1. IsFiniteSet(ListByPinID(p)) /\ IsFiniteSet(ids)
      BY <1>5, FiniteAssumption, FS_Subset DEF ListByPinID
    <3>2. Cardinality({}) = 0 /\ Cardinality(ListByPinID(p)) \in Nat /\ Cardinality(ids) \in Nat
      BY <3>1, FS_EmptySet, FS_CardinalityType
    <3>3. Cardinality(ListByPinID(p) \cup ids)
            = Cardinality(ListByPinID(p)) + Cardinality(ids) - Cardinality(ListByPinID(p) \cap ids)
      BY <3>1, FS_Union
    <3>4. Cardinality(ListByPinID(p) \cap ids) = 0
      BY <2>4, <3>2
    <3>5. Cardinality(ListByPinID(p)') = Cardinality(ListByPinID(p) \cup ids)
      BY <2>4
    <3>6. QED
      BY <3>2, <3>3, <3>4, <3>5
  <2>13. \/ pc = "inc" /\ count[p] = Cardinality(ListByPinID(p))
         \/ pc # "inc" /\ ListByPinID(p) = {} /\ count[p] = Cardinality(ids)
    BY <1>1, <1>3, <1>4, <1>9, <2>2 DEF Good, PinMedia, Accurate
  <2>14. /\ ListByPinID(p)' # {}
         /\ \/ pc = "inc" /\ count[p] + Cardinality(ids) = Cardinality(ListByPinID(p)')
            \/ pc # "inc" /\ count[p] = Cardinality(ListByPinID(p)')
    BY <1>5, <2>4, <2>12, <2>13
  <2>15. PinMedia(req[h])'
    BY <1>1, <1>3, <1>7, <2>3, <2>5, <2>14 DEF Good, PinMedia, Accurate
  <2>16. QED
    BY <2>10, <2>11, <2>15 DEF Good
<1>10. QED
  BY <1>8, <1>9

\* A write of the pins row touches no media.
LEMMA CountOnly ==
  ASSUME TypeInv, Keys, UNCHANGED <<rows, owner, pinOf, pinRow, status, closed>>
  PROVE  /\ Keys'
         /\ \A s \in Session : /\ InTable(s)' <=> InTable(s)
                               /\ IsOpen(s)' <=> IsOpen(s)
                               /\ Unattached(s)' <=> Unattached(s)
                               /\ Orphans(s)' = Orphans(s)
                               /\ ListByUploadSession(s)' = ListByUploadSession(s)
         /\ \A p \in Pin : ListByPinID(p)' = ListByPinID(p)
<1>1. Keys'
  BY DEF TypeInv, MediaOK, Keys, InTable
<1>2. QED
  BY <1>1 DEF InTable, IsOpen, Unattached, Orphans, ListByUploadSession, ListByPinID

\* The pin is counted.
LEMMA IncGood ==
  ASSUME TypeInv, NEW h \in Handler, Good(req[h]), IncMediaCount(h)
  PROVE  Good(req[h])'
<1>1. req[h].pc = "inc" /\ Goto(h, "refresh")
  BY DEF IncMediaCount, At
<1>2. PICK p \in Pin : p = req[h].pin
  BY <1>1, TheRequest DEF PinPCs
<1>3. /\ req'[h].pc = "refresh" /\ req'[h].op = req[h].op /\ req'[h].sess = req[h].sess
      /\ req'[h].pin = p
  BY <1>1, <1>2, GotoOnly
<1>4. UNCHANGED <<rows, owner, pinOf, pinRow, status, closed>>
  BY DEF IncMediaCount, sessVars, mediaVars
<1>5. count \in [Pin -> Nat]
  BY DEF TypeInv, PinsOK
<1>6. \A q \in Pin \ {p} : count'[q] = count[q]
  BY <1>2, <1>5 DEF IncMediaCount
<1>7. pinRow[p] = "LIVE" => count'[p] = Cardinality(ListByPinID(p))
  BY <1>1, <1>2, <1>5 DEF IncMediaCount, Attached, Good, PinMedia
<1>8. SessionMedia(req[h])'
  BY <1>1, <1>3, <1>4, CountOnly DEF Good, SessionMedia, Done, Attaching
<1>9. PinMedia(req[h])'
  BY <1>1, <1>2, <1>3, <1>4, <1>6, <1>7, CountOnly DEF Good, PinMedia, Accurate
<1>10. QED
  BY <1>4, <1>8, <1>9, CountOnly DEF Good

\* The row that is read holds the count ...
LEMMA ReadGood ==
  ASSUME TypeInv, NEW h \in Handler, Good(req[h]), ReadPin(h)
  PROVE  Good(req[h])'
<1>1. req[h].pc = "refresh"
  BY DEF ReadPin, At
<1>2. PICK p \in Pin : p = req[h].pin
  BY <1>1, TheRequest DEF PinPCs
<1>3. Still
  BY DEF ReadPin, Still, sessVars, mediaVars, pinVars, InTable
<1>4. \/ req[h].op # "finalize" /\ req'[h].pc = "idle"
      \/ req[h].op = "finalize" /\ Goto(h, "confirm")
      \/ req' = [req EXCEPT ![h].pc = "save", ![h].cnt = count[p]]
  BY <1>2, FinishOnly DEF ReadPin
<1>5. \/ req[h].op # "finalize" /\ req'[h].pc = "idle"
      \/ /\ req'[h].op = req[h].op /\ req'[h].sess = req[h].sess /\ req'[h].pin = p
         /\ \/ req[h].op = "finalize" /\ req'[h].pc = "confirm"
            \/ req'[h].pc = "save" /\ req'[h].cnt = count[p]
  <2>1. CASE req[h].op = "finalize" /\ Goto(h, "confirm")
    BY <1>2, <2>1, GotoOnly
  <2>2. CASE req' = [req EXCEPT ![h].pc = "save", ![h].cnt = count[p]]
    BY <1>2, <2>2, TheRequest DEF Requests
  <2>3. QED
    BY <1>4, <2>1, <2>2
<1>6. SessionMedia(req[h])'
  BY <1>1, <1>3, <1>5, StillSame DEF Good, SessionMedia, Done, Attaching
<1>7. PinMedia(req[h])'
  BY <1>1, <1>2, <1>3, <1>5, StillSame DEF Good, PinMedia
<1>8. QED
  BY <1>3, <1>6, <1>7, StillSame DEF Good

\* ... and it is written back unchanged.
LEMMA SaveGood ==
  ASSUME TypeInv, NEW h \in Handler, Good(req[h]), SavePin(h)
  PROVE  Good(req[h])'
<1>1. req[h].pc = "save"
  BY DEF SavePin, At
<1>2. PICK p \in Pin : p = req[h].pin
  BY <1>1, TheRequest DEF PinPCs
<1>3. UNCHANGED count
  BY <1>1, <1>2 DEF SavePin, SavedCount, Good, PinMedia, TypeInv, PinsOK
<1>4. Still
  BY <1>3 DEF SavePin, Still, sessVars, mediaVars, InTable
<1>5. \/ req[h].op # "finalize" /\ req'[h].pc = "idle"
      \/ /\ req[h].op = "finalize" /\ req'[h].pc = "confirm" /\ req'[h].op = req[h].op
         /\ req'[h].sess = req[h].sess /\ req'[h].pin = p
  <2>1. CASE req[h].op = "finalize"
    <3>1. Goto(h, "confirm")
      BY <2>1 DEF SavePin
    <3>2. QED
      BY <1>2, <2>1, <3>1, GotoOnly
  <2>2. CASE req[h].op # "finalize"
    BY <2>2, FinishOnly DEF SavePin
  <2>3. QED
    BY <2>1, <2>2
<1>6. SessionMedia(req[h])'
  BY <1>1, <1>4, <1>5, StillSame DEF Good, SessionMedia, Done, Attaching
<1>7. PinMedia(req[h])'
  BY <1>1, <1>2, <1>4, <1>5, StillSame DEF Good, PinMedia
<1>8. QED
  BY <1>4, <1>6, <1>7, StillSame DEF Good

\* A session is closed when all its media have a pin, or none is left.
LEMMA CloseGood ==
  ASSUME TypeInv, NEW h \in Handler, Good(req[h]), ConfirmSession(h) \/ CancelSession(h)
  PROVE  Good(req[h])'
<1>1. req[h].pc \in {"confirm", "cancel"} /\ req'[h].pc = "idle"
  BY FinishOnly DEF ConfirmSession, CancelSession, At
<1>2. PICK t \in Session : t = req[h].sess
  BY <1>1, TheRequest DEF SessionPCs
<1>3. Orphans(t) = {}
  BY <1>1, <1>2 DEF Good, SessionMedia, Done
<1>4. UNCHANGED <<rows, owner, pinOf, pinRow, count, status>>
  BY DEF ConfirmSession, CancelSession, mediaVars, pinVars
<1>5. closed \in [Session -> Reason \cup {"open"}]
  BY DEF TypeInv, SessionsOK
<1>6. PICK r \in Reason : CloseRow(t, r)
  BY <1>2 DEF ConfirmSession, CancelSession, Reason
<1>7. /\ ~IsOpen(t)'
      /\ \A s \in Session \ {t} : closed'[s] = closed[s]
  BY <1>4, <1>5, <1>6 DEF CloseRow, IsOpen, Reason
<1>8. \A s \in Session : (InTable(s)' <=> InTable(s)) /\ (s # t => (IsOpen(s)' <=> IsOpen(s)))
  BY <1>4, <1>7 DEF InTable, IsOpen
<1>9. \A s \in Session : Orphans(s)' = Orphans(s) /\ (Unattached(s)' <=> Unattached(s))
  BY <1>4 DEF Orphans, Unattached, ListByUploadSession
<1>10. \A q \in Pin : ListByPinID(q)' = ListByPinID(q)
  BY <1>4 DEF ListByPinID
<1>11. Keys'
  BY <1>4 DEF Good, Keys, InTable, TypeInv, MediaOK
<1>12. SessionMedia(req[h])'
  BY <1>1, <1>2, <1>3, <1>7, <1>8, <1>9 DEF Good, SessionMedia, Done, Attaching
<1>13. PinMedia(req[h])'
  BY <1>1, <1>4, <1>10 DEF Good, PinMedia, Accurate
<1>14. QED
  BY <1>11, <1>12, <1>13 DEF Good

\* What a cancel deletes has no pin.
LEMMA OrphansGood ==
  ASSUME TypeInv, NEW h \in Handler, Good(req[h]), DeleteOrphans(h)
  PROVE  Good(req[h])'
<1>1. req[h].pc = "orphans" /\ req'[h].pc = "cancel" /\ req'[h].sess = req[h].sess
  BY GotoOnly DEF DeleteOrphans, At
<1>2. PICK t \in Session : t = req[h].sess
  BY <1>1, TheRequest DEF SessionPCs
<1>3. rows' = rows \ Orphans(t) /\ UNCHANGED count /\ Fewer
  BY <1>2 DEF DeleteOrphans, Fewer, sessVars, pinVars
<1>4. Orphans(t)' = {}
  BY <1>3 DEF Orphans, Fewer
<1>5. \A m \in rows \ rows' : pinOf[m] = NoPin
  BY <1>3 DEF Orphans
<1>6. \A p \in Pin : ListByPinID(p)' = ListByPinID(p)
  BY <1>3, <1>5, FewerRows DEF Good
<1>7. SessionMedia(req[h])'
  BY <1>1, <1>2, <1>3, <1>4, FewerRows DEF Good, SessionMedia, Done, Attaching, Fewer
<1>8. PinMedia(req[h])'
  BY <1>1, <1>3, <1>6 DEF Good, PinMedia, Accurate, Fewer
<1>9. QED
  BY <1>3, <1>7, <1>8, FewerRows DEF Good

\* One media goes, another one stays.
LEMMA DeleteRowGood ==
  ASSUME TypeInv, NEW h \in Handler, Good(req[h]), DeleteMediaRow(h)
  PROVE  Good(req[h])'
<1>1. /\ req[h].pc = "deleteRow" /\ req'[h].pc = "dec" /\ req'[h].op = req[h].op
      /\ req'[h].pin = req[h].pin /\ req'[h].sess = req[h].sess
  BY GotoOnly DEF DeleteMediaRow, At
<1>2. PICK p \in Pin : p = req[h].pin
  BY <1>1, TheRequest DEF PinPCs
<1>3. /\ pinRow[p] = "LIVE" /\ Accurate(p) /\ req[h].op # "finalize"
      /\ \E m, x \in ListByPinID(p) : m # x /\ req[h].ids = {m}
  BY <1>1, <1>2 DEF Good, PinMedia, SessionMedia
<1>4. PICK m \in ListByPinID(p) : req[h].ids = {m} /\ \E x \in ListByPinID(p) : m # x
  BY <1>3
<1>5. rows' = rows \ {m} /\ UNCHANGED count /\ Fewer
  BY <1>4 DEF DeleteMediaRow, Fewer, sessVars, pinVars
<1>6. ListByPinID(p)' = ListByPinID(p) \ {m} /\ ListByPinID(p)' # {}
  BY <1>4, <1>5 DEF ListByPinID, Fewer
<1>7. \A q \in Pin \ {p} : ListByPinID(q)' = ListByPinID(q)
  BY <1>4, <1>5 DEF ListByPinID, Fewer
<1>8. Cardinality(ListByPinID(p)) = Cardinality(ListByPinID(p)') + 1
  <2>1. IsFiniteSet(ListByPinID(p))
    BY FiniteAssumption, FS_Subset DEF ListByPinID, TypeInv, MediaOK
  <2>2. /\ Cardinality(ListByPinID(p)) \in Nat
        /\ Cardinality(ListByPinID(p) \ {m}) = Cardinality(ListByPinID(p)) - 1
    BY <1>4, <2>1, FS_RemoveElement, FS_CardinalityType
  <2>3. QED
    BY <1>6, <2>2
<1>9. SessionMedia(req[h])'
  BY <1>1, <1>3, <1>5, FewerRows DEF Good, SessionMedia, Done, Attaching, Fewer
<1>10. PinMedia(req[h])'
  BY <1>1, <1>2, <1>3, <1>5, <1>6, <1>7, <1>8 DEF Good, PinMedia, Accurate, Fewer
<1>11. QED
  BY <1>5, <1>9, <1>10, FewerRows DEF Good

\* The count follows.
LEMMA DecGood ==
  ASSUME TypeInv, NEW h \in Handler, Good(req[h]), DecMediaCount(h)
  PROVE  Good(req[h])'
<1>1. /\ req[h].pc = "dec" /\ req'[h].pc = "refresh" /\ req'[h].op = req[h].op
      /\ req'[h].sess = req[h].sess /\ req'[h].pin = req[h].pin
  BY GotoOnly DEF DecMediaCount, At
<1>2. PICK p \in Pin : p = req[h].pin
  BY <1>1, TheRequest DEF PinPCs
<1>3. UNCHANGED <<rows, owner, pinOf, pinRow, status, closed>>
  BY DEF DecMediaCount, sessVars, mediaVars
<1>4. count \in [Pin -> Nat] /\ Cardinality(ListByPinID(p)) \in Nat
  BY MediaCardinality, ListsAreMedia DEF TypeInv, PinsOK
<1>5. \A q \in Pin \ {p} : count'[q] = count[q]
  BY <1>2, <1>4 DEF DecMediaCount
<1>6. count[p] = Cardinality(ListByPinID(p)) + 1 /\ req[h].op # "finalize"
  BY <1>1, <1>2 DEF Good, PinMedia, SessionMedia
<1>7. pinRow[p] = "LIVE" => count'[p] = Cardinality(ListByPinID(p))
  BY <1>2, <1>4, <1>6 DEF DecMediaCount, Decremented
<1>8. SessionMedia(req[h])'
  BY <1>1, <1>3, <1>6, CountOnly DEF Good, SessionMedia, Done, Attaching
<1>9. PinMedia(req[h])'
  BY <1>1, <1>2, <1>3, <1>5, <1>7, CountOnly DEF Good, PinMedia, Accurate
<1>10. QED
  BY <1>3, <1>8, <1>9, CountOnly DEF Good

\* A pin that is deleted loses its media first, ...
LEMMA DeleteMediaGood ==
  ASSUME TypeInv, NEW h \in Handler, Good(req[h]), DeletePinMedia(h)
  PROVE  Good(req[h])'
<1>1. req[h].pc = "deleteMedia" /\ req'[h].pc = "deletePin" /\ req'[h].pin = req[h].pin
  BY GotoOnly DEF DeletePinMedia, At
<1>2. PICK p \in Pin : p = req[h].pin
  BY <1>1, TheRequest DEF PinPCs
<1>3. rows' = rows \ ListByPinID(p) /\ UNCHANGED count /\ Fewer
  BY <1>2 DEF DeletePinMedia, Fewer, sessVars, pinVars
<1>4. ListByPinID(p)' = {} /\ \A q \in Pin \ {p} : ListByPinID(q)' = ListByPinID(q)
  BY <1>3 DEF ListByPinID, Fewer
<1>5. SessionMedia(req[h])'
  BY <1>1, <1>3, FewerRows DEF Good, SessionMedia, Done, Attaching, Fewer
<1>6. PinMedia(req[h])'
  BY <1>1, <1>2, <1>3, <1>4 DEF Good, PinMedia, Accurate, Fewer
<1>7. QED
  BY <1>3, <1>5, <1>6, FewerRows DEF Good

\* ... and then its row, with the sessions that had it as their target.
LEMMA DeletePinGood ==
  ASSUME TypeInv, NEW h \in Handler, Good(req[h]), DeletePinRow(h)
  PROVE  Good(req[h])'
<1>1. req[h].pc = "deletePin" /\ req'[h].pc = "idle"
  BY FinishOnly DEF DeletePinRow, At
<1>2. PICK p \in Pin : p = req[h].pin
  BY <1>1, TheRequest DEF PinPCs
<1>3. ListByPinID(p) = {}
  BY <1>1, <1>2 DEF Good, PinMedia
<1>4. UNCHANGED <<rows, closed, count>>
  BY DEF DeletePinRow
<1>5. CASE pinRow[p] # "LIVE"
  <2>1. Still
    BY <1>2, <1>4, <1>5 DEF DeletePinRow, Still, InTable
  <2>2. SessionMedia(req[h])'
    BY <1>1, <2>1, StillSame DEF Good, SessionMedia, Done, Attaching
  <2>3. PinMedia(req[h])'
    BY <1>1, <1>2, <1>5, <2>1, StillSame DEF Good, PinMedia
  <2>4. QED
    BY <2>1, <2>2, <2>3, StillSame DEF Good
<1>6. CASE pinRow[p] = "LIVE"
  <2> DEFINE S == {s \in Session : status[s] \in Row /\ target[s] = p}
  <2>1. /\ pinRow' = [pinRow EXCEPT ![p] = "DELETED"]
        /\ pinOf' = [m \in Media |-> IF pinOf[m] = p THEN NoPin ELSE pinOf[m]]
        /\ DeleteSessions(S)
    BY <1>2, <1>6 DEF DeletePinRow
  <2>2. PICK D \in SUBSET Session : D = S
    OBVIOUS
  <2>3. /\ status' = [s \in Session |-> IF s \in D THEN "DELETED" ELSE status[s]]
        /\ owner' = [m \in Media |-> IF owner[m] \in D THEN NoSession ELSE owner[m]]
    BY <2>1, <2>2 DEF DeleteSessions
  <2>4. /\ rows \subseteq Media /\ owner \in [Media -> Session \cup {NoSession}]
        /\ pinOf \in [Media -> Pin \cup {NoPin}] /\ NoSession \notin Session /\ NoPin \notin Pin
        /\ pinRow \in [Pin -> {"UNUSED", "LIVE", "DELETED"}]
    BY NullAssumption DEF TypeInv, MediaOK, PinsOK
  <2>5. \A m \in rows : pinOf'[m] = pinOf[m]
    BY <1>3, <2>1, <2>4 DEF ListByPinID
  <2>6. \A q : ListByPinID(q)' = ListByPinID(q)
    BY <1>4, <2>5 DEF ListByPinID
  <2>7. \A s \in D : ~InTable(s)' /\ ~IsOpen(s)'
    BY <2>3 DEF InTable, IsOpen, Row
  <2>8. \A s \in Session \ D : /\ InTable(s)' <=> InTable(s)
                               /\ IsOpen(s)' <=> IsOpen(s)
    BY <1>4, <2>3 DEF InTable, IsOpen
  <2>9. \A s \in Session \ D : ListByUploadSession(s)' = ListByUploadSession(s)
    BY <1>4, <2>3, <2>4 DEF ListByUploadSession
  <2>10. \A s \in Session \ D : Orphans(s)' = Orphans(s) /\ (Unattached(s)' <=> Unattached(s))
    <3>1. \A s \in Session \ D : Orphans(s)' = Orphans(s)
      BY <1>4, <2>3, <2>4, <2>5 DEF Orphans
    <3>2. \A s \in Session \ D : Unattached(s)' <=> Unattached(s)
      BY <2>5, <2>9 DEF Unattached, ListByUploadSession
    <3>3. QED
      BY <3>1, <3>2
  <2>11. Keys'
    <3>1. \A m \in rows : owner'[m] # NoSession => InTable(owner[m])'
      BY <2>3, <2>4, <2>8 DEF Good, Keys
    <3>2. \A m \in rows : pinOf[m] # NoPin => pinRow'[pinOf[m]] = "LIVE"
      BY <1>3, <2>1, <2>4 DEF Good, Keys, ListByPinID
    <3>3. QED
      BY <1>4, <2>3, <2>4, <2>5, <3>1, <3>2 DEF Keys, InTable
  <2>12. SessionMedia(req[h])'
    BY <1>1, <1>4, <2>2, <2>7, <2>8, <2>10 DEF Good, SessionMedia, Done, Attaching
  <2>13. PinMedia(req[h])'
    BY <1>1, <1>2, <1>4, <2>1, <2>4, <2>6 DEF Good, PinMedia, Accurate
  <2>14. QED
    BY <2>11, <2>12, <2>13 DEF Good
<1>7. QED
  BY <1>5, <1>6

\* Every step of a handler.
LEMMA HandlerGood ==
  ASSUME TypeInv, NEW h \in Handler, Good(req[h]), HandlerStep(h)
  PROVE  Good(req[h])'
BY CreateGood, SessionGood, InsertGood, SelectGood, CreatePinGood, AttachGood, IncGood, ReadGood,
   SaveGood, CloseGood, OrphansGood, DeleteRowGood, DecGood, DeleteMediaGood, DeletePinGood
   DEF HandlerStep

------------------------------------------------------------------------------
(* The steps in the background                                              *)

\* The consumers find nothing to deduplicate and, like the ML results, move a
\* session between the states of its row; no cron runs and nothing fails.
LEMMA BackgroundStill ==
  ASSUME Serial, TypeInv, cron.pc = "idle", [Next]_vars,
         ~ \E h \in Handler : Request(h) \/ HandlerStep(h)
  PROVE  Still /\ UNCHANGED <<req, cron>>
<1>1. /\ status \in [Session -> Status] /\ faults \in 0..0 /\ "cleanup" \notin Ops
      /\ MaxFaults = 0
  BY DEF Serial, TypeInv, SessionsOK, EnvOK
<1>2. ASSUME NEW w \in Worker, WorkerStep(w)
      PROVE  Still /\ UNCHANGED <<req, cron>>
  <2>1. UNCHANGED <<rows, owner, pinOf, pinRow, count, closed, req, cron>>
    BY <1>2, NoDuplicates DEF WorkerStep, ReadTasks, DedupMedia, SaveSnapshot, SetReady, Announce,
       sessVars, mediaVars, pinVars
  <2>2. UNCHANGED status \/ SetReady(w)
    BY <1>2 DEF WorkerStep, ReadTasks, DedupMedia, SaveSnapshot, Announce, sessVars
  <2>3. \A s \in Session : InTable(s)' <=> InTable(s)
    BY <1>1, <2>2 DEF SetReady, CanSetStatus, InTable, Row
  <2>4. QED
    BY <2>1, <2>3 DEF Still
<1>3. CASE ResultStep
  <2>1. UNCHANGED <<rows, owner, pinOf, pinRow, count, closed, req, cron>>
    BY <1>3 DEF ResultStep, DeliverResult, MergeResult, AckResult, sessVars, mediaVars, pinVars
  <2>2. UNCHANGED status \/ AckResult
    BY <1>3 DEF ResultStep, DeliverResult, MergeResult, sessVars
  <2>3. \A s \in Session : InTable(s)' <=> InTable(s)
    BY <1>1, <2>2 DEF AckResult, CanSetStatus, InTable, Row
  <2>4. QED
    BY <2>1, <2>3 DEF Still
<1>4. ~CleanupStep
  BY <1>1 DEF CleanupStep, ListAbandoned, CleanOrphans, CloseAbandoned
<1>5. ~Fault
  BY <1>1 DEF Fault, HandlerFails, WorkerError, WorkerDrops, WorkerCrash
<1>6. CASE Environment \/ UNCHANGED vars
  BY <1>1, <1>6 DEF Environment, SeventyTwoHours, DeleteClosed, TripStatusChanges, Still, InTable,
     vars, sessVars, mediaVars, pinVars, backVars
<1>7. QED
  BY <1>2, <1>3, <1>4, <1>5, <1>6 DEF Next

\* Every step keeps the invariant.
LEMMA SerialNext ==
  ASSUME Serial, SerialInv, [Next]_vars
  PROVE  SerialInv'
<1>1. TypeInv /\ TypeInv' /\ cron.pc = "idle"
  BY StepTypeInv DEF SerialInv
<1>2. PICK h \in Handler : Handler = {h}
  BY DEF Serial, OneAtATime
<1>3. Good(req[h])
  BY <1>2 DEF SerialInv
<1>4. CASE Request(h) \/ HandlerStep(h)
  <2>1. UNCHANGED cron
    <3>1. CASE Request(h)
      BY <3>1 DEF Request, PinUploadStart, RequestPinUploadUrls, CommitPinUpload,
         ProcessPinUpload, FinalizePinUpload, CancelPinUpload, UpdatePin, DeletePin,
         RemoveMediaFromPin, backVars
    <3>2. CASE HandlerStep(h)
      BY <3>2 DEF HandlerStep, CreateSession, TouchSession, LockAndCount, InsertMedia,
         ClaimProcessing, AddPinUploadTask, SelectMedia, CreatePin, AttachMedia, IncMediaCount,
         ReadPin, SavePin, ConfirmSession, DeleteOrphans, CancelSession, DeleteMediaRow,
         DecMediaCount, DeletePinMedia, DeletePinRow, backVars
    <3>3. QED
      BY <1>4, <3>1, <3>2
  <2>2. Good(req[h])'
    BY <1>1, <1>3, <1>4, RequestGood, HandlerGood
  <2>3. QED
    BY <1>1, <1>2, <2>1, <2>2 DEF SerialInv
<1>5. CASE ~(Request(h) \/ HandlerStep(h))
  <2>1. Still /\ UNCHANGED <<req, cron>>
    BY <1>1, <1>2, <1>5, BackgroundStill
  <2>2. Good(req[h])'
    BY <1>1, <1>3, <2>1, StillGood
  <2>3. QED
    BY <1>1, <1>2, <2>1, <2>2 DEF SerialInv
<1>6. QED
  BY <1>4, <1>5

\* A trip starts without sessions, with at most one pin, which has its media.
LEMMA SerialInit ==
  ASSUME Init
  PROVE  SerialInv
<1>1. TypeInv /\ cron.pc = "idle"
  BY InitType DEF Init, NoPass
<1>2. /\ \A s \in Session : ~InTable(s) /\ ~IsOpen(s)
      /\ \A m \in Media : owner[m] = NoSession
      /\ rows = SeedMedia /\ SeedMedia \subseteq Media
  BY SeedAssumption DEF Init, InTable, IsOpen, Row
<1>3. Keys
  <2>1. \A m \in rows : pinOf[m] = SeedPin /\ (SeedPin # NoPin => pinRow[SeedPin] = "LIVE")
    BY <1>2, SeedAssumption DEF Init
  <2>2. QED
    BY <1>2, <2>1 DEF Keys
<1>4. ASSUME NEW h \in Handler
      PROVE  Good(req[h])
  <2>1. req[h].pc = "idle"
    BY DEF Init, NoRequest
  <2>2. SessionMedia(req[h])
    BY <1>2, <2>1 DEF SessionMedia, Done, Attaching
  <2>3. ASSUME NEW p \in Pin, pinRow[p] = "LIVE"
        PROVE  ListByPinID(p) # {} /\ Accurate(p)
    <3>1. p = SeedPin /\ SeedMedia # {}
      BY <2>3, SeedAssumption, NullAssumption DEF Init
    <3>2. ListByPinID(p) = SeedMedia
      BY <1>2, <3>1 DEF Init, ListByPinID
    <3>3. count[p] = Cardinality(SeedMedia)
      BY <3>1 DEF Init
    <3>4. QED
      BY <3>1, <3>2, <3>3 DEF Accurate
  <2>4. PinMedia(req[h])
    BY <2>1, <2>3 DEF PinMedia
  <2>5. QED
    BY <1>3, <2>2, <2>4 DEF Good
<1>5. QED
  BY <1>1, <1>4 DEF SerialInv

\* What holds between the requests, and around the one at work.
LEMMA SerialInvariant ==
  ASSUME Serial
  PROVE  Spec => []SerialInv
<1>1. SerialInv /\ [Next]_vars => SerialInv'
  BY SerialNext
<1>2. QED
  BY <1>1, SerialInit, PTL DEF Spec

------------------------------------------------------------------------------
(* The properties                                                           *)

\* A pin has a media: finalize creates it with some, RemoveMediaFromPin refuses
\* the last one, and the cleanup of a cancel takes none of them.
THEOREM PinsHaveMedia ==
  ASSUME Serial
  PROVE  Spec => []NoEmptyPin
<1>1. SerialInv => NoEmptyPin
  <2> SUFFICES ASSUME SerialInv, NEW p \in Pin, pinRow[p] = "LIVE", ~Building(p)
               PROVE  ListByPinID(p) # {}
    BY DEF NoEmptyPin
  <2>1. PICK h \in Handler : Good(req[h])
    BY DEF Serial, OneAtATime, SerialInv
  <2>2. QED
    BY <2>1 DEF Good, PinMedia, Building
<1>2. QED
  BY <1>1, SerialInvariant, PTL

\* media_count, which the handlers keep by increments, by decrements and by writing
\* back what they read, is the number of the pin's media.
THEOREM CountsAreRight ==
  ASSUME Serial
  PROVE  Spec => []CountAccurate
<1>1. SerialInv => CountAccurate
  <2> SUFFICES ASSUME SerialInv, NEW p \in Pin, pinRow[p] = "LIVE",
                      \A h \in Handler : req[h].pin # p
               PROVE  count[p] = Cardinality(ListByPinID(p))
    BY DEF CountAccurate
  <2>1. PICK h \in Handler : Good(req[h])
    BY DEF Serial, OneAtATime, SerialInv
  <2>2. QED
    BY <2>1 DEF Good, PinMedia, Accurate
<1>2. QED
  BY <1>1, SerialInvariant, PTL

\* A finalize attaches or deletes all media of its session, a cancel deletes them,
\* and nothing is committed to a closed session.
THEOREM ClosedIsClean ==
  ASSUME Serial
  PROVE  Spec => []ClosedHasNoOrphans
<1>1. SerialInv => ClosedHasNoOrphans
  <2> SUFFICES ASSUME SerialInv, NEW s \in Session, status[s] \in Row, closed[s] # "open"
               PROVE  Orphans(s) = {}
    BY DEF ClosedHasNoOrphans
  <2>1. PICK h \in Handler : Good(req[h])
    BY DEF Serial, OneAtATime, SerialInv
  <2>2. QED
    BY <2>1 DEF Good, SessionMedia, InTable
<1>2. QED
  BY <1>1, SerialInvariant, PTL
=============================================================================
