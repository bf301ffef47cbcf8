-------------------------- MODULE TripAccessProofs --------------------------
(***************************************************************************)
(* What TripAccess guarantees for every number of users, photos, requests  *)
(* in flight and failures.                                                 *)
(***************************************************************************)
EXTENDS TripAccess, FiniteSetTheorems, TLAPS

------------------------------------------------------------------------------
(* Requests keep their type                                                 *)

\* A request knows who sent it, and one about to store a choice has one.
Armed(r) == /\ r.pc # "idle" => r.by \in User
            /\ r.pc = "entry" => r.lvl \in Choice
RequestsOK == /\ req \in [Handler -> RequestType]
              /\ \A h \in Handler : Armed(req[h])

\* TypeOK with what the next step of a request and of the worker relies on.
TypeInv == /\ TypeOK /\ RequestsOK
           /\ wk # NoWork => wk.lvl \in Level

LEMMA NoRequestType == NoRequest \in RequestType /\ Armed(NoRequest)
BY DEF NoRequest, RequestType, Armed, Pcs, Object, Level, Choice

\* A request that ends leaves an idle slot.
LEMMA FinishType == ASSUME RequestsOK, NEW h \in Handler, Finish(h)
                    PROVE  RequestsOK'
BY NoRequestType DEF RequestsOK, Finish

\* A request goes on to another statement of its handler.
LEMMA GotoType ==
  ASSUME RequestsOK, NEW h \in Handler, ~Idle(h), NEW pc \in Pcs \ {"entry"}, Goto(h, pc)
  PROVE  RequestsOK'
BY DEF RequestsOK, Goto, RequestType, Armed, Idle

\* A request of a user enters a handler.
LEMMA BeginType ==
  ASSUME RequestsOK, NEW h \in Handler, NEW r \in RequestType, Armed(r),
         req' = [req EXCEPT ![h] = r]
  PROVE  RequestsOK'
BY DEF RequestsOK

\* Fields of a request filled in, one or two at a time.
LEMMA PcType ==
  ASSUME NEW r \in RequestType, NEW pc \in Pcs
  PROVE  LET s == [r EXCEPT !.pc = pc] IN s \in RequestType /\ s.pc = pc /\ s.by = r.by
BY DEF RequestType

LEMMA FieldTypes ==
  ASSUME NEW r \in RequestType
  PROVE  /\ \A l \in Level : LET s == [r EXCEPT !.lvl = l] IN s \in RequestType /\ s.by = r.by
         /\ \A t \in User : LET s == [r EXCEPT !.who = t]
                             IN  s \in RequestType /\ s.by = r.by /\ s.pc = r.pc
BY DEF RequestType

LEMMA ChosenLevelType ==
  ASSUME NEW r \in RequestType, r.by \in User, NEW l \in Level, NEW pc \in {"set", "event"}
  PROVE  LET s == [r EXCEPT !.lvl = l, !.pc = pc] IN s \in RequestType /\ Armed(s)
<1> DEFINE a == [r EXCEPT !.lvl = l]
           s == [a EXCEPT !.pc = pc]
<1>1. a \in RequestType /\ a.by \in User
  BY FieldTypes
<1> HIDE DEF a
<1>2. pc \in Pcs
  BY DEF Pcs
<1>3. s \in RequestType /\ s.by \in User /\ s.pc = pc
  BY <1>1, <1>2, PcType
<1> HIDE DEF s
<1>4. Armed(s)
  BY <1>3 DEF Armed
<1>5. QED
  BY <1>3, <1>4 DEF s, a

LEMMA SuccessorType ==
  ASSUME NEW r \in RequestType, r.by \in User, NEW t \in User
  PROVE  LET s == [r EXCEPT !.pc = "clearAdmin", !.who = t] IN s \in RequestType /\ Armed(s)
<1> DEFINE a == [r EXCEPT !.pc = "clearAdmin"]
           s == [a EXCEPT !.who = t]
<1>1. a \in RequestType /\ a.by \in User /\ a.pc = "clearAdmin"
  BY PcType DEF Pcs
<1> HIDE DEF a
<1>2. s \in RequestType /\ s.by \in User /\ s.pc = "clearAdmin"
  BY <1>1, FieldTypes
<1> HIDE DEF s
<1>3. Armed(s)
  BY <1>2 DEF Armed
<1>4. QED
  BY <1>2, <1>3 DEF s, a

LEMMA LevelOfAggregate ==
  ASSUME NEW current \in Level, NEW choice
  PROVE  Aggregate(current, choice) \in Level
BY DEF Aggregate, Level, Choice

------------------------------------------------------------------------------
(* Every step keeps the types                                               *)

\* Clients' calls only fill the slot of the request.
LEMMA RequestKeeps ==
  ASSUME NEW h \in Handler, Request(h)
  PROVE  UNCHANGED <<trip, peopleVars, privacyVars, published, fav, workVars, faults>>
<1>1. ASSUME NEW u \in User,
             \/ CreateTrip(h, u) \/ JoinTripByToken(h, u)
             \/ UpdateTrip(h, u) \/ PublishTrip(h, u)
             \/ AddToFavourites(h, u) \/ DeleteTrip(h, u) \/ LeaveTrip(h, u)
      PROVE  UNCHANGED <<trip, peopleVars, privacyVars, published, fav, workVars, faults>>
  BY <1>1 DEF CreateTrip, JoinTripByToken, UpdateTrip, PublishTrip, ReadRow,
              AddToFavourites, DeleteTrip, LeaveTrip
<1>2. ASSUME NEW u \in User, NEW o \in Object, NEW l \in Choice, UpsertPrivacy(h, u, o, l)
      PROVE  UNCHANGED <<trip, peopleVars, privacyVars, published, fav, workVars, faults>>
  BY <1>2 DEF UpsertPrivacy
<1>3. ASSUME NEW u \in User, NEW t \in User, RemoveParticipant(h, u, t) \/ TransferAdmin(h, u, t)
      PROVE  UNCHANGED <<trip, peopleVars, privacyVars, published, fav, workVars, faults>>
  BY <1>3 DEF RemoveParticipant, TransferAdmin
<1>4. QED
  BY <1>1, <1>2, <1>3 DEF Request

\* What a call puts in the slot is a request of its kind, about an object.
LEMMA RequestFills ==
  ASSUME TypeInv, NEW h \in Handler, Request(h)
  PROVE  /\ Idle(h)
         /\ \E r \in RequestType :
              /\ req' = [req EXCEPT ![h] = r] /\ Armed(r)
              /\ \/ r.op = "create" /\ r.pc = "insertTrip" /\ trip = "UNUSED"
                 \/ r.op = "join" /\ r.pc = "addMember" /\ r.obj = Trip /\ Exists
                 \/ r.op = "privacy" /\ r.pc = "entry" /\ Exists
                 \/ r.op \in {"update", "publish"} \cap Ops /\ r.pc = "writeRow"  /\ Exists
                 \/ r.op = "save" /\ r.pc = "addFavourite" /\ Exists
                 \/ /\ r.op \in {"delete", "leave", "remove", "transfer"}
                    /\ r.pc \in {"removeAll", "removeSelf", "removeOther", "clearAdmin"}
                    /\ member \cup admin # {}
<1> USE NoRequestType DEF TypeInv, TypeOK
<1> DEFINE Good(r) ==
       \/ r.op = "create" /\ r.pc = "insertTrip" /\ trip = "UNUSED"
       \/ r.op = "join" /\ r.pc = "addMember" /\ r.obj = Trip /\ Exists
       \/ r.op = "privacy" /\ r.pc = "entry" /\ Exists
       \/ r.op \in {"update", "publish"} \cap Ops /\ r.pc = "writeRow"  /\ Exists
       \/ r.op = "save" /\ r.pc = "addFavourite" /\ Exists
       \/ /\ r.op \in {"delete", "leave", "remove", "transfer"}
          /\ r.pc \in {"removeAll", "removeSelf", "removeOther", "clearAdmin"}
          /\ member \cup admin # {}
     Filled == /\ Idle(h)
               /\ \E r \in RequestType : req' = [req EXCEPT ![h] = r] /\ Armed(r) /\ Good(r)
<1>1. ASSUME NEW r \in RequestType, Idle(h), req' = [req EXCEPT ![h] = r], Armed(r), Good(r)
      PROVE  Filled
  BY <1>1
<1> HIDE DEF Filled
<1>2. ASSUME NEW u \in User, CreateTrip(h, u)
      PROVE  Filled
  <2> DEFINE r == [NoRequest EXCEPT !.op = "create", !.pc = "insertTrip", !.by = u]
  <2>1. r \in RequestType /\ Armed(r) /\ Good(r)
    BY <1>2 DEF CreateTrip, RequestType, Armed, Pcs, NoRequest
  <2>2. QED
    BY <1>1, <1>2, <2>1 DEF CreateTrip, Begin
<1>3. ASSUME NEW u \in User, JoinTripByToken(h, u)
      PROVE  Filled
  <2> DEFINE r == [NoRequest EXCEPT !.op = "join", !.pc = "addMember", !.by = u]
  <2>1. r \in RequestType /\ Armed(r) /\ Good(r)
    BY <1>3 DEF JoinTripByToken, RequestType, Armed, Pcs, NoRequest
  <2>2. QED
    BY <1>1, <1>3, <2>1 DEF JoinTripByToken, Begin
<1>4. ASSUME NEW u \in User, NEW o \in Object, NEW l \in Choice, UpsertPrivacy(h, u, o, l)
      PROVE  Filled
  <2> DEFINE r == [NoRequest EXCEPT !.op = "privacy", !.pc = "entry", !.by = u, !.obj = o, !.lvl = l]
  <2>1. r \in RequestType /\ Armed(r) /\ Good(r)
    BY <1>4 DEF UpsertPrivacy, RequestType, Armed, Pcs, NoRequest, Level
  <2>2. QED
    BY <1>1, <1>4, <2>1 DEF UpsertPrivacy
<1>5. ASSUME NEW u \in User, NEW op \in {"update", "publish"}, NEW flag \in BOOLEAN, ReadRow(h, op, u, flag)
      PROVE  Filled
  <2> DEFINE r == [NoRequest EXCEPT !.op = op, !.pc = "writeRow", !.by = u,
                                    !.lvl = level[Trip], !.flag = flag]
  <2>1. level[Trip] \in Level
    BY DEF Object
  <2>2. r \in RequestType /\ Armed(r) /\ Good(r)
    BY <1>5, <2>1 DEF ReadRow, RequestType, Armed, Pcs, NoRequest
  <2>3. QED
    BY <1>1, <1>5, <2>2 DEF ReadRow
<1>7. ASSUME NEW u \in User, AddToFavourites(h, u)
      PROVE  Filled
  <2> DEFINE r == [NoRequest EXCEPT !.op = "save", !.pc = "addFavourite", !.by = u]
  <2>1. r \in RequestType /\ Armed(r) /\ Good(r)
    BY <1>7 DEF AddToFavourites, RequestType, Armed, Pcs, NoRequest
  <2>2. QED
    BY <1>1, <1>7, <2>1 DEF AddToFavourites, Begin
<1>8. ASSUME NEW u \in User, DeleteTrip(h, u)
      PROVE  Filled
  <2> DEFINE r == [NoRequest EXCEPT !.op = "delete",
                     !.pc = IF SavedByOthers(u) THEN "removeAll" ELSE "removeSelf", !.by = u]
  <2>1. r \in RequestType /\ Armed(r) /\ Good(r)
    BY <1>8 DEF DeleteTrip, RequestType, Armed, Pcs, NoRequest
  <2>2. QED
    BY <1>1, <1>8, <2>1 DEF DeleteTrip, Begin
<1>9. ASSUME NEW u \in User, LeaveTrip(h, u)
      PROVE  Filled
  <2> DEFINE r(b) == [NoRequest EXCEPT !.op = "leave", !.pc = "removeSelf", !.by = u, !.flag = b]
  <2>1. ASSUME NEW b \in BOOLEAN
        PROVE  r(b) \in RequestType /\ Armed(r(b)) /\ Good(r(b))
    BY <1>9 DEF LeaveTrip, RequestType, Armed, Pcs, NoRequest
  <2> HIDE DEF Good
  <2>2. (u \in admin) \in BOOLEAN
    OBVIOUS
  <2>3. r(u \in admin) \in RequestType /\ Armed(r(u \in admin)) /\ Good(r(u \in admin))
    BY <2>1, <2>2, Zenon
  <2>4. /\ Idle(h)
        /\ req' = [req EXCEPT ![h] = r(u \in admin)]
    BY <1>9 DEF LeaveTrip
  <2> HIDE DEF r
  <2>5. QED
    BY <1>1, <2>3, <2>4, Zenon
<1>10. ASSUME NEW u \in User, NEW t \in User, RemoveParticipant(h, u, t)
       PROVE  Filled
  <2> DEFINE r == [NoRequest EXCEPT !.op = "remove", !.pc = "removeOther", !.by = u, !.who = t]
  <2>1. r \in RequestType /\ Armed(r) /\ Good(r)
    BY <1>10 DEF RemoveParticipant, RequestType, Armed, Pcs, NoRequest
  <2>2. QED
    BY <1>1, <1>10, <2>1 DEF RemoveParticipant, BeginAbout
<1>11. ASSUME NEW u \in User, NEW t \in User, TransferAdmin(h, u, t)
       PROVE  Filled
  <2> DEFINE r == [NoRequest EXCEPT !.op = "transfer", !.pc = "clearAdmin", !.by = u, !.who = t]
  <2>1. r \in RequestType /\ Armed(r) /\ Good(r)
    BY <1>11 DEF TransferAdmin, RequestType, Armed, Pcs, NoRequest
  <2>2. QED
    BY <1>1, <1>11, <2>1 DEF TransferAdmin, BeginAbout
<1>13. ASSUME NEW u \in User, UpdateTrip(h, u) \/ PublishTrip(h, u)
       PROVE  Filled
  BY <1>5, <1>13 DEF UpdateTrip, PublishTrip
<1>14. QED
  BY <1>2, <1>3, <1>4, <1>7, <1>8, <1>9, <1>10, <1>11, <1>13 DEF Request, Filled

\* The variables of TypeInv other than the requests.
RowsOK == /\ trip \in {"UNUSED", "LIVE", "SOFT", "GONE"}
          /\ member \subseteq User /\ admin \subseteq member /\ invited \in BOOLEAN
          /\ entry \in [Object -> [User -> Choice \cup {"none"}]]
          /\ level \in [Object -> Level]
          /\ published \in BOOLEAN
          /\ fav \subseteq User
          /\ events \in Seq(Object) /\ wk \in [obj : Object, lvl : Level \cup {"none"}]
          /\ wk # NoWork => wk.lvl \in Level
          /\ faults \in 0..MaxFaults

LEMMA TypeInvParts == TypeInv <=> RowsOK /\ RequestsOK
BY DEF TypeInv, TypeOK, RowsOK, RequestsOK

\* A statement of a handler leaves its request a request.
LEMMA StepKeepsRequest ==
  ASSUME RowsOK, RequestsOK, NEW h \in Handler, Step(h)
  PROVE  RequestsOK' /\ ~Idle(h)
<1> USE DEF Pcs
<1>1. ASSUME NEW pc \in Pcs \ {"idle"}, At(h, pc)
      PROVE  ~Idle(h)
  BY <1>1 DEF At, Idle
<1>2. CASE InsertTrip(h) \/ AddOwner(h) \/ RemoveAll(h) \/ ClearAdmin(h)
  BY <1>1, <1>2, GotoType DEF InsertTrip, AddOwner, RemoveAll, ClearAdmin
<1>3. CASE OwnerEntry(h) \/ SendEvent(h) \/ WriteRow(h) \/ AddFavourite(h)
  BY <1>1, <1>3, FinishType DEF OwnerEntry, SendEvent, WriteRow, AddFavourite
<1>4. CASE SoftDelete(h) \/ RemoveOther(h) \/ DeleteEmptyTrip(h) \/ SetAdmin(h)
  BY <1>1, <1>4, FinishType DEF SoftDelete, RemoveOther, DeleteEmptyTrip, SetAdmin
<1>5. CASE AddMember(h) \/ JoinEntry(h) \/ UpsertEntry(h) \/ SetLevel(h) \/ RemoveSelf(h)
  BY <1>1, <1>5, GotoType, FinishType DEF AddMember, JoinEntry, UpsertEntry, SetLevel, RemoveSelf
<1>6. CASE ReadEntries(h)
  <2> DEFINE o == req[h].obj
             lvl == Aggregate(IF req[h].op = "join" THEN level[o] ELSE "private", entry[o])
             pc == IF req[h].op = "join" /\ lvl = level[o] THEN "event" ELSE "set"
  <2>1. lvl \in Level
    <3>1. (IF req[h].op = "join" THEN level[o] ELSE "private") \in Level
      BY DEF RowsOK, RequestsOK, RequestType, Level, Choice
    <3>2. QED
      BY <3>1, LevelOfAggregate
  <2>2. pc \in {"event", "set"}
    OBVIOUS
  <2>3. req' = [req EXCEPT ![h] = [@ EXCEPT !.lvl = lvl, !.pc = pc]]
    BY <1>6 DEF ReadEntries
  <2> HIDE DEF lvl, pc
  <2>4. req[h].by \in User /\ ~Idle(h)
    BY <1>6 DEF ReadEntries, At, Idle, RequestsOK, Armed
  <2> DEFINE r == [req[h] EXCEPT !.lvl = lvl, !.pc = pc]
  <2>5. r \in RequestType /\ Armed(r)
    BY <2>1, <2>2, <2>4, ChosenLevelType DEF RequestsOK
  <2>6. req' = [req EXCEPT ![h] = r]
    BY <2>3 DEF RequestsOK
  <2>7. QED
    BY <2>4, <2>5, <2>6, BeginType
<1>7. CASE ListLeft(h)
  <2>1. CASE Goto(h, "deleteTrip") \/ Finish(h)
    BY <1>1, <1>7, <2>1, GotoType, FinishType DEF ListLeft
  <2>2. ASSUME NEW t \in member, req' = [req EXCEPT ![h] = [@ EXCEPT !.pc = "clearAdmin", !.who = t]]
        PROVE  RequestsOK' /\ ~Idle(h)
    <3>1. req[h].by \in User /\ ~Idle(h)
      BY <1>7 DEF ListLeft, At, Idle, RequestsOK, Armed
    <3> DEFINE r == [req[h] EXCEPT !.pc = "clearAdmin", !.who = t]
    <3>2. r \in RequestType /\ Armed(r)
      BY <3>1, SuccessorType DEF RowsOK, RequestsOK
    <3>3. req' = [req EXCEPT ![h] = r]
      BY <2>2 DEF RequestsOK
    <3>4. QED
      BY <3>1, <3>2, <3>3, BeginType
  <2>3. QED
    BY <1>7, <2>1, <2>2 DEF ListLeft
<1>8. QED
  BY <1>2, <1>3, <1>4, <1>5, <1>6, <1>7 DEF Step

LEMMA StepKeepsRows ==
  ASSUME RowsOK, RequestsOK, NEW h \in Handler, Step(h)
  PROVE  RowsOK'
<1> USE DEF RowsOK, peopleVars, privacyVars, workVars
<1>1. req[h] \in RequestType /\ Armed(req[h])
  BY DEF RequestsOK
<1>2. CASE InsertTrip(h)
  BY <1>1, <1>2 DEF InsertTrip
<1>3. CASE AddOwner(h)
  BY <1>1, <1>3 DEF AddOwner, At, Armed
<1>4. CASE OwnerEntry(h)
  BY <1>1, <1>4 DEF OwnerEntry, At, Armed, Exists, Object, Choice
<1>5. CASE AddMember(h)
  BY <1>1, <1>5 DEF AddMember, At, Armed, Exists
<1>6. CASE JoinEntry(h)
  BY <1>1, <1>6 DEF JoinEntry, At, Armed, Exists, Object, Choice
<1>7. CASE UpsertEntry(h)
  BY <1>1, <1>7 DEF UpsertEntry, At, Armed, RequestType, Exists, Object, Choice
<1>8. CASE SetLevel(h)
  BY <1>1, <1>8 DEF SetLevel, RequestType, SetPrivacyLevel, Exists
<1>9. CASE SendEvent(h)
  BY <1>1, <1>9 DEF SendEvent, RequestType, PublishPrivacyEvent
<1>10. CASE WriteRow(h)
  BY <1>1, <1>10 DEF WriteRow, RequestType
<1>13. CASE AddFavourite(h)
  BY <1>1, <1>13 DEF AddFavourite, At, Armed
<1>14. CASE RemoveAll(h)
  BY <1>1, <1>14 DEF RemoveAll
<1>15. CASE SoftDelete(h)
  BY <1>1, <1>15 DEF SoftDelete
<1>16. CASE RemoveSelf(h)
  BY <1>1, <1>16 DEF RemoveSelf, At, Armed, Remove
<1>17. CASE RemoveOther(h)
  BY <1>1, <1>17 DEF RemoveOther, Remove
<1>18. CASE DeleteEmptyTrip(h)
  <2>1. NoEntries \in [Object -> [User -> Choice \cup {"none"}]]
    BY DEF NoEntries
  <2>2. QED
    BY <1>1, <1>18, <2>1 DEF DeleteEmptyTrip, DeleteRow
<1>19. CASE ClearAdmin(h)
  BY <1>1, <1>19 DEF ClearAdmin
<1>20. CASE SetAdmin(h)
  BY <1>1, <1>20 DEF SetAdmin
<1>21. CASE ReadEntries(h)
  BY <1>1, <1>21 DEF ReadEntries
<1>22. CASE ListLeft(h)
  BY <1>1, <1>22 DEF ListLeft
<1>23. QED
  BY <1>2, <1>3, <1>4, <1>5, <1>6, <1>7, <1>8, <1>9, <1>10, <1>13, <1>14, <1>15, <1>16, <1>17, <1>18, <1>19, <1>20, <1>21, <1>22 DEF Step

\* What moves without a request: links, favourites, the ML service
\* and the worker.
Outside ==
  \/ \E u \in User : GenerateInviteLink(u) \/ RemoveFromFavourites(u)
  \/ LinkExpires
  \/ \E o \in Photo : MarkNSFW(o)
  \/ WorkerRead \/ WorkerSet

LEMMA OutsideKeepsType ==
  ASSUME TypeInv, Outside
  PROVE  TypeInv'
<1> SUFFICES ASSUME RowsOK, RequestsOK PROVE RowsOK' /\ RequestsOK'
  BY TypeInvParts, PTL
<1> USE DEF RowsOK, peopleVars, privacyVars, workVars
<1>1. RequestsOK'
  <2>1. UNCHANGED req
    BY DEF Outside, GenerateInviteLink, RemoveFromFavourites,
           LinkExpires, MarkNSFW, WorkerRead, WorkerSet
  <2>2. QED
    BY <2>1 DEF RequestsOK
<1>2. ASSUME NEW u \in User,
             GenerateInviteLink(u) \/ RemoveFromFavourites(u) \/ LinkExpires
      PROVE  RowsOK'
  BY <1>2 DEF GenerateInviteLink, RemoveFromFavourites, LinkExpires
<1>3. ASSUME NEW o \in Photo, MarkNSFW(o)
      PROVE  RowsOK'
  BY <1>3 DEF MarkNSFW, Level
<1>4. CASE WorkerRead
  <2> DEFINE o == Head(events)
  <2>1. o \in Object /\ Tail(events) \in Seq(Object)
    BY <1>4 DEF WorkerRead
  <2>2. Aggregate(level[o], entry[o]) \in Level
    BY <2>1, LevelOfAggregate
  <2>3. [obj |-> o, lvl |-> Aggregate(level[o], entry[o])] \in [obj : Object, lvl : Level \cup {"none"}]
    BY <2>1, <2>2
  <2>4. NoWork \in [obj : Object, lvl : Level \cup {"none"}]
    BY DEF NoWork, Object
  <2>5. UNCHANGED <<trip, member, admin, invited, entry, level, published,
                    fav, req, faults>>
    BY <1>4 DEF WorkerRead
  <2>6. events' \in Seq(Object)
    BY <1>4, <2>1 DEF WorkerRead
  <2>7. wk' = NoWork \/ wk' = [obj |-> o, lvl |-> Aggregate(level[o], entry[o])]
    BY <1>4 DEF WorkerRead
  <2> DEFINE w == [obj |-> o, lvl |-> Aggregate(level[o], entry[o])]
  <2>8. w.lvl \in Level
    BY <2>2
  <2>9. wk' \in [obj : Object, lvl : Level \cup {"none"}] /\ (wk' # NoWork => wk'.lvl \in Level)
    BY <2>3, <2>4, <2>7, <2>8
  <2>10. QED
    BY <1>1, <2>5, <2>6, <2>9
<1>5. CASE WorkerSet
  <2>1. wk.obj \in Object /\ wk.lvl \in Level
    BY <1>5 DEF WorkerSet
  <2>2. NoWork \in [obj : Object, lvl : Level \cup {"none"}]
    BY DEF NoWork, Object
  <2>3. UNCHANGED <<trip, member, admin, invited, entry, published,
                    fav, events, req, faults>> /\ wk' = NoWork
    BY <1>5 DEF WorkerSet
  <2>4. level' \in [Object -> Level]
    BY <1>5, <2>1 DEF WorkerSet, SetPrivacyLevel
  <2>5. QED
    BY <1>1, <2>2, <2>3, <2>4
<1>6. CASE LinkExpires
  BY <1>1, <1>6 DEF LinkExpires
<1>7. QED
  BY <1>1, <1>2, <1>3, <1>4, <1>5, <1>6 DEF Outside

LEMMA FailureKeepsType ==
  ASSUME TypeInv, NEW h \in Handler, HandlerFails(h)
  PROVE  TypeInv'
<1> SUFFICES ASSUME RowsOK, RequestsOK PROVE RowsOK' /\ RequestsOK'
  BY TypeInvParts, PTL
<1>1. RequestsOK'
  BY FinishType DEF HandlerFails
<1>2. RowsOK'
  BY LimitAssumption DEF HandlerFails, RowsOK, peopleVars, privacyVars, workVars
<1>3. QED
  BY <1>1, <1>2

LEMMA RequestKeepsType ==
  ASSUME TypeInv, NEW h \in Handler, Request(h)
  PROVE  TypeInv'
<1>1. RequestsOK'
  BY RequestFills, BeginType, TypeInvParts
<1>2. UNCHANGED <<trip, peopleVars, privacyVars, published, fav, workVars, faults>>
  BY RequestKeeps
<1>3. RowsOK'
  BY <1>2, RequestFills, TypeInvParts DEF RowsOK, peopleVars, privacyVars, workVars
<1>4. QED
  BY <1>1, <1>3, TypeInvParts, PTL

LEMMA TypeInvInit == Init => TypeInv
<1> SUFFICES ASSUME Init PROVE RowsOK /\ RequestsOK
  BY TypeInvParts
<1>1. RequestsOK
  BY NoRequestType DEF Init, RequestsOK
<1>2. NoWork \in [obj : Object, lvl : Level \cup {"none"}]
  BY DEF NoWork, Object
<1>3. RowsOK
  <2>1. entry \in [Object -> [User -> Choice \cup {"none"}]]
    BY DEF Init, NoEntries
  <2>2. level \in [Object -> Level]
    BY DEF Init, Level, Choice
  <2>3. faults \in 0..MaxFaults
    BY LimitAssumption DEF Init
  <2>4. events \in Seq(Object)
    BY DEF Init
  <2>5. QED
    BY <1>2, <2>1, <2>2, <2>3, <2>4 DEF Init, RowsOK
<1>4. QED
  BY <1>1, <1>3

\* Next, with the steps that need no request under one name.
LEMMA NextSplit ==
  Next <=> (\E h \in Handler : Request(h) \/ Step(h) \/ HandlerFails(h)) \/ Outside
BY DEF Next, Outside

LEMMA TypeInvNext ==
  ASSUME TypeInv, [Next]_vars
  PROVE  TypeInv'
<1>1. ASSUME NEW h \in Handler, Step(h)
      PROVE  TypeInv'
  BY <1>1, StepKeepsRequest, StepKeepsRows, TypeInvParts, PTL
<1>2. CASE UNCHANGED vars
  BY <1>2 DEF TypeInv, TypeOK, RequestsOK, vars, peopleVars, privacyVars, workVars, NoWork
<1>3. QED
  BY <1>1, <1>2, NextSplit, OutsideKeepsType, FailureKeepsType, RequestKeepsType

\* The rows, the stream, the worker and the requests have their types in every
\* reachable state: no admin outside the participants, whatever interleaved.
THEOREM Types == Spec => []TypeOK
<1>1. TypeInv => TypeOK
  BY DEF TypeInv
<1>2. QED
  BY <1>1, TypeInvInit, TypeInvNext, PTL DEF Spec

THEOREM TypesInv == Spec => []TypeInv
BY TypeInvInit, TypeInvNext, PTL DEF Spec

------------------------------------------------------------------------------
(* A restricted photo stays restricted                                      *)

\* The level of an unfit photo survives every statement: SetPrivacyLevel asks
\* for one that is not restricted, and the row written back is the trip's.
THEOREM Restricted == Spec => RestrictedForGood
<1> DEFINE Kept == \A o \in Photo : level[o] = "restricted" => level'[o] = "restricted"
<1>1. ASSUME TypeInv, NEW h \in Handler, Step(h)
      PROVE  Kept
  <2>1. level \in [Object -> Level] /\ Photo \subseteq Object /\ Trip \notin Photo
    BY <1>1, NullsAssumption DEF TypeInv, TypeOK, Object
  <2>2. CASE SetLevel(h)
    BY <2>1, <2>2 DEF SetLevel, SetPrivacyLevel
  <2>3. CASE WriteRow(h)
    BY <2>1, <2>3 DEF WriteRow
  <2>4. CASE ~SetLevel(h) /\ ~WriteRow(h)
    <3>1. UNCHANGED level
      BY <1>1, <2>4 DEF Step, InsertTrip, AddOwner, OwnerEntry, AddMember, JoinEntry, UpsertEntry,
         ReadEntries, SendEvent, AddFavourite, RemoveAll, SoftDelete,
         RemoveSelf, RemoveOther, ListLeft, DeleteEmptyTrip, ClearAdmin, SetAdmin, privacyVars
    <3>2. QED
      BY <3>1
  <2>5. QED
    BY <2>2, <2>3, <2>4
<1>2. ASSUME TypeInv, Outside
      PROVE  Kept
  <2>1. level \in [Object -> Level] /\ Photo \subseteq Object
    BY <1>2 DEF TypeInv, TypeOK, Object
  <2>2. QED
    BY <1>2, <2>1 DEF Outside, GenerateInviteLink, RemoveFromFavourites,
       LinkExpires, MarkNSFW, WorkerRead, WorkerSet, SetPrivacyLevel, privacyVars
<1>3. ASSUME NEW h \in Handler, Request(h) \/ HandlerFails(h)
      PROVE  Kept
  BY <1>3, RequestKeeps DEF HandlerFails, privacyVars
<1>4. ASSUME UNCHANGED vars
      PROVE  Kept
  BY <1>4 DEF vars, privacyVars
<1>5. TypeInv /\ [Next]_vars => [Kept]_vars
  BY <1>1, <1>2, <1>3, <1>4, NextSplit
<1>6. QED
  BY <1>5, TypesInv, PTL DEF Spec, RestrictedForGood

------------------------------------------------------------------------------
(* Levels settle                                                            *)

CreatePcs == {"insertTrip", "addOwner", "ownerEntry"}
Creating(h) == req[h].pc \in CreatePcs

\* What the statement a request stands at says of its kind.
ShapeOf(r) == /\ r.op = "create" <=> r.pc \in CreatePcs
              /\ r.pc \in {"addMember", "joinEntry"} => r.op = "join" /\ r.obj = Trip
              /\ r.pc # "writeRow"
Shapes == \A h \in Handler : ShapeOf(req[h])

\* Until CreateTrip has answered, nothing but that one request is at work and
\* nothing is stored about the trip.
Birth ==
  /\ trip = "UNUSED" \/ (\E h \in Handler : Creating(h)) =>
       /\ \A h \in Handler : Creating(h) \/ Idle(h)
       /\ \A g, h \in Handler : Creating(g) /\ Creating(h) => g = h
       /\ events = <<>> /\ wk = NoWork /\ entry = NoEntries
       /\ \A o \in Object : level[o] \in {"private", "restricted"}
  /\ trip = "UNUSED" => member = {}
  /\ \A h \in Handler : Creating(h) => (trip = "UNUSED" <=> At(h, "insertTrip"))

\* Some request or event will still recompute the level of o.
Due(o) == \/ \E h \in Handler : req[h].pc \in {"read", "set", "event"} /\ req[h].obj = o
          \/ \E i \in 1..Len(events) : events[i] = o

\* The level of o is right, or the worker is about to write the right one, or
\* one more recomputation is due.
Agrees(o, l) == l = Aggregate(level[o], entry[o])
WorkerHas(o) == wk # NoWork /\ wk.obj = o
Settling(o) == \/ level[o] = "restricted"
               \/ Due(o)
               \/ WorkerHas(o) /\ Agrees(o, wk.lvl)
               \/ ~WorkerHas(o) /\ Agrees(o, level[o])
AllSettling == Exists /\ faults = 0 => \A o \in Object : Settling(o)

SettleInv == TypeInv /\ Shapes /\ Birth /\ AllSettling

LEMMA SettleImplies == SettleInv => LevelSettles
<1> SUFFICES ASSUME SettleInv, Quiet, Exists, faults = 0, NEW o \in Object
             PROVE  level[o] = Aggregate(level[o], entry[o])
  BY DEF LevelSettles
<1>1. Settling(o)
  BY DEF SettleInv, AllSettling
<1>2. ~Due(o) /\ ~WorkerHas(o)
  BY DEF Quiet, Due, Idle, WorkerHas
<1>3. QED
  BY <1>1, <1>2 DEF Settling, Agrees, Aggregate

LEMMA SettleInit == Init => SettleInv
<1> SUFFICES ASSUME Init PROVE SettleInv
  OBVIOUS
<1>1. TypeInv
  BY TypeInvInit
<1>2. \A h \in Handler : req[h] = NoRequest
  BY DEF Init
<1>3. Shapes /\ \A h \in Handler : ~Creating(h) /\ Idle(h)
  BY <1>2 DEF Shapes, ShapeOf, NoRequest, CreatePcs, Creating, Idle
<1>4. Birth
  BY <1>3 DEF Birth, Init
<1>5. ~Exists
  BY DEF Init, Exists
<1>6. QED
  BY <1>1, <1>3, <1>4, <1>5 DEF SettleInv, AllSettling

(* The shapes of requests                                                   *)

LEMMA FinishShape ==
  ASSUME TypeInv, Shapes, NEW h \in Handler, Finish(h)
  PROVE  Shapes' /\ req'[h] = NoRequest /\ \A x \in Handler \ {h} : req'[x] = req[x]
<1>1. req'[h] = NoRequest /\ \A x \in Handler \ {h} : req'[x] = req[x]
  BY DEF Finish, TypeInv, RequestsOK
<1>2. ShapeOf(NoRequest)
  BY DEF ShapeOf, NoRequest, CreatePcs
<1>3. QED
  BY <1>1, <1>2 DEF Shapes, ShapeOf

LEMMA GotoKeeps ==
  ASSUME TypeInv, NEW h \in Handler, NEW pc \in Pcs, Goto(h, pc)
  PROVE  /\ req'[h].pc = pc /\ req'[h].op = req[h].op /\ req'[h].obj = req[h].obj
         /\ \A x \in Handler \ {h} : req'[x] = req[x]
<1>1. req \in [Handler -> RequestType]
  BY DEF TypeInv, RequestsOK
<1>2. QED
  BY <1>1 DEF Goto, RequestType

\* The shape of a request is kept by a move between two statements of one kind.
SameKind(from, to) ==
  /\ to \in CreatePcs <=> from \in CreatePcs
  /\ to \in {"addMember", "joinEntry"} => from \in {"addMember", "joinEntry"}
  /\ to # "writeRow"

LEMMA GotoShape ==
  ASSUME TypeInv, Shapes, NEW h \in Handler, NEW pc \in Pcs, Goto(h, pc), SameKind(req[h].pc, pc)
  PROVE  Shapes'
BY GotoKeeps DEF Shapes, ShapeOf, SameKind

LEMMA ListLeftKeeps ==
  ASSUME TypeInv, NEW h \in Handler, ListLeft(h)
  PROVE  /\ req[h].pc = "list"
         /\ \/ Finish(h)
            \/ /\ req'[h].pc \in {"deleteTrip", "clearAdmin"}
               /\ req'[h].op = req[h].op /\ req'[h].obj = req[h].obj
               /\ \A x \in Handler \ {h} : req'[x] = req[x]
<1>1. req \in [Handler -> RequestType]
  BY DEF TypeInv, RequestsOK
<1>2. ASSUME NEW t \in member, req' = [req EXCEPT ![h] = [@ EXCEPT !.pc = "clearAdmin", !.who = t]]
      PROVE  /\ req'[h].pc = "clearAdmin"
             /\ req'[h].op = req[h].op /\ req'[h].obj = req[h].obj
             /\ \A x \in Handler \ {h} : req'[x] = req[x]
  <2> DEFINE a == [req[h] EXCEPT !.pc = "clearAdmin"]
             r == [a EXCEPT !.who = t]
  <2>1. a \in RequestType /\ a.pc = "clearAdmin" /\ a.op = req[h].op /\ a.obj = req[h].obj
    BY <1>1 DEF RequestType, Pcs
  <2> HIDE DEF a
  <2>2. r.pc = "clearAdmin" /\ r.op = req[h].op /\ r.obj = req[h].obj
    BY <2>1 DEF RequestType
  <2>3. req' = [req EXCEPT ![h] = r]
    BY <1>1, <1>2 DEF a
  <2> HIDE DEF r
  <2>4. QED
    BY <1>1, <2>2, <2>3
<1>3. QED
  BY <1>2, GotoKeeps DEF ListLeft, At, Pcs

LEMMA ReadEntriesKeeps ==
  ASSUME TypeInv, NEW h \in Handler, ReadEntries(h)
  PROVE  /\ req[h].pc = "read" /\ req'[h].pc \in {"set", "event"}
         /\ req'[h].op = req[h].op /\ req'[h].obj = req[h].obj
         /\ \A x \in Handler \ {h} : req'[x] = req[x]
<1> DEFINE o == req[h].obj
           lvl == Aggregate(IF req[h].op = "join" THEN level[o] ELSE "private", entry[o])
           pc == IF req[h].op = "join" /\ lvl = level[o] THEN "event" ELSE "set"
           a == [req[h] EXCEPT !.lvl = lvl]
           r == [a EXCEPT !.pc = pc]
<1>1. req \in [Handler -> RequestType] /\ pc \in {"set", "event"}
  BY DEF TypeInv, RequestsOK
<1>2. req' = [req EXCEPT ![h] = r] /\ req[h].pc = "read"
  BY <1>1 DEF ReadEntries, At
<1> HIDE DEF lvl, pc
<1>3. lvl \in Level
  <2>1. (IF req[h].op = "join" THEN level[o] ELSE "private") \in Level
    BY <1>1 DEF TypeInv, TypeOK, RequestType, Level, Choice
  <2>2. QED
    BY <2>1, LevelOfAggregate DEF lvl
<1>4. a \in RequestType /\ a.op = req[h].op /\ a.obj = req[h].obj
  BY <1>1, <1>3 DEF RequestType
<1> HIDE DEF a
<1>5. r.pc = pc /\ r.op = req[h].op /\ r.obj = req[h].obj
  BY <1>4 DEF RequestType
<1> HIDE DEF r
<1>6. QED
  BY <1>1, <1>2, <1>5

\* Statements that concern neither the level nor the stream of events.
Aside(h) ==
  \/ AddMember(h) \/ AddFavourite(h)
  \/ RemoveAll(h) \/ SoftDelete(h) \/ RemoveSelf(h) \/ RemoveOther(h)
  \/ ListLeft(h) \/ ClearAdmin(h) \/ SetAdmin(h)
Recording(h) == JoinEntry(h) \/ UpsertEntry(h)
Computing(h) == ReadEntries(h) \/ SetLevel(h) \/ SendEvent(h)

\* Where a handler stood, and where the statement leaves it.
LEMMA StepMoves ==
  ASSUME TypeInv, Shapes, NEW h \in Handler, Step(h)
  PROVE  /\ Shapes'
         /\ \A x \in Handler \ {h} : req'[x] = req[x]
         /\ ~Idle(h)
         /\ ~Creating(h) => ~Creating(h)'
         /\ Aside(h) => req[h].pc \notin {"read", "set", "event"} /\ ~Creating(h)
         /\ Recording(h) \/ Computing(h) \/ DeleteEmptyTrip(h) => ~Creating(h)
         /\ ~WriteRow(h)
<1> DEFINE Moved == /\ Shapes'
                    /\ \A x \in Handler \ {h} : req'[x] = req[x]
                    /\ ~Idle(h)
                    /\ ~Creating(h) => ~Creating(h)'
<1>1. Aside(h) => req[h].pc \notin {"read", "set", "event"} /\ ~Creating(h)
  BY ListLeftKeeps DEF Aside, AddMember, AddFavourite, RemoveAll, SoftDelete,
     RemoveSelf, RemoveOther, ListLeft, ClearAdmin, SetAdmin, At, Creating, CreatePcs
<1>2. Recording(h) \/ Computing(h) \/ DeleteEmptyTrip(h) => ~Creating(h)
  BY ReadEntriesKeeps DEF Recording, Computing, JoinEntry, UpsertEntry, ReadEntries, SetLevel,
     SendEvent, DeleteEmptyTrip, At, Creating, CreatePcs
<1>3. ~WriteRow(h)
  BY DEF WriteRow, Shapes, ShapeOf, At
<1>4. CASE InsertTrip(h) \/ AddOwner(h) \/ OwnerEntry(h)
  <2>1. Moved
    BY <1>4, FinishShape, GotoShape, GotoKeeps DEF InsertTrip, AddOwner, OwnerEntry, NoRequest,
       Pcs, CreatePcs, SameKind, At, Idle, Creating
  <2>2. QED
    BY <1>1, <1>2, <1>3, <2>1
<1>5. CASE AddMember(h) \/ AddFavourite(h)
  <2>1. Moved
    BY <1>5, FinishShape, GotoShape, GotoKeeps DEF AddMember, AddFavourite,
       NoRequest, Pcs, CreatePcs, SameKind, At, Idle, Creating
  <2>2. QED
    BY <1>1, <1>2, <1>3, <2>1
<1>6. CASE RemoveAll(h) \/ SoftDelete(h) \/ RemoveSelf(h) \/ RemoveOther(h)
  <2>1. Moved
    BY <1>6, FinishShape, GotoShape, GotoKeeps DEF RemoveAll, SoftDelete, RemoveSelf, RemoveOther,
       NoRequest, Pcs, CreatePcs, SameKind, At, Idle, Creating
  <2>2. QED
    BY <1>1, <1>2, <1>3, <2>1
<1>7. CASE ClearAdmin(h) \/ SetAdmin(h) \/ DeleteEmptyTrip(h)
  <2>1. Moved
    BY <1>7, FinishShape, GotoShape, GotoKeeps DEF ClearAdmin, SetAdmin, DeleteEmptyTrip,
       NoRequest, Pcs, CreatePcs, SameKind, At, Idle, Creating
  <2>2. QED
    BY <1>1, <1>2, <1>3, <2>1
<1>8. CASE ListLeft(h)
  <2>1. Moved
    BY <1>8, ListLeftKeeps, FinishShape DEF Shapes, ShapeOf, NoRequest, Idle, Creating, CreatePcs
  <2>2. QED
    BY <1>1, <1>2, <1>3, <2>1
<1>9. CASE ReadEntries(h)
  <2>1. Moved
    BY <1>9, ReadEntriesKeeps DEF Shapes, ShapeOf, Idle, Creating, CreatePcs
  <2>2. QED
    BY <1>1, <1>2, <1>3, <2>1
<1>10. CASE JoinEntry(h) \/ UpsertEntry(h) \/ SetLevel(h) \/ SendEvent(h)
  <2>1. Moved
    BY <1>10, FinishShape, GotoShape, GotoKeeps DEF JoinEntry, UpsertEntry, SetLevel, SendEvent,
       NoRequest, Pcs, CreatePcs, SameKind, At, Idle, Creating
  <2>2. QED
    BY <1>1, <1>2, <1>3, <2>1
<1>11. QED
  BY <1>3, <1>4, <1>5, <1>6, <1>7, <1>8, <1>9, <1>10 DEF Step

LEMMA RequestMoves ==
  ASSUME SettleInv, "update" \notin Ops, "publish" \notin Ops, NEW h \in Handler, Request(h)
  PROVE  /\ Shapes' /\ Idle(h)
         /\ \A x \in Handler \ {h} : req'[x] = req[x]
         /\ req'[h].pc \notin {"read", "set", "event", "idle"}
         /\ Creating(h)' => trip = "UNUSED" /\ At(h, "insertTrip")'
         /\ ~Creating(h)' => trip # "UNUSED"
         /\ \A x \in Handler : ~Creating(x)
<1>1. PICK r \in RequestType :
        /\ req' = [req EXCEPT ![h] = r]
        /\ \/ r.op = "create" /\ r.pc = "insertTrip" /\ trip = "UNUSED"
           \/ r.op = "join" /\ r.pc = "addMember" /\ r.obj = Trip /\ Exists
           \/ r.op = "privacy" /\ r.pc = "entry" /\ Exists
           \/ r.op = "save" /\ r.pc = "addFavourite" /\ Exists
           \/ /\ r.op \in {"delete", "leave", "remove", "transfer"}
              /\ r.pc \in {"removeAll", "removeSelf", "removeOther", "clearAdmin"}
              /\ member \cup admin # {}
  BY RequestFills DEF SettleInv
<1>2. req'[h] = r /\ \A x \in Handler \ {h} : req'[x] = req[x]
  BY <1>1 DEF SettleInv, TypeInv, RequestsOK
<1>3. ShapeOf(r) /\ r.pc \notin {"read", "set", "event", "idle"}
  BY <1>1 DEF ShapeOf, CreatePcs
<1>4. Shapes'
  BY <1>2, <1>3 DEF SettleInv, Shapes, ShapeOf
<1>5. trip = "UNUSED" => member = {} /\ admin = {} /\ ~Exists
  BY DEF SettleInv, Birth, TypeInv, TypeOK, Exists
<1>6. Creating(h)' => trip = "UNUSED" /\ At(h, "insertTrip")'
  BY <1>1, <1>2 DEF Creating, At, CreatePcs
<1>7. ~Creating(h)' => trip # "UNUSED"
  BY <1>1, <1>2, <1>5 DEF Creating, CreatePcs
<1>8. \A x \in Handler : ~Creating(x)
  BY DEF Request, SettleInv, Shapes, ShapeOf, Creating
<1>9. Idle(h)
  BY RequestFills DEF SettleInv
<1>10. QED
  BY <1>2, <1>3, <1>4, <1>6, <1>7, <1>8, <1>9

(* Birth                                                                    *)

\* A request that is not the first one finds the trip created.
LEMMA BirthOver ==
  ASSUME Birth, NEW h \in Handler, ~Creating(h), ~Idle(h), ~Creating(h)',
         \A x \in Handler \ {h} : req'[x] = req[x],
         trip' \in {trip, "SOFT", "GONE"}
  PROVE  Birth'
BY DEF Birth, Creating

LEMMA BirthStep ==
  ASSUME SettleInv, NEW h \in Handler, Step(h)
  PROVE  Birth'
<1> USE StepMoves DEF SettleInv
<1>1. CASE ~Creating(h)
  <2>1. trip' \in {trip, "SOFT", "GONE"}
    BY <1>1 DEF Step, InsertTrip, AddOwner, OwnerEntry, AddMember, JoinEntry, UpsertEntry,
       ReadEntries, SetLevel, SendEvent, WriteRow, AddFavourite, RemoveAll,
       SoftDelete, RemoveSelf, RemoveOther, ListLeft, DeleteEmptyTrip, DeleteRow, ClearAdmin,
       SetAdmin, At, Creating, CreatePcs
  <2>2. QED
    BY <1>1, <2>1, BirthOver
<1>2. CASE Creating(h)
  <2>1. InsertTrip(h) \/ AddOwner(h) \/ OwnerEntry(h)
    BY <1>2 DEF Step, Aside, Recording, Computing
  <2>2. /\ \A x \in Handler \ {h} : Idle(x) /\ ~Creating(x)
        /\ \A x \in Handler \ {h} : Idle(x)' /\ ~Creating(x)'
    <3>1. \A x \in Handler \ {h} : Idle(x) /\ ~Creating(x)
      BY <1>2 DEF Birth, Creating, Idle, CreatePcs
    <3>2. QED
      BY <3>1 DEF Creating, Idle
  <2>3. /\ events = <<>> /\ wk = NoWork /\ entry = NoEntries
        /\ \A o \in Object : level[o] \in {"private", "restricted"}
    BY <1>2 DEF Birth
  <2>4. CASE InsertTrip(h) \/ AddOwner(h)
    <3>1. trip' # "UNUSED" /\ UNCHANGED <<entry, level, events, wk>>
      BY <1>2, <2>4 DEF InsertTrip, AddOwner, Birth, At, privacyVars, workVars
    <3>2. Creating(h)' /\ ~At(h, "insertTrip")'
      BY <2>4, GotoKeeps DEF InsertTrip, AddOwner, Creating, CreatePcs, Pcs, At
    <3>3. QED
      BY <2>2, <2>3, <3>1, <3>2 DEF Birth, NoWork, NoEntries
  <2>5. CASE OwnerEntry(h)
    <3>1. trip' # "UNUSED"
      BY <1>2, <2>5 DEF OwnerEntry, Birth, At
    <3>2. ~Creating(h)'
      BY <2>5, FinishShape DEF OwnerEntry, Creating, CreatePcs, NoRequest
    <3>3. QED
      BY <2>2, <3>1, <3>2 DEF Birth
  <2>6. QED
    BY <2>1, <2>4, <2>5
<1>3. QED
  BY <1>1, <1>2

LEMMA BirthRequest ==
  ASSUME SettleInv, "update" \notin Ops, "publish" \notin Ops, NEW h \in Handler, Request(h)
  PROVE  Birth'
<1>1. UNCHANGED <<trip, member, entry, level, events, wk>>
  BY RequestKeeps DEF peopleVars, privacyVars, workVars
<1>2. \A x \in Handler \ {h} : ~Creating(x)' /\ (Idle(x)' <=> Idle(x))
  BY RequestMoves DEF Creating, Idle
<1>3. CASE Creating(h)'
  <2>1. trip = "UNUSED" /\ At(h, "insertTrip")'
    BY <1>3, RequestMoves
  <2>2. QED
    BY <1>1, <1>2, <1>3, <2>1, RequestMoves DEF SettleInv, Birth, NoWork, NoEntries
<1>4. CASE ~Creating(h)'
  BY <1>1, <1>2, <1>4, RequestMoves DEF SettleInv, Birth
<1>5. QED
  BY <1>3, <1>4

LEMMA BirthOutside ==
  ASSUME SettleInv, Outside
  PROVE  Birth' /\ Shapes'
<1> USE DEF SettleInv, Birth, Creating, Idle, At, Shapes, NoWork, NoEntries, peopleVars, privacyVars, workVars
<1>1. UNCHANGED req
  BY DEF Outside, GenerateInviteLink, RemoveFromFavourites,
         LinkExpires, MarkNSFW, WorkerRead, WorkerSet
<1>2. CASE \E u \in User : GenerateInviteLink(u) \/ RemoveFromFavourites(u)
  BY <1>2 DEF GenerateInviteLink, RemoveFromFavourites
<1>3. CASE LinkExpires
  BY <1>3 DEF LinkExpires
<1>4. ASSUME NEW o \in Photo, MarkNSFW(o)
      PROVE  Birth' /\ Shapes'
  <2>1. \A x \in Object : level'[x] \in {level[x], "restricted"}
    BY <1>4 DEF MarkNSFW, TypeInv, TypeOK
  <2>2. QED
    BY <1>1, <1>4, <2>1 DEF MarkNSFW
<1>5. CASE WorkerRead \/ WorkerSet
  <2>1. trip # "UNUSED" /\ ~\E h \in Handler : Creating(h)
    BY <1>5 DEF WorkerRead, WorkerSet
  <2>2. UNCHANGED <<trip, member>>
    BY <1>5 DEF WorkerRead, WorkerSet
  <2>3. QED
    BY <1>1, <2>1, <2>2
<1>6. QED
  BY <1>2, <1>3, <1>4, <1>5 DEF Outside

LEMMA BirthFailure ==
  ASSUME SettleInv, NEW h \in Handler, HandlerFails(h)
  PROVE  Birth' /\ Shapes'
<1>1. /\ Shapes' /\ req'[h] = NoRequest /\ \A x \in Handler \ {h} : req'[x] = req[x]
      /\ UNCHANGED <<trip, member, entry, level, events, wk>>
  BY FinishShape DEF HandlerFails, SettleInv, peopleVars, privacyVars, workVars
<1>2. Idle(h)' /\ ~Creating(h)'
  BY <1>1 DEF Idle, Creating, CreatePcs, NoRequest
<1>3. \A x \in Handler : Creating(x)' => Creating(x) /\ (At(x, "insertTrip")' <=> At(x, "insertTrip"))
  BY <1>1, <1>2 DEF Creating, At
<1>4. \A x \in Handler : Creating(x) \/ Idle(x) => (Creating(x) \/ Idle(x))'
  BY <1>1, <1>2 DEF Creating, Idle
<1>5. QED
  BY <1>1, <1>3, <1>4 DEF SettleInv, Birth, NoWork, NoEntries

(* Settling                                                                 *)

\* The aggregate of a level that is an aggregate is that level.
LEMMA AggregateStable ==
  ASSUME NEW current, NEW choice, current # "restricted"
  PROVE  Aggregate(Aggregate(current, choice), choice) = Aggregate(current, choice)
BY DEF Aggregate

\* Nothing about levels or recomputations changed.
LEMMA SettlingKept ==
  ASSUME AllSettling, NEW h \in Handler,
         Exists' => Exists, UNCHANGED <<entry, level, events, wk>>, faults' = faults,
         \A x \in Handler \ {h} : req'[x] = req[x],
         req[h].pc \in {"read", "set", "event"} =>
           req'[h].pc \in {"read", "set", "event"} /\ req'[h].obj = req[h].obj
  PROVE  AllSettling'
<1> SUFFICES ASSUME Exists', faults' = 0, NEW o \in Object
             PROVE  Settling(o)'
  BY DEF AllSettling
<1>1. Settling(o)
  BY DEF AllSettling
<1>2. Due(o) => Due(o)'
  BY DEF Due
<1>3. QED
  BY <1>1, <1>2 DEF Settling, WorkerHas, Agrees, Aggregate, NoWork

LEMMA SettlingStep ==
  ASSUME SettleInv, NEW h \in Handler, Step(h)
  PROVE  AllSettling'
<1> USE DEF SettleInv
<1>1. /\ level \in [Object -> Level] /\ entry \in [Object -> [User -> Choice \cup {"none"}]]
      /\ req \in [Handler -> RequestType] /\ events \in Seq(Object)
  BY DEF TypeInv, TypeOK
<1>2. \A x \in Handler \ {h} : req'[x] = req[x]
  BY StepMoves
<1>3. CASE Aside(h)
  <2>1. UNCHANGED <<entry, level, events, wk, faults>> /\ (Exists' => Exists)
    BY <1>3 DEF Aside, AddMember, AddFavourite, RemoveAll, SoftDelete,
       RemoveSelf, RemoveOther, ListLeft, ClearAdmin, SetAdmin, Exists, privacyVars, workVars
  <2>2. QED
    BY <1>2, <1>3, <2>1, SettlingKept, StepMoves
<1>4. CASE InsertTrip(h) \/ AddOwner(h)
  <2>1. Creating(h) /\ UNCHANGED <<entry, level, events, wk>>
    BY <1>4 DEF InsertTrip, AddOwner, Creating, CreatePcs, At, privacyVars, workVars
  <2>2. \A o \in Object : level[o] # "restricted" => ~WorkerHas(o)' /\ Agrees(o, level[o])'
    BY <2>1 DEF Birth, WorkerHas, Agrees, Aggregate, NoEntries, NoWork
  <2>3. QED
    BY <2>1, <2>2 DEF AllSettling, Settling
<1>5. CASE OwnerEntry(h)
  <2>1. /\ Creating(h) /\ UNCHANGED <<level, events, wk>>
        /\ \A o \in Object, u \in User : entry'[o][u] \in {"none", "private"}
    BY <1>1, <1>5 DEF OwnerEntry, Creating, CreatePcs, At, workVars, Birth, NoEntries
  <2>2. \A o \in Object : level[o] # "restricted" => ~WorkerHas(o)' /\ Agrees(o, level[o])'
    BY <2>1 DEF Birth, WorkerHas, Agrees, Aggregate, NoWork
  <2>3. QED
    BY <2>1, <2>2 DEF AllSettling, Settling
<1>6. CASE Recording(h)
  <2>1. CASE Finish(h) /\ ~Exists
    <3>1. ~Exists'
      BY <1>6, <2>1 DEF Recording, JoinEntry, UpsertEntry, Exists
    <3>2. QED
      BY <3>1 DEF AllSettling
  <2>2. CASE Goto(h, "read")
    <3> PICK b : b = req[h].obj
      OBVIOUS
    <3>1. \A o \in Object \ {b} : entry'[o] = entry[o]
      BY <1>1, <1>6 DEF Recording, JoinEntry, UpsertEntry, At, Shapes, ShapeOf
    <3>2. UNCHANGED <<level, events, wk, trip, faults>>
      BY <1>6 DEF Recording, JoinEntry, UpsertEntry, workVars
    <3>3. req'[h].pc = "read" /\ req'[h].obj = b
      BY <2>2, GotoKeeps DEF Pcs
    <3>4. Due(b)'
      BY <3>3 DEF Due
    <3>5. ASSUME NEW o \in Object \ {b}, Settling(o)
          PROVE  Settling(o)'
      <4>1. Due(o) => Due(o)'
        BY <1>2, <3>2, <3>3 DEF Due
      <4>2. QED
        BY <3>1, <3>2, <3>5, <4>1 DEF Settling, WorkerHas, Agrees, Aggregate, NoWork
    <3>6. Settling(b)'
      BY <3>4 DEF Settling
    <3>7. QED
      BY <3>2, <3>5, <3>6 DEF AllSettling, Exists
  <2>3. QED
    BY <1>6, <2>1, <2>2 DEF Recording, JoinEntry, UpsertEntry
<1>7. CASE ReadEntries(h)
  <2>1. UNCHANGED <<entry, level, events, wk, faults, trip>>
    BY <1>7 DEF ReadEntries, privacyVars, workVars
  <2>2. QED
    BY <1>7, <2>1, ReadEntriesKeeps, SettlingKept DEF Exists
<1>8. CASE SetLevel(h)
  <2> PICK b : b = req[h].obj
    OBVIOUS
  <2>1. /\ UNCHANGED <<entry, events, wk, trip, faults>> /\ req[h].pc = "set"
        /\ \A o \in Object \ {b} : level'[o] = level[o]
        /\ level[b] = "restricted" => level'[b] = "restricted"
    BY <1>1, <1>8 DEF SetLevel, SetPrivacyLevel, workVars, At, RequestType
  <2>2. CASE Goto(h, "event")
    <3>1. req'[h].pc = "event" /\ req'[h].obj = b
      BY <2>2, GotoKeeps DEF Pcs
    <3>2. Due(b)'
      BY <3>1 DEF Due
    <3>3. ASSUME NEW o \in Object \ {b}, Settling(o)
          PROVE  Settling(o)'
      <4>1. Due(o) => Due(o)'
        BY <1>2, <2>1, <3>1 DEF Due
      <4>2. QED
        BY <2>1, <3>3, <4>1 DEF Settling, WorkerHas, Agrees, Aggregate, NoWork
    <3>4. Settling(b)'
      BY <3>2 DEF Settling
    <3>5. QED
      BY <2>1, <3>3, <3>4 DEF AllSettling, Exists
  <2>3. CASE Finish(h) /\ Exists /\ level[b] = "restricted"
    <3>1. req'[h] = NoRequest
      BY <2>3, FinishShape
    <3>2. ASSUME NEW o \in Object \ {b}, Settling(o)
          PROVE  Settling(o)'
      <4>1. Due(o) => Due(o)'
        BY <1>2, <2>1 DEF Due
      <4>2. QED
        BY <2>1, <3>2, <4>1 DEF Settling, WorkerHas, Agrees, Aggregate, NoWork
    <3>3. QED
      BY <2>1, <2>3, <3>2 DEF AllSettling, Settling, Exists
  <2>4. CASE ~Exists
    BY <2>1, <2>4 DEF AllSettling, Exists
  <2>5. QED
    BY <1>8, <2>2, <2>3, <2>4 DEF SetLevel
<1>9. CASE SendEvent(h)
  <2> PICK b : b = req[h].obj
    OBVIOUS
  <2>1. UNCHANGED <<entry, level, wk, trip, faults>> /\ events' = Append(events, b)
    BY <1>9 DEF SendEvent, PublishPrivacyEvent, privacyVars
  <2>2. b \in Object
    BY <1>1 DEF RequestType
  <2>3. ASSUME NEW o \in Object, Due(o)
        PROVE  Due(o)'
    <3>1. CASE o = b
      <4>1. events'[Len(events) + 1] = o /\ Len(events') = Len(events) + 1
        BY <1>1, <2>1, <2>2, <3>1
      <4>2. QED
        BY <1>1, <4>1 DEF Due
    <3>2. CASE o # b
      <4>1. \A i \in 1..Len(events) : i \in 1..Len(events') /\ events'[i] = events[i]
        BY <1>1, <2>1, <2>2
      <4>2. QED
        BY <1>2, <2>3, <3>2, <4>1 DEF Due
    <3>3. QED
      BY <3>1, <3>2
  <2>4. QED
    BY <2>1, <2>3 DEF AllSettling, Settling, Exists, WorkerHas, Agrees, Aggregate, NoWork
<1>10. CASE DeleteEmptyTrip(h)
  <2>1. ~Exists'
    BY <1>10 DEF DeleteEmptyTrip, DeleteRow, Exists
  <2>2. QED
    BY <2>1 DEF AllSettling
<1>11. QED
  BY <1>3, <1>4, <1>5, <1>6, <1>7, <1>8, <1>9, <1>10, StepMoves DEF Step, Aside, Recording

LEMMA SettlingOutside ==
  ASSUME SettleInv, Outside
  PROVE  AllSettling'
<1> USE DEF SettleInv
<1>1. /\ level \in [Object -> Level] /\ events \in Seq(Object)
      /\ wk \in [obj : Object, lvl : Level \cup {"none"}] /\ (wk # NoWork => wk.lvl \in Level)
  BY DEF TypeInv, TypeOK
<1>2. UNCHANGED <<req, entry, trip, faults>>
  BY DEF Outside, GenerateInviteLink, RemoveFromFavourites,
         LinkExpires, MarkNSFW, WorkerRead, WorkerSet, privacyVars
<1>3. CASE UNCHANGED <<level, events, wk>>
  <2>1. ASSUME NEW o \in Object, Settling(o)
        PROVE  Settling(o)'
    BY <1>2, <1>3, <2>1 DEF Settling, Due, WorkerHas, Agrees, Aggregate, NoWork
  <2>2. QED
    BY <1>2, <2>1 DEF AllSettling, Exists
<1>4. ASSUME NEW p \in Photo, MarkNSFW(p)
      PROVE  AllSettling'
  <2>1. /\ UNCHANGED <<events, wk>> /\ level'[p] = "restricted"
        /\ \A o \in Object \ {p} : level'[o] = level[o]
    BY <1>1, <1>4 DEF MarkNSFW, workVars, Object
  <2>2. ASSUME NEW o \in Object \ {p}, Settling(o)
        PROVE  Settling(o)'
    BY <1>2, <2>1, <2>2 DEF Settling, Due, WorkerHas, Agrees, Aggregate, NoWork
  <2>3. Settling(p)'
    BY <2>1 DEF Settling
  <2>4. QED
    BY <1>2, <2>2, <2>3 DEF AllSettling, Exists
<1>5. CASE WorkerRead
  <2> PICK b : b = Head(events)
    OBVIOUS
  <2> PICK l : l = Aggregate(level[b], entry[b])
    OBVIOUS
  <2>1. /\ UNCHANGED level /\ wk = NoWork /\ events # <<>> /\ events' = Tail(events)
        /\ Exists => wk' = [obj |-> b, lvl |-> l]
    BY <1>5 DEF WorkerRead, privacyVars
  <2>2. b \in Object /\ l \in Level
    BY <1>1, <2>1, LevelOfAggregate
  <2>3. Exists => wk'.obj = b /\ wk'.lvl = l /\ wk' # NoWork
    <3>1. ASSUME wk' = [obj |-> b, lvl |-> l]
          PROVE  wk'.obj = b /\ wk'.lvl = l /\ wk' # NoWork
      BY <2>2, <3>1 DEF NoWork, Level, Choice
    <3>2. QED
      BY <2>1, <3>1
  <2>4. Exists => Settling(b)'
    BY <1>2, <2>1, <2>3 DEF Settling, WorkerHas, Agrees, Aggregate, NoWork
  <2>5. ASSUME NEW o \in Object \ {b}, Exists, Settling(o)
        PROVE  Settling(o)'
    <3>1. Due(o) => Due(o)'
      <4>1. ASSUME NEW i \in 1..Len(events), events[i] = o
            PROVE  i - 1 \in 1..Len(events') /\ events'[i - 1] = o
        BY <1>1, <2>1, <4>1
      <4>2. QED
        BY <1>2, <4>1 DEF Due
    <3>2. ~WorkerHas(o) /\ ~WorkerHas(o)'
      BY <2>1, <2>3, <2>5 DEF WorkerHas, NoWork
    <3>3. QED
      BY <1>2, <2>1, <2>5, <3>1, <3>2 DEF Settling, Agrees, Aggregate
  <2>6. QED
    BY <1>2, <2>2, <2>4, <2>5 DEF AllSettling, Exists
<1>6. CASE WorkerSet
  <2> PICK b : b = wk.obj
    OBVIOUS
  <2>1. wk # NoWork /\ UNCHANGED events /\ wk' = NoWork
    BY <1>6 DEF WorkerSet
  <2>2. CASE ~Exists
    BY <1>2, <2>2 DEF AllSettling, Exists
  <2>3. CASE Exists
    <3>1. /\ \A o \in Object \ {b} : level'[o] = level[o]
          /\ level'[b] = IF level[b] = "restricted" THEN "restricted" ELSE wk.lvl
      BY <1>1, <1>6, <2>1, <2>3 DEF WorkerSet, SetPrivacyLevel
    <3>2. ASSUME NEW o \in Object \ {b}, Settling(o)
          PROVE  Settling(o)'
      BY <1>2, <2>1, <3>1, <3>2 DEF Settling, Due, WorkerHas, Agrees, Aggregate, NoWork
    <3>3. Settling(b) => Settling(b)'
      <4>1. CASE level[b] = "restricted"
        BY <3>1, <4>1 DEF Settling
      <4>2. CASE Due(b)
        BY <1>2, <2>1, <4>2 DEF Due, Settling
      <4>3. CASE level[b] # "restricted" /\ Agrees(b, wk.lvl)
        <5>1. level'[b] = Aggregate(level[b], entry[b])
          BY <3>1, <4>3 DEF Agrees
        <5>2. level'[b] = Aggregate(level'[b], entry[b])
          BY <4>3, <5>1, AggregateStable
        <5>3. QED
          BY <1>2, <2>1, <5>2 DEF Settling, WorkerHas, Agrees, Aggregate, NoWork
      <4>4. QED
        BY <2>1, <4>1, <4>2, <4>3 DEF Settling, WorkerHas
    <3>4. QED
      BY <1>1, <1>2, <2>1, <3>2, <3>3 DEF AllSettling, Exists
  <2>4. QED
    BY <2>2, <2>3
<1>7. QED
  <2>1. ASSUME NEW u \in User,
               GenerateInviteLink(u) \/ RemoveFromFavourites(u) \/ LinkExpires
        PROVE  UNCHANGED <<level, events, wk>>
    BY <2>1 DEF GenerateInviteLink, RemoveFromFavourites, LinkExpires,
       privacyVars, workVars
  <2>2. LinkExpires => UNCHANGED <<level, events, wk>>
    BY DEF LinkExpires, privacyVars, workVars
  <2>3. QED
    BY <1>3, <1>4, <1>5, <1>6, <2>1, <2>2 DEF Outside

LEMMA SettlingRequest ==
  ASSUME SettleInv, "update" \notin Ops, "publish" \notin Ops, NEW h \in Handler, Request(h)
  PROVE  AllSettling'
<1>1. UNCHANGED <<entry, level, events, wk, faults, trip>>
  BY RequestKeeps DEF privacyVars, workVars
<1>2. QED
  BY <1>1, RequestMoves, SettlingKept DEF SettleInv, Exists, Idle

LEMMA SettleNext ==
  ASSUME SettleInv, "update" \notin Ops, "publish" \notin Ops, [Next]_vars
  PROVE  SettleInv'
<1>1. TypeInv'
  BY TypeInvNext DEF SettleInv
<1>2. ASSUME NEW h \in Handler, Request(h)
      PROVE  Shapes' /\ Birth' /\ AllSettling'
  BY <1>2, RequestMoves, BirthRequest, SettlingRequest
<1>3. ASSUME NEW h \in Handler, Step(h)
      PROVE  Shapes' /\ Birth' /\ AllSettling'
  BY <1>3, StepMoves, BirthStep, SettlingStep DEF SettleInv
<1>4. ASSUME NEW h \in Handler, HandlerFails(h)
      PROVE  Shapes' /\ Birth' /\ AllSettling'
  <2>1. faults' # 0
    BY <1>4 DEF HandlerFails, SettleInv, TypeInv, TypeOK
  <2>2. QED
    BY <1>4, <2>1, BirthFailure DEF AllSettling
<1>5. ASSUME UNCHANGED vars
      PROVE  Shapes' /\ Birth' /\ AllSettling'
  <2>1. UNCHANGED <<trip, member, entry, level, events, wk, req, faults>>
    BY <1>5 DEF vars, peopleVars, privacyVars, workVars
  <2>2. Shapes' /\ Birth'
    BY <2>1 DEF SettleInv, Shapes, Birth, Creating, Idle, At, NoWork, NoEntries
  <2>3. ASSUME NEW o \in Object, Settling(o)
        PROVE  Settling(o)'
    BY <2>1, <2>3 DEF Settling, Due, WorkerHas, Agrees, Aggregate, NoWork
  <2>4. AllSettling'
    BY <2>1, <2>3 DEF SettleInv, AllSettling, Exists
  <2>5. QED
    BY <2>2, <2>4
<1>6. Shapes' /\ Birth' /\ AllSettling'
  BY <1>2, <1>3, <1>4, <1>5, NextSplit, BirthOutside, SettlingOutside
<1>7. QED
  BY <1>1, <1>6 DEF SettleInv

\* Where the whole-row writes of UpdateTrip and PublishTrip are not in play, the
\* stored levels are the aggregate of the choices made, whatever the handlers,
\* the worker and the ML service interleaved.
THEOREM Settled ==
  ASSUME "update" \notin Ops, "publish" \notin Ops
  PROVE  Spec => []LevelSettles
<1>1. SettleInv /\ [Next]_vars => SettleInv'
  BY SettleNext
<1>2. QED
  BY <1>1, SettleInit, SettleImplies, PTL DEF Spec

------------------------------------------------------------------------------
(* Public only by consent                                                   *)

\* A participant has a choice stored, or the request that took them in is
\* about to store one.
Entering(u) == \E h \in Handler : req[h].pc \in {"joinEntry", "ownerEntry"} /\ req[h].by = u
ChoicesHeld == Exists /\ faults = 0 =>
                 \A u \in member : entry[Trip][u] # "none" \/ Entering(u)

LEMMA ChoicesInit == Init => ChoicesHeld
BY DEF Init, ChoicesHeld

\* A step that neither takes in a participant nor stores a choice.
LEMMA ChoicesKept ==
  ASSUME ChoicesHeld, NEW h \in Handler, Exists' => Exists, faults' = faults, entry' = entry,
         member' \subseteq member, \A x \in Handler \ {h} : req'[x] = req[x],
         req[h].pc \notin {"joinEntry", "ownerEntry"}
  PROVE  ChoicesHeld'
BY DEF ChoicesHeld, Entering

LEMMA ChoicesStep ==
  ASSUME SettleInv, ChoicesHeld, NEW h \in Handler, Step(h)
  PROVE  ChoicesHeld'
<1> USE DEF SettleInv
<1>1. /\ entry \in [Object -> [User -> Choice \cup {"none"}]] /\ req \in [Handler -> RequestType]
      /\ Armed(req[h]) /\ member \subseteq User
  BY DEF TypeInv, TypeOK, RequestsOK
<1>2. \A x \in Handler \ {h} : req'[x] = req[x]
  BY StepMoves
<1>3. Trip \in Object
  BY DEF Object
<1>4. CASE InsertTrip(h)
  <2>1. trip = "UNUSED" /\ member' = member
    BY <1>4 DEF InsertTrip, Birth, At, Creating, CreatePcs, peopleVars
  <2>2. QED
    BY <2>1 DEF Birth, ChoicesHeld
<1>5. CASE AddOwner(h) \/ AddMember(h)
  <2> PICK b : b = req[h].by
    OBVIOUS
  <2>1. UNCHANGED <<entry, faults>> /\ (Exists' => Exists) /\ req[h].pc \notin {"joinEntry", "ownerEntry"}
    BY <1>5 DEF AddOwner, AddMember, privacyVars, Exists, At
  <2>2. CASE UNCHANGED member
    BY <1>2, <2>1, <2>2, ChoicesKept
  <2>3. CASE member' \subseteq member \cup {b} /\ (Goto(h, "joinEntry") \/ Goto(h, "ownerEntry"))
    <3>1. req'[h].pc \in {"joinEntry", "ownerEntry"} /\ req'[h].by = b
      BY <1>1, <2>3 DEF Goto, RequestType
    <3>2. Entering(b)'
      BY <3>1 DEF Entering
    <3>3. \A u : Entering(u) => Entering(u)'
      BY <1>2, <2>1 DEF Entering
    <3>4. QED
      BY <2>1, <2>3, <3>2, <3>3 DEF ChoicesHeld
  <2>4. QED
    BY <1>5, <2>2, <2>3 DEF AddOwner, AddMember
<1>6. CASE OwnerEntry(h) \/ JoinEntry(h)
  <2> PICK b : b = req[h].by
    OBVIOUS
  <2>1. b \in User
    BY <1>1, <1>6 DEF OwnerEntry, JoinEntry, At, Armed
  <2>2. UNCHANGED <<trip, member, faults>>
    BY <1>6 DEF OwnerEntry, JoinEntry, peopleVars
  <2>3. Exists => /\ entry'[Trip][b] = "private"
                  /\ \A u \in User \ {b} : entry'[Trip][u] = entry[Trip][u]
    BY <1>1, <1>3, <1>6, <2>1 DEF OwnerEntry, JoinEntry
  <2>4. \A u \in User \ {b} : Entering(u) => Entering(u)'
    BY <1>2 DEF Entering
  <2>5. QED
    BY <1>1, <2>2, <2>3, <2>4 DEF ChoicesHeld, Exists
<1>7. CASE UpsertEntry(h)
  <2> PICK b : b = req[h].by
    OBVIOUS
  <2>1. b \in User /\ req[h].lvl \in Choice /\ req[h].obj \in Object /\ req[h].pc = "entry"
    BY <1>1, <1>7 DEF UpsertEntry, At, Armed, RequestType
  <2>2. UNCHANGED <<trip, member, faults>>
    BY <1>7 DEF UpsertEntry, peopleVars
  <2>3. \A u \in User : entry[Trip][u] # "none" => entry'[Trip][u] # "none"
    BY <1>1, <1>3, <1>7, <2>1 DEF UpsertEntry, Choice
  <2>4. \A u : Entering(u) => Entering(u)'
    BY <1>2, <2>1 DEF Entering
  <2>5. QED
    BY <1>1, <2>2, <2>3, <2>4 DEF ChoicesHeld, Exists
<1>8. CASE DeleteEmptyTrip(h)
  <2>1. ~Exists' \/ (UNCHANGED <<entry, member, faults>> /\ (Exists' => Exists))
    BY <1>8 DEF DeleteEmptyTrip, DeleteRow, Exists, peopleVars
  <2>2. req[h].pc = "deleteTrip"
    BY <1>8 DEF DeleteEmptyTrip, At
  <2>3. QED
    BY <1>2, <2>1, <2>2, ChoicesKept DEF ChoicesHeld
<1>9. CASE Computing(h)
  <2>1. UNCHANGED <<entry, member, trip, faults>> /\ req[h].pc \in {"read", "set", "event"}
    BY <1>9, ReadEntriesKeeps DEF Computing, ReadEntries, SetLevel, SendEvent, privacyVars, peopleVars, At
  <2>2. QED
    BY <1>2, <2>1, ChoicesKept DEF Exists
<1>10. CASE Aside(h) /\ ~AddMember(h)
  <2>1. /\ UNCHANGED <<entry, faults>> /\ (Exists' => Exists) /\ member' \subseteq member
        /\ req[h].pc \notin {"joinEntry", "ownerEntry"}
    BY <1>10, ListLeftKeeps DEF Aside, AddFavourite, RemoveAll, SoftDelete, RemoveSelf,
       RemoveOther, Remove, ListLeft, ClearAdmin, SetAdmin, Exists, privacyVars, peopleVars, At
  <2>2. QED
    BY <1>2, <2>1, ChoicesKept
<1>11. QED
  BY <1>4, <1>5, <1>6, <1>7, <1>8, <1>9, <1>10, StepMoves DEF Step, Aside, Computing

LEMMA ChoicesNext ==
  ASSUME SettleInv, ChoicesHeld, "update" \notin Ops, "publish" \notin Ops, [Next]_vars
  PROVE  ChoicesHeld'
<1>1. ASSUME NEW h \in Handler, Request(h)
      PROVE  ChoicesHeld'
  <2>1. UNCHANGED <<trip, member, entry, faults>>
    BY <1>1, RequestKeeps DEF peopleVars, privacyVars
  <2>2. QED
    BY <1>1, <2>1, RequestMoves, ChoicesKept DEF Exists, Idle
<1>2. ASSUME NEW h \in Handler, HandlerFails(h)
      PROVE  ChoicesHeld'
  BY <1>2 DEF HandlerFails, ChoicesHeld, SettleInv, TypeInv, TypeOK
<1>3. CASE Outside
  <2>1. UNCHANGED <<trip, member, entry, faults, req>>
    BY <1>3 DEF Outside, GenerateInviteLink, RemoveFromFavourites,
       LinkExpires, MarkNSFW, WorkerRead, WorkerSet, privacyVars, peopleVars
  <2>2. QED
    BY <2>1 DEF ChoicesHeld, Exists, Entering
<1>4. CASE UNCHANGED vars
  BY <1>4 DEF vars, peopleVars, privacyVars, ChoicesHeld, Exists, Entering
<1>5. QED
  BY <1>1, <1>2, <1>3, <1>4, ChoicesStep, NextSplit

\* Without whole-row writes a trip that is public has the consent of every
\* participant, those who joined last included.
THEOREM Consent ==
  ASSUME "update" \notin Ops, "publish" \notin Ops
  PROVE  Spec => []PublicByConsent
<1>1. SettleInv /\ ChoicesHeld => PublicByConsent
  <2> SUFFICES ASSUME SettleInv, ChoicesHeld, Quiet, Exists, faults = 0, level[Trip] = "public",
                      NEW u \in member
               PROVE  entry[Trip][u] = "public"
    BY DEF PublicByConsent
  <2>1. u \in User /\ Trip \in Object /\ entry[Trip][u] \in Choice \cup {"none"}
    BY DEF SettleInv, TypeInv, TypeOK, Object
  <2>2. Aggregate(level[Trip], entry[Trip]) = "public"
    BY <2>1, SettleImplies DEF LevelSettles
  <2>3. entry[Trip][u] # "private"
    BY <2>1, <2>2 DEF Aggregate
  <2>4. entry[Trip][u] # "none"
    BY DEF ChoicesHeld, Entering, Quiet, Idle
  <2>5. QED
    BY <2>1, <2>3, <2>4 DEF Choice
<1>2. SettleInv /\ ChoicesHeld /\ [Next]_vars => SettleInv' /\ ChoicesHeld'
  BY SettleNext, ChoicesNext
<1>3. QED
  BY <1>1, <1>2, SettleInit, ChoicesInit, PTL DEF Spec

------------------------------------------------------------------------------
(* Requests that come one after the other and do not stop half-way; the     *)
(* worker, the ML service, links and favourites go on at any time.          *)

\* Clients wait for an answer, ...
OneAtATime == \E h : Handler = {h}
\* ... and no handler stops half-way.
Serial == OneAtATime /\ MaxFaults = 0

------------------------------------------------------------------------------
(* The invariant                                                            *)

OneHead == \E a \in member : admin = {a}

\* Where a handler stands while the trip has no admin.
Headless(r) ==
  \/ r.pc \in {"addOwner", "softDelete", "setAdmin", "deleteTrip"}
  \/ r.pc = "list" /\ (r.op = "delete" \/ r.flag)
  \/ r.pc = "clearAdmin" /\ r.op # "transfer"

\* The admin a request finds, and whom it is about to make admin.
Roles(r) ==
  /\ r.pc = "insertTrip" => trip = "UNUSED"
  /\ r.pc = "addOwner" => trip = "LIVE"
  /\ trip # "LIVE" => admin = {}
  /\ trip = "LIVE" => IF Headless(r) THEN admin = {} ELSE OneHead
  /\ r.pc \in {"removeSelf", "list"} => r.op \in {"delete", "leave"}
  /\ r.pc = "removeSelf" => IF r.op = "delete" THEN r.by \in admin ELSE r.flag = (r.by \in admin)
  /\ r.pc = "list" /\ (r.op = "delete" \/ r.flag) => trip = "LIVE"
  /\ r.pc = "removeOther" => r.by \in admin /\ r.who # r.by
  /\ r.pc \in {"clearAdmin", "setAdmin"} => trip = "LIVE" /\ r.who \in member

\* Who deletes the trip is the only one who saved it.
Saves(r) ==
  r.op = "delete" /\ r.pc \in {"removeSelf", "list", "deleteTrip"} => fav \subseteq {r.by}

SerialInv == /\ TypeInv
             /\ \A h \in Handler : Roles(req[h])
SavesInv  == TypeInv /\ \A h \in Handler : Saves(req[h])

------------------------------------------------------------------------------
(* How requests move                                                        *)

\* Moving on changes nothing but the place of the request.
LEMMA GotoOnly ==
  ASSUME TypeInv, NEW h \in Handler, NEW pc \in Pcs, Goto(h, pc)
  PROVE  /\ req'[h].pc = pc /\ req'[h].op = req[h].op /\ req'[h].by = req[h].by
         /\ req'[h].who = req[h].who /\ req'[h].flag = req[h].flag
BY DEF TypeInv, RequestsOK, Goto, RequestType

\* A request that ends leaves an idle slot.
LEMMA FinishOnly ==
  ASSUME TypeInv, NEW h \in Handler, Finish(h)
  PROVE  req'[h] = NoRequest /\ req'[h].pc = "idle" /\ req'[h].op = "none"
BY DEF TypeInv, RequestsOK, Finish, NoRequest

\* The places of requests that leave the roles alone.
Ordinary == {"idle", "ownerEntry", "addMember", "joinEntry", "entry", "read", "set", "event",
             "writeRow", "addFavourite", "removeAll"}

LEMMA OrdinaryRoles ==
  ASSUME TypeInv, NEW h \in Handler, Roles(req[h]),
         req[h].pc \in Ordinary, req'[h].pc \in Ordinary,
         UNCHANGED <<trip, admin>>, member \subseteq member'
  PROVE  Roles(req[h])'
BY DEF Roles, Headless, OneHead, Ordinary

\* The statements that touch no roles, but for who joins.
Plain(h) == \/ OwnerEntry(h) \/ AddMember(h) \/ JoinEntry(h) \/ UpsertEntry(h)
            \/ ReadEntries(h) \/ SetLevel(h) \/ SendEvent(h) \/ AddFavourite(h)

LEMMA PlainMoves ==
  ASSUME TypeInv, NEW h \in Handler, Plain(h)
  PROVE  /\ req[h].pc \in Ordinary \ {"writeRow"}
         /\ req'[h].pc \in Ordinary \ {"writeRow"}
         /\ UNCHANGED <<trip, admin>> /\ member \subseteq member'
<1> USE DEF Ordinary, Pcs, At, peopleVars
<1>1. CASE OwnerEntry(h) \/ SendEvent(h) \/ AddFavourite(h)
  BY <1>1, FinishOnly DEF OwnerEntry, SendEvent, AddFavourite
<1>2. CASE AddMember(h)
  BY <1>2, FinishOnly, GotoOnly DEF AddMember
<1>3. CASE JoinEntry(h) \/ UpsertEntry(h) \/ SetLevel(h)
  BY <1>3, FinishOnly, GotoOnly DEF JoinEntry, UpsertEntry, SetLevel
<1>4. CASE ReadEntries(h)
  BY <1>4, ReadEntriesKeeps DEF ReadEntries
<1>5. QED
  BY <1>1, <1>2, <1>3, <1>4 DEF Plain

------------------------------------------------------------------------------
(* Roles                                                                    *)

\* The first request finds no trip; the others find its admin or the caller's part.
LEMMA RequestRoles ==
  ASSUME TypeInv, NEW h \in Handler, Roles(req[h]), Request(h)
  PROVE  Roles(req[h])'
<1>1. /\ UNCHANGED <<trip, member, admin>> /\ req[h].pc = "idle"
  BY RequestKeeps, RequestFills DEF peopleVars, Idle
<1> DEFINE Set(r) == req' = [req EXCEPT ![h] = r]
<1>2. ASSUME NEW r, Set(r)
      PROVE  req'[h] = r
  BY <1>2 DEF TypeInv, RequestsOK
<1>3. trip # "LIVE" => admin = {}
  BY DEF Roles
<1>4. trip = "LIVE" => OneHead /\ OneHead'
  BY <1>1 DEF Roles, Headless, OneHead
<1>5. ASSUME NEW u \in User,
             \/ CreateTrip(h, u) \/ JoinTripByToken(h, u)
             \/ AddToFavourites(h, u)
      PROVE  Roles(req[h])'
  <2>1. req'[h].pc \in Ordinary \/ (req'[h].pc = "insertTrip" /\ trip = "UNUSED")
    <3>1. CreateTrip(h, u) => req'[h].pc = "insertTrip" /\ trip = "UNUSED"
      BY <1>2 DEF CreateTrip, Begin, NoRequest
    <3>2. JoinTripByToken(h, u) => req'[h].pc = "addMember"
      BY <1>2 DEF JoinTripByToken, Begin, NoRequest
    <3>3. AddToFavourites(h, u) => req'[h].pc = "addFavourite"
      BY <1>2 DEF AddToFavourites, Begin, NoRequest
    <3>4. QED
      BY <1>5, <3>1, <3>2, <3>3 DEF Ordinary
  <2>2. QED
    BY <1>1, <1>3, <1>4, <2>1 DEF Roles, Headless, Ordinary
<1>6. ASSUME NEW u \in User, UpdateTrip(h, u) \/ PublishTrip(h, u)
      PROVE  Roles(req[h])'
  <2>1. req'[h].pc = "writeRow"
    BY <1>2, <1>6 DEF UpdateTrip, PublishTrip, ReadRow, NoRequest
  <2>2. QED
    BY <1>1, <1>3, <1>4, <2>1 DEF Roles, Headless
<1>7. ASSUME NEW u \in User, NEW o \in Object, NEW l \in Choice, UpsertPrivacy(h, u, o, l)
      PROVE  Roles(req[h])'
  <2>1. req'[h].pc = "entry"
    BY <1>2, <1>7 DEF UpsertPrivacy, NoRequest
  <2>2. QED
    BY <1>1, <1>3, <1>4, <2>1 DEF Roles, Headless
<1>8. ASSUME NEW u \in User, DeleteTrip(h, u)
      PROVE  Roles(req[h])'
  <2>1. u \in admin /\ trip = "LIVE"
    BY <1>3, <1>8 DEF DeleteTrip
  <2>2. /\ req'[h].pc \in {"removeAll", "removeSelf"} /\ req'[h].op = "delete" /\ req'[h].by = u
    BY <1>2, <1>8 DEF DeleteTrip, Begin, NoRequest
  <2>3. QED
    BY <1>1, <1>4, <2>1, <2>2 DEF Roles, Headless
<1>9. ASSUME NEW u \in User, LeaveTrip(h, u)
      PROVE  Roles(req[h])'
  <2>1. /\ req'[h].pc = "removeSelf" /\ req'[h].op = "leave" /\ req'[h].by = u
        /\ req'[h].flag = (u \in admin)
    BY <1>2, <1>9 DEF LeaveTrip, NoRequest
  <2>2. QED
    BY <1>1, <1>3, <1>4, <2>1 DEF Roles, Headless
<1>10. ASSUME NEW u \in User, NEW t \in User, RemoveParticipant(h, u, t) \/ TransferAdmin(h, u, t)
       PROVE  Roles(req[h])'
  <2>1. u \in admin /\ trip = "LIVE" /\ t \in member /\ t # u
    BY <1>3, <1>10 DEF RemoveParticipant, TransferAdmin
  <2>2. /\ req'[h].by = u /\ req'[h].who = t
        /\ \/ req'[h].pc = "removeOther"
           \/ req'[h].pc = "clearAdmin" /\ req'[h].op = "transfer"
    BY <1>2, <1>10 DEF RemoveParticipant, TransferAdmin, BeginAbout, NoRequest
  <2>3. QED
    BY <1>1, <1>4, <2>1, <2>2 DEF Roles, Headless
<1>11. QED
  BY <1>5, <1>6, <1>7, <1>8, <1>9, <1>10 DEF Request

\* A new trip gets its owner as admin.
LEMMA CreationRoles ==
  ASSUME TypeInv, NEW h \in Handler, Roles(req[h]), InsertTrip(h) \/ AddOwner(h)
  PROVE  Roles(req[h])'
<1>1. CASE InsertTrip(h)
  <2>1. /\ trip = "UNUSED" /\ trip' = "LIVE" /\ UNCHANGED <<member, admin>> /\ admin = {}
    BY <1>1 DEF InsertTrip, Roles, At, peopleVars
  <2>2. req'[h].pc = "addOwner"
    BY <1>1, GotoOnly DEF InsertTrip, Pcs
  <2>3. QED
    BY <2>1, <2>2 DEF Roles, Headless
<1>2. CASE AddOwner(h)
  <2>1. /\ trip = "LIVE" /\ trip' = "LIVE" /\ member' = {req[h].by} /\ admin' = {req[h].by}
    BY <1>2 DEF AddOwner, Roles, At
  <2>2. req'[h].pc = "ownerEntry"
    BY <1>2, GotoOnly DEF AddOwner, Pcs
  <2>3. OneHead'
    BY <2>1 DEF OneHead
  <2>4. QED
    BY <2>1, <2>2, <2>3 DEF Roles, Headless
<1>3. QED
  BY <1>1, <1>2

\* Who goes hands the role over, or takes the trip along.
LEMMA RemovalRoles ==
  ASSUME TypeInv, NEW h \in Handler, Roles(req[h]),
         RemoveAll(h) \/ SoftDelete(h) \/ RemoveSelf(h) \/ RemoveOther(h)
  PROVE  Roles(req[h])'
<1> USE DEF At
<1>1. CASE RemoveAll(h)
  <2>1. trip' = trip /\ admin' = {} /\ req[h].pc = "removeAll"
    BY <1>1 DEF RemoveAll
  <2>2. req'[h].pc = "softDelete"
    BY <1>1, GotoOnly DEF RemoveAll, Pcs
  <2>3. QED
    BY <2>1, <2>2 DEF Roles, Headless
<1>2. CASE SoftDelete(h)
  <2>1. /\ UNCHANGED <<member, admin>> /\ req[h].pc = "softDelete"
        /\ trip' = IF Exists THEN "SOFT" ELSE trip
    BY <1>2 DEF SoftDelete, peopleVars
  <2>2. admin = {} /\ trip' # "LIVE"
    BY <2>1 DEF Roles, Headless, Exists
  <2>3. req'[h].pc = "idle"
    BY <1>2, FinishOnly DEF SoftDelete
  <2>4. QED
    BY <2>1, <2>2, <2>3 DEF Roles
<1>3. CASE RemoveOther(h)
  <2>1. /\ trip' = trip /\ member' = member \ {req[h].who} /\ admin' = admin \ {req[h].who}
        /\ req[h].pc = "removeOther" /\ req[h].by \in admin /\ req[h].who # req[h].by
    BY <1>3 DEF RemoveOther, Remove, Roles
  <2>2. req'[h].pc = "idle"
    BY <1>3, FinishOnly DEF RemoveOther
  <2>3. trip = "LIVE" /\ OneHead
    BY <2>1 DEF Roles, Headless
  <2>4. OneHead'
    BY <2>1, <2>3 DEF OneHead
  <2>5. QED
    BY <2>1, <2>2, <2>3, <2>4 DEF Roles, Headless
<1>4. CASE RemoveSelf(h)
  <2> DEFINE u == req[h].by
  <2>1. /\ trip' = trip /\ member' = member \ {u} /\ admin' = admin \ {u}
        /\ req[h].pc = "removeSelf" /\ req[h].op \in {"delete", "leave"}
        /\ IF u \in member THEN Goto(h, "list") ELSE Finish(h)
    BY <1>4 DEF RemoveSelf, Remove, Roles
  <2>2. admin \subseteq member
    BY DEF TypeInv, TypeOK
  <2>3. trip = "LIVE" => OneHead
    BY <2>1 DEF Roles, Headless
  <2>4. CASE u \notin member
    <3>1. req'[h].pc = "idle" /\ member' = member /\ admin' = admin
      BY <2>1, <2>2, <2>4, FinishOnly
    <3>2. QED
      BY <2>1, <2>3, <3>1 DEF Roles, Headless, OneHead
  <2>5. CASE u \in member
    <3>1. req'[h].pc = "list" /\ req'[h].op = req[h].op /\ req'[h].flag = req[h].flag
      BY <2>1, <2>5, GotoOnly DEF Pcs
    <3>2. CASE u \in admin
      <4>1. trip = "LIVE" /\ admin = {u} /\ (req[h].op = "delete" \/ req[h].flag)
        BY <2>1, <2>3, <3>2 DEF Roles, OneHead
      <4>2. QED
        BY <2>1, <3>1, <4>1 DEF Roles, Headless
    <3>3. CASE u \notin admin
      <4>1. req[h].op = "leave" /\ ~req[h].flag /\ admin' = admin
        BY <2>1, <3>3 DEF Roles
      <4>2. trip = "LIVE" => OneHead'
        BY <2>1, <2>3, <3>3, <4>1 DEF OneHead
      <4>3. QED
        BY <2>1, <3>1, <4>1, <4>2 DEF Roles, Headless
    <3>4. QED
      BY <3>2, <3>3
  <2>6. QED
    BY <2>4, <2>5
<1>5. QED
  BY <1>1, <1>2, <1>3, <1>4

\* The successor is one who is left.
LEMMA SuccessionRoles ==
  ASSUME TypeInv, NEW h \in Handler, Roles(req[h]),
         ListLeft(h) \/ DeleteEmptyTrip(h) \/ ClearAdmin(h) \/ SetAdmin(h)
  PROVE  Roles(req[h])'
<1> USE DEF At
<1>1. CASE ListLeft(h)
  <2>1. /\ UNCHANGED <<trip, member, admin>> /\ req[h].pc = "list"
        /\ req[h].op \in {"delete", "leave"}
    BY <1>1 DEF ListLeft, peopleVars, Roles
  <2>2. CASE member = {} /\ Goto(h, "deleteTrip")
    <3>1. req'[h].pc = "deleteTrip"
      BY <2>2, GotoOnly DEF Pcs
    <3>2. admin = {}
      BY <2>2 DEF TypeInv, TypeOK
    <3>3. QED
      BY <2>1, <3>1, <3>2 DEF Roles, Headless
  <2>3. ASSUME NEW t \in member, req[h].op = "delete" \/ req[h].flag,
               req' = [req EXCEPT ![h] = [@ EXCEPT !.pc = "clearAdmin", !.who = t]]
        PROVE  Roles(req[h])'
    <3>1. req'[h].pc = "clearAdmin" /\ req'[h].who = t /\ req'[h].op = req[h].op
      BY <2>3 DEF TypeInv, RequestsOK, RequestType
    <3>2. trip = "LIVE" /\ admin = {}
      BY <2>1, <2>3 DEF Roles, Headless
    <3>3. QED
      BY <2>1, <3>1, <3>2 DEF Roles, Headless
  <2>4. CASE req[h].op = "leave" /\ ~req[h].flag /\ Finish(h)
    <3>1. req'[h].pc = "idle"
      BY <2>4, FinishOnly
    <3>2. trip = "LIVE" => OneHead
      BY <2>1, <2>4 DEF Roles, Headless
    <3>3. QED
      BY <2>1, <3>1, <3>2 DEF Roles, Headless, OneHead
  <2>5. QED
    BY <1>1, <2>2, <2>3, <2>4 DEF ListLeft
<1>2. CASE DeleteEmptyTrip(h)
  <2>1. req'[h].pc = "idle" /\ req[h].pc = "deleteTrip"
    BY <1>2, FinishOnly DEF DeleteEmptyTrip
  <2>2. admin' = {} /\ trip' # "LIVE"
    BY <1>2 DEF DeleteEmptyTrip, DeleteRow, Roles, Headless, Exists, peopleVars
  <2>3. QED
    BY <2>1, <2>2 DEF Roles
<1>3. CASE ClearAdmin(h)
  <2>1. /\ UNCHANGED <<trip, member>> /\ admin' = {} /\ trip = "LIVE" /\ req[h].who \in member
    BY <1>3 DEF ClearAdmin, Roles
  <2>2. req'[h].pc = "setAdmin" /\ req'[h].who = req[h].who
    BY <1>3, GotoOnly DEF ClearAdmin, Pcs
  <2>3. QED
    BY <2>1, <2>2 DEF Roles, Headless
<1>4. CASE SetAdmin(h)
  <2>1. /\ UNCHANGED <<trip, member>> /\ admin' = admin \cup ({req[h].who} \cap member)
        /\ trip = "LIVE" /\ req[h].who \in member /\ admin = {}
    BY <1>4 DEF SetAdmin, Roles, Headless
  <2>2. req'[h].pc = "idle" /\ OneHead'
    BY <1>4, <2>1, FinishOnly DEF SetAdmin, OneHead
  <2>3. QED
    BY <2>1, <2>2 DEF Roles, Headless
<1>5. QED
  BY <1>1, <1>2, <1>3, <1>4

\* A whole handler, statement by statement, and the steps that need no request.
LEMMA RolesKept ==
  ASSUME Serial, SerialInv, [Next]_vars, NEW h \in Handler
  PROVE  Roles(req[h])'
<1>1. TypeInv /\ Roles(req[h]) /\ Handler = {h} /\ ~HandlerFails(h)
  BY DEF Serial, OneAtATime, SerialInv, HandlerFails, TypeInv, TypeOK
<1>2. CASE Step(h)
  <2>1. CASE Plain(h)
    BY <1>1, <2>1, PlainMoves, OrdinaryRoles
  <2>2. CASE WriteRow(h)
    <3>1. /\ req[h].pc = "writeRow" /\ req'[h].pc = "idle" /\ UNCHANGED <<trip, member, admin>>
      BY <1>1, <2>2, FinishOnly DEF WriteRow, At, Pcs, peopleVars
    <3>2. QED
      BY <1>1, <3>1, OrdinaryRoles DEF Ordinary
  <2>3. QED
    BY <1>1, <1>2, <2>1, <2>2, CreationRoles, RemovalRoles, SuccessionRoles DEF Step, Plain
<1>3. CASE Outside \/ UNCHANGED vars
  <2>1. UNCHANGED <<trip, member, admin, req>>
    BY <1>3 DEF Outside, GenerateInviteLink, RemoveFromFavourites,
       LinkExpires, MarkNSFW, WorkerRead, WorkerSet, vars, peopleVars
  <2>2. QED
    BY <1>1, <2>1 DEF Roles, Headless, OneHead
<1>4. QED
  BY <1>1, <1>2, <1>3, RequestRoles, NextSplit

\* The invariant holds of a trip that nobody has created yet, and of every step.
LEMMA SerialInit == Init => SerialInv
<1> SUFFICES ASSUME Init PROVE SerialInv
  OBVIOUS
<1>1. \A h \in Handler : req[h] = NoRequest
  BY DEF Init
<1>2. \A h \in Handler : req[h].pc = "idle"
  BY <1>1 DEF NoRequest
<1>3. \A h \in Handler : Roles(req[h])
  BY <1>2 DEF Init, Roles, Headless
<1>4. QED
  BY <1>3, TypeInvInit DEF SerialInv

\* Every step keeps it: one request at a time, the workers and the events beside it.
LEMMA SerialNext ==
  ASSUME Serial, SerialInv, [Next]_vars
  PROVE  SerialInv'
<1>1. TypeInv'
  BY TypeInvNext DEF SerialInv
<1>2. \A x \in Handler : Roles(req[x])'
  BY RolesKept
<1>3. QED
  BY <1>1, <1>2 DEF SerialInv

\* The invariant of the requests that come one after the other.
THEOREM SerialInvariant ==
  ASSUME Serial
  PROVE  Spec => []SerialInv
<1>1. SerialInv /\ [Next]_vars => SerialInv'
  BY SerialNext
<1>2. QED
  BY <1>1, SerialInit, PTL DEF Spec

\* Leaving, deleting, removing and transferring hand the role over: between
\* requests a live trip has one admin, who takes part in it.
THEOREM TheAdmin ==
  ASSUME Serial
  PROVE  Spec => []OneAdmin
<1>1. SerialInv => OneAdmin
  <2> SUFFICES ASSUME SerialInv, \A h \in Handler : Idle(h), trip = "LIVE"
               PROVE  Cardinality(admin) = 1 /\ admin \subseteq member
    BY DEF OneAdmin
  <2>1. PICK h : Handler = {h}
    BY DEF Serial, OneAtATime
  <2>2. OneHead
    BY <2>1 DEF SerialInv, Roles, Headless, Idle
  <2>3. PICK a \in member : admin = {a}
    BY <2>2 DEF OneHead
  <2>4. QED
    BY <2>3, FS_Singleton
<1>2. QED
  BY <1>1, SerialInvariant, PTL

------------------------------------------------------------------------------
(* Favourites                                                               *)

\* A new request that goes down the path of destruction has asked who saved the trip.
LEMMA RequestSaves ==
  ASSUME TypeInv, NEW h \in Handler, Request(h)
  PROVE  Saves(req[h])'
<1>1. UNCHANGED fav
  BY RequestKeeps
<1>2. ASSUME NEW r, req' = [req EXCEPT ![h] = r]
      PROVE  req'[h] = r
  BY <1>2 DEF TypeInv, RequestsOK
<1>3. ASSUME NEW u \in User, DeleteTrip(h, u)
      PROVE  Saves(req[h])'
  <2>1. \/ SavedByOthers(u) /\ req'[h].pc = "removeAll"
        \/ ~SavedByOthers(u) /\ req'[h].by = u
    BY <1>2, <1>3 DEF DeleteTrip, Begin, NoRequest
  <2>2. QED
    BY <1>1, <2>1 DEF Saves, SavedByOthers
<1>4. ASSUME NEW u \in User,
             \/ CreateTrip(h, u) \/ JoinTripByToken(h, u) \/ AddToFavourites(h, u) \/ LeaveTrip(h, u)
      PROVE  req'[h].op # "delete"
  BY <1>2, <1>4 DEF CreateTrip, JoinTripByToken, AddToFavourites, LeaveTrip, Begin, NoRequest
<1>5. ASSUME NEW u \in User, UpdateTrip(h, u) \/ PublishTrip(h, u)
      PROVE  req'[h].pc = "writeRow"
  BY <1>2, <1>5 DEF UpdateTrip, PublishTrip, ReadRow, NoRequest
<1>7. ASSUME NEW u \in User, NEW o \in Object, NEW l \in Choice, UpsertPrivacy(h, u, o, l)
      PROVE  req'[h].op = "privacy"
  BY <1>2, <1>7 DEF UpsertPrivacy, NoRequest
<1>8. ASSUME NEW u \in User, NEW t \in User, RemoveParticipant(h, u, t) \/ TransferAdmin(h, u, t)
      PROVE  req'[h].op # "delete"
  BY <1>2, <1>8 DEF RemoveParticipant, TransferAdmin, BeginAbout, NoRequest
<1>9. QED
  BY <1>3, <1>4, <1>5, <1>7, <1>8 DEF Request, Saves

\* A statement leads on along that path only for who is on it.
LEMMA StepSaves ==
  ASSUME TypeInv, NEW h \in Handler, Saves(req[h]), Step(h)
  PROVE  Saves(req[h])'
<1> USE DEF At, Pcs
<1>1. CASE Plain(h)
  BY <1>1, PlainMoves DEF Saves, Ordinary
<1>2. CASE \/ InsertTrip(h) \/ AddOwner(h) \/ WriteRow(h)
           \/ RemoveAll(h) \/ SoftDelete(h) \/ RemoveOther(h)
           \/ DeleteEmptyTrip(h) \/ ClearAdmin(h) \/ SetAdmin(h)
  <2>1. req'[h].pc \in {"addOwner", "ownerEntry", "idle", "softDelete", "setAdmin"}
    BY <1>2, FinishOnly, GotoOnly DEF InsertTrip, AddOwner, WriteRow, RemoveAll,
       SoftDelete, RemoveOther, DeleteEmptyTrip, ClearAdmin, SetAdmin
  <2>2. QED
    BY <2>1 DEF Saves
<1>3. CASE RemoveSelf(h)
  <2>1. /\ UNCHANGED fav /\ req[h].pc = "removeSelf"
        /\ \/ req'[h].pc = "idle"
           \/ req'[h].op = req[h].op /\ req'[h].by = req[h].by
    BY <1>3, FinishOnly, GotoOnly DEF RemoveSelf
  <2>2. QED
    BY <2>1 DEF Saves
<1>4. CASE ListLeft(h)
  <2>1. UNCHANGED fav /\ req[h].pc = "list"
    BY <1>4 DEF ListLeft
  <2>2. CASE Goto(h, "deleteTrip")
    BY <2>1, <2>2, GotoOnly DEF Saves
  <2>3. ASSUME NEW t \in member,
               req' = [req EXCEPT ![h] = [@ EXCEPT !.pc = "clearAdmin", !.who = t]]
        PROVE  Saves(req[h])'
    <3>1. req'[h].pc = "clearAdmin"
      BY <2>3 DEF TypeInv, RequestsOK, RequestType
    <3>2. QED
      BY <3>1 DEF Saves
  <2>4. CASE Finish(h)
    BY <2>4, FinishOnly DEF Saves
  <2>5. QED
    BY <1>4, <2>2, <2>3, <2>4 DEF ListLeft
<1>5. QED
  BY <1>1, <1>2, <1>3, <1>4 DEF Step, Plain

\* Nobody else saves the trip between the question and the DELETE.
LEMMA SavesNext ==
  ASSUME OneAtATime, SavesInv, [Next]_vars
  PROVE  SavesInv'
<1>1. TypeInv'
  BY TypeInvNext DEF SavesInv
<1>2. ASSUME NEW h \in Handler
      PROVE  Saves(req[h])'
  <2>1. TypeInv /\ Saves(req[h]) /\ Handler = {h}
    BY <1>2 DEF OneAtATime, SavesInv
  <2>2. CASE HandlerFails(h)
    BY <2>1, <2>2, FinishOnly DEF HandlerFails, Saves
  <2>3. CASE Outside \/ UNCHANGED vars
    <3>1. fav' \subseteq fav /\ UNCHANGED req
      BY <2>3 DEF Outside, GenerateInviteLink, RemoveFromFavourites,
         LinkExpires, MarkNSFW, WorkerRead, WorkerSet, vars
    <3>2. QED
      BY <2>1, <3>1 DEF Saves
  <2>4. QED
    BY <2>1, <2>2, <2>3, RequestSaves, StepSaves, NextSplit
<1>3. QED
  BY <1>1, <1>2 DEF SavesInv

\* DeleteTrip destroys no row that others saved: what HasFavouritesByOtherUsers
\* answered is still true at the DELETE.  Handlers may stop half-way here.
THEOREM TheSaved ==
  ASSUME OneAtATime
  PROVE  Spec => SavedSurvives
<1> DEFINE Survives ==
      \A h \in Handler :
        At(h, "deleteTrip") /\ req[h].op = "delete" /\ trip' = "GONE" /\ trip # "GONE"
          => fav \subseteq {req[h].by}
<1>1. Init => SavesInv
  <2> SUFFICES ASSUME Init PROVE \A h \in Handler : Saves(req[h])
    BY TypeInvInit DEF SavesInv
  <2>1. QED
    BY DEF Init, NoRequest, Saves
<1>2. SavesInv /\ [Next]_vars => SavesInv'
  BY SavesNext
<1>3. SavesInv => Survives
  BY DEF SavesInv, Saves, At
<1> HIDE DEF Survives
<1>4. SavesInv /\ [Next]_vars => [Survives]_vars
  BY <1>3
<1>5. SavedSurvives <=> [][Survives]_vars
  BY PTL DEF SavedSurvives, Survives
<1>6. QED
  BY <1>1, <1>2, <1>4, <1>5, PTL DEF Spec
=============================================================================
