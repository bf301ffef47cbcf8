----------------------------- MODULE TripAccess -----------------------------
(***************************************************************************)
(* Who may see and change a trip: its participants and their admin, the    *)
(* privacy each chose for the trip and its photos, the level kept on the   *)
(* object, which the handlers recompute and a worker recomputes again from *)
(* a stream, the flag that puts the trip in the feed, other users'         *)
(* favourites, and the two ways to delete the trip.  One trip; each step   *)
(* is one SQL statement or stream operation, with the reads the handler    *)
(* makes just before it.  Its cover is the matter of TripCovers.           *)
(***************************************************************************)
EXTENDS Naturals, Sequences, FiniteSets

CONSTANTS User,       \* users of the service, participants or not
          Handler,    \* requests that can be in flight at once
          Trip,       \* the trip, as an object with a privacy level
          Photo,      \* media of the trip, which the ML service may restrict
          NoUser,     \* no user
          Ops,        \* the requests clients issue
          MaxEvents,  \* bound on the length of the privacy stream
          MaxFaults   \* bound on handlers that stop half-way

ASSUME NullsAssumption == NoUser \notin User /\ Trip \notin Photo
ASSUME LimitAssumption == MaxEvents \in Nat /\ MaxFaults \in Nat

VARIABLES
  trip,       \* the row of trips: UNUSED, LIVE, SOFT (is_soft_deleted) or GONE
  member,     \* trip_participants
  admin,      \* those with is_admin
  invited,    \* an invitation link exists and has not expired
  entry,      \* trip_privacy, pin_privacy and media_privacy: a choice per user
  level,      \* privacy_level of the trip and of each photo
  published,  \* trips.is_published
  fav,        \* favourite: the users that saved the trip
  events,     \* the stream pinz:trip:privacy:events
  wk,         \* the worker: the object it has read and the level it computed
  req,        \* the requests in flight
  faults      \* handlers stopped so far

peopleVars  == <<member, admin, invited>>
privacyVars == <<entry, level>>
workVars    == <<events, wk>>
vars == <<trip, peopleVars, privacyVars, published, fav, workVars, req, faults>>

------------------------------------------------------------------------------
(* Rows and statements                                                      *)

Object == {Trip} \cup Photo
Choice == {"public", "private"}
Level  == Choice \cup {"restricted"}

Exists == trip \in {"LIVE", "SOFT"}

\* AggregatePrivacyLevel, over the rows of one object.
Aggregate(current, choice) ==
  IF current = "restricted" THEN current
  ELSE IF /\ \E u \in User : choice[u] # "none"
          /\ \A u \in User : choice[u] # "private"
       THEN "public" ELSE "private"

\* SetPrivacyLevel of the three repositories.
SetPrivacyLevel(o, l) ==
  level' = [level EXCEPT ![o] = IF @ = "restricted" THEN @ ELSE l]

\* mutant: choosing a level does not reach the stream
NoEvent(o) == UNCHANGED events
\* PublishPrivacyEvent
PublishPrivacyEvent(o) == events' = Append(events, o)

NoEntries == [o \in Object |-> [u \in User |-> "none"]]

\* DELETE FROM trips, with what it cascades to.
DeleteRow == /\ trip' = "GONE"
             /\ member' = {} /\ admin' = {} /\ invited' = FALSE
             /\ entry' = NoEntries
             /\ fav' = {}

------------------------------------------------------------------------------
(* Requests                                                                 *)

NoRequest == [op |-> "none", pc |-> "idle", by |-> NoUser, who |-> NoUser,
              obj |-> Trip, lvl |-> "private", flag |-> FALSE]

Idle(h) == req[h].pc = "idle"
At(h, pc)   == req[h].pc = pc
Goto(h, pc) == req' = [req EXCEPT ![h].pc = pc]
Finish(h)   == req' = [req EXCEPT ![h] = NoRequest]

Begin(h, op, pc, u) ==
  /\ op \in Ops
  /\ Idle(h)
  /\ req' = [req EXCEPT ![h] = [NoRequest EXCEPT !.op = op, !.pc = pc, !.by = u]]
BeginAbout(h, op, pc, u, t) ==
  /\ op \in Ops
  /\ Idle(h)
  /\ req' = [req EXCEPT ![h] = [NoRequest EXCEPT !.op = op, !.pc = pc, !.by = u, !.who = t]]

\* Bound: a request that will publish starts only if the stream has room.
InFlight  == {h \in Handler : req[h].op \in {"join", "privacy"}}
RoomLeft  == Len(events) + Cardinality(InFlight) < MaxEvents

(* CreateTrip: the row, the owner as admin, the owner's own level.          *)
CreateTrip(h, u) ==
  /\ trip = "UNUSED"
  /\ Begin(h, "create", "insertTrip", u)
  /\ UNCHANGED <<trip, peopleVars, privacyVars, published, fav, workVars, faults>>

InsertTrip(h) ==
  /\ At(h, "insertTrip")
  /\ trip' = "LIVE"
  /\ Goto(h, "addOwner")
  /\ UNCHANGED <<peopleVars, privacyVars, published, fav, workVars, faults>>

\* mutant: the owner is admin and no participant
OwnerAbsent(h) ==
  /\ At(h, "addOwner")
  /\ admin' = {req[h].by}
  /\ Goto(h, "ownerEntry")
  /\ UNCHANGED <<trip, member, invited, privacyVars, published, fav, workVars, faults>>
AddOwner(h) ==
  /\ At(h, "addOwner")
  /\ member' = {req[h].by} /\ admin' = {req[h].by}
  /\ Goto(h, "ownerEntry")
  /\ UNCHANGED <<trip, invited, privacyVars, published, fav, workVars, faults>>

OwnerEntry(h) ==
  /\ At(h, "ownerEntry")
  /\ entry' = [entry EXCEPT ![Trip][req[h].by] = IF Exists THEN "private" ELSE @]
  /\ Finish(h)
  /\ UNCHANGED <<trip, peopleVars, level, published, fav, workVars, faults>>

(* GenerateInviteLink, and the passing of expires_at.                       *)
GenerateInviteLink(u) ==
  /\ "join" \in Ops /\ u \in member
  /\ invited' = TRUE
  /\ UNCHANGED <<trip, member, admin, privacyVars, published, fav, workVars, req, faults>>

LinkExpires ==
  /\ invited' = FALSE
  /\ UNCHANGED <<trip, member, admin, privacyVars, published, fav, workVars, req, faults>>

(* JoinTripByToken.  It asks that the row exists, not that it is live.      *)
JoinTripByToken(h, u) ==
  /\ invited /\ Exists /\ u \notin member /\ RoomLeft
  /\ Begin(h, "join", "addMember", u)
  /\ UNCHANGED <<trip, peopleVars, privacyVars, published, fav, workVars, faults>>

AddMember(h) ==
  LET u == req[h].by IN
  /\ At(h, "addMember")
  /\ IF Exists /\ u \notin member
       THEN member' = member \cup {u} /\ Goto(h, "joinEntry")
       ELSE UNCHANGED member /\ Finish(h)        \* foreign key or primary key
  /\ UNCHANGED <<trip, admin, invited, privacyVars, published, fav, workVars, faults>>

(* UpsertTripPrivacy, UpsertMediaPrivacy and UpsertPinPrivacy, whose pin is *)
(* a photo that nothing restricts.                                          *)
UpsertPrivacy(h, u, o, l) ==
  /\ "privacy" \in Ops /\ Idle(h)
  /\ Exists /\ u \in member /\ level[o] # "restricted" /\ RoomLeft
  /\ req' = [req EXCEPT ![h] = [NoRequest EXCEPT !.op = "privacy", !.pc = "entry", !.by = u,
                                                 !.obj = o, !.lvl = l]]
  /\ UNCHANGED <<trip, peopleVars, privacyVars, published, fav, workVars, faults>>

\* mutant: a participant joins without a level of their own
NoDefaultLevel(h) ==
  /\ At(h, "joinEntry")
  /\ Goto(h, "read")
  /\ UNCHANGED <<trip, peopleVars, privacyVars, published, fav, workVars, faults>>
\* The default level of who has joined; its failure is only logged.
JoinEntry(h) ==
  /\ At(h, "joinEntry")
  /\ IF Exists
       THEN entry' = [entry EXCEPT ![Trip][req[h].by] = "private"] /\ Goto(h, "read")
       ELSE UNCHANGED entry /\ Finish(h)
  /\ UNCHANGED <<trip, peopleVars, level, published, fav, workVars, faults>>

UpsertEntry(h) ==
  /\ At(h, "entry")
  /\ IF Exists
       THEN /\ entry' = [entry EXCEPT ![req[h].obj][req[h].by] = req[h].lvl]
            /\ Goto(h, "read")
       ELSE UNCHANGED entry /\ Finish(h)
  /\ UNCHANGED <<trip, peopleVars, level, published, fav, workVars, faults>>

\* The entries are read and aggregated, an upsert with the level it read at
\* the start, which was not restricted; joining writes only what differs.
ReadEntries(h) ==
  LET o == req[h].obj
      effective == Aggregate(IF req[h].op = "join" THEN level[o] ELSE "private", entry[o]) IN
  /\ At(h, "read")
  /\ req' = [req EXCEPT ![h] = [@ EXCEPT !.lvl = effective,
                                         !.pc = IF req[h].op = "join" /\ effective = level[o]
                                                  THEN "event" ELSE "set"]]
  /\ UNCHANGED <<trip, peopleVars, privacyVars, published, fav, workVars, faults>>

\* An upsert stops when no row was updated, which joining ignores.
SetLevel(h) ==
  LET o == req[h].obj IN
  /\ At(h, "set")
  /\ IF Exists THEN SetPrivacyLevel(o, req[h].lvl) ELSE UNCHANGED level
  /\ IF (Exists /\ level[o] # "restricted") \/ req[h].op = "join"
       THEN Goto(h, "event") ELSE Finish(h)
  /\ UNCHANGED <<trip, peopleVars, entry, published, fav, workVars, faults>>

SendEvent(h) ==
  /\ At(h, "event")
  /\ PublishPrivacyEvent(req[h].obj)
  /\ Finish(h)
  /\ UNCHANGED <<trip, peopleVars, privacyVars, published, fav, wk, faults>>

(* processPrivacyEvents: the entries of the object, then its level.         *)
NoWork == [obj |-> Trip, lvl |-> "none"]

WorkerRead ==
  LET o == Head(events) IN
  /\ wk = NoWork /\ events # <<>>
  /\ events' = Tail(events)
  /\ wk' = IF Exists THEN [obj |-> o, lvl |-> Aggregate(level[o], entry[o])] ELSE NoWork
  /\ UNCHANGED <<trip, peopleVars, privacyVars, published, fav, req, faults>>

WorkerSet ==
  /\ wk # NoWork
  /\ IF Exists THEN SetPrivacyLevel(wk.obj, wk.lvl) ELSE UNCHANGED level
  /\ wk' = NoWork
  /\ UNCHANGED <<trip, peopleVars, entry, published, fav, events, req, faults>>

\* MarkNSFW: the ML service finds a photo unfit, at any time.
MarkNSFW(o) ==
  /\ "nsfw" \in Ops /\ Exists
  /\ level' = [level EXCEPT ![o] = "restricted"]
  /\ UNCHANGED <<trip, peopleVars, entry, published, fav, workVars, req, faults>>

(* UpdateTrip and PublishTrip: read the row, change some of it, write back  *)
(* the level and the flag with the rest.  The edits of a review, made by    *)
(* FinalizeTrip and AddMediaConfirm, do as UpdateTrip does.                 *)
ReadRow(h, op, u, flag) ==
  /\ op \in Ops /\ Idle(h)
  /\ Exists /\ u \in member
  /\ req' = [req EXCEPT ![h] = [NoRequest EXCEPT !.op = op, !.pc = "writeRow", !.by = u,
                                 !.lvl = level[Trip], !.flag = flag]]
  /\ UNCHANGED <<trip, peopleVars, privacyVars, published, fav, workVars, faults>>

UpdateTrip(h, u)  == ReadRow(h, "update", u, published)
PublishTrip(h, u) == level[Trip] = "public" /\ ~published /\ ReadRow(h, "publish", u, TRUE)

WriteRow(h) ==
  /\ At(h, "writeRow")
  /\ IF Exists
       THEN /\ level' = [level EXCEPT ![Trip] = req[h].lvl]
            /\ published' = req[h].flag
       ELSE UNCHANGED <<level, published>>
  /\ Finish(h)
  /\ UNCHANGED <<trip, peopleVars, entry, fav, workVars, faults>>

(* AddToFavourites and RemoveFromFavourites.                                *)
AddToFavourites(h, u) ==
  /\ Exists /\ published
  /\ Begin(h, "save", "addFavourite", u)
  /\ UNCHANGED <<trip, peopleVars, privacyVars, published, fav, workVars, faults>>

AddFavourite(h) ==
  /\ At(h, "addFavourite")
  /\ fav' = IF Exists THEN fav \cup {req[h].by} ELSE fav
  /\ Finish(h)
  /\ UNCHANGED <<trip, peopleVars, privacyVars, published, workVars, faults>>

RemoveFromFavourites(u) ==
  /\ fav' = fav \ {u}
  /\ UNCHANGED <<trip, peopleVars, privacyVars, published, workVars, req, faults>>

(* DeleteTrip, LeaveTrip, RemoveParticipant, TransferAdmin.                 *)
\* mutant: whose favourites are not asked
NeverSaved(u) == FALSE
\* HasFavouritesByOtherUsers
SavedByOthers(u) == fav \ {u} # {}

DeleteTrip(h, u) ==
  /\ u \in admin
  /\ Begin(h, "delete", IF SavedByOthers(u) THEN "removeAll" ELSE "removeSelf", u)
  /\ UNCHANGED <<trip, peopleVars, privacyVars, published, fav, workVars, faults>>

\* mutant: the caller's admin flag is not remembered
LeaveAsMember(h, u) ==
  /\ u \in member
  /\ Begin(h, "leave", "removeSelf", u)
  /\ UNCHANGED <<trip, peopleVars, privacyVars, published, fav, workVars, faults>>
LeaveTrip(h, u) ==
  /\ "leave" \in Ops /\ Idle(h)
  /\ u \in member
  /\ req' = [req EXCEPT ![h] = [NoRequest EXCEPT !.op = "leave", !.pc = "removeSelf", !.by = u,
                                                 !.flag = u \in admin]]
  /\ UNCHANGED <<trip, peopleVars, privacyVars, published, fav, workVars, faults>>

RemoveParticipant(h, u, t) ==
  /\ u \in admin /\ t \in member /\ t # u
  /\ BeginAbout(h, "remove", "removeOther", u, t)
  /\ UNCHANGED <<trip, peopleVars, privacyVars, published, fav, workVars, faults>>

TransferAdmin(h, u, t) ==
  /\ u \in admin /\ t \in member /\ t # u
  /\ BeginAbout(h, "transfer", "clearAdmin", u, t)
  /\ UNCHANGED <<trip, peopleVars, privacyVars, published, fav, workVars, faults>>

RemoveAll(h) ==
  /\ At(h, "removeAll")
  /\ member' = {} /\ admin' = {}
  /\ Goto(h, "softDelete")
  /\ UNCHANGED <<trip, invited, privacyVars, published, fav, workVars, faults>>

SoftDelete(h) ==
  /\ At(h, "softDelete")
  /\ trip' = IF Exists THEN "SOFT" ELSE trip
  /\ Finish(h)
  /\ UNCHANGED <<peopleVars, privacyVars, published, fav, workVars, faults>>

\* DELETE FROM trip_participants of one user; no row is an error.
Remove(h, u) == member' = member \ {u} /\ admin' = admin \ {u}

RemoveSelf(h) ==
  LET u == req[h].by IN
  /\ At(h, "removeSelf")
  /\ Remove(h, u)
  /\ IF u \in member THEN Goto(h, "list") ELSE Finish(h)
  /\ UNCHANGED <<trip, invited, privacyVars, published, fav, workVars, faults>>

RemoveOther(h) ==
  /\ At(h, "removeOther")
  /\ Remove(h, req[h].who)
  /\ Finish(h)
  /\ UNCHANGED <<trip, invited, privacyVars, published, fav, workVars, faults>>

\* Who is left: nobody, or any of them first.
ListLeft(h) ==
  /\ At(h, "list")
  /\ \/ member = {} /\ Goto(h, "deleteTrip")
     \/ /\ req[h].op = "delete" \/ req[h].flag
        /\ \E t \in member : req' = [req EXCEPT ![h] = [@ EXCEPT !.pc = "clearAdmin", !.who = t]]
     \/ member # {} /\ req[h].op = "leave" /\ ~req[h].flag /\ Finish(h)
  /\ UNCHANGED <<trip, peopleVars, privacyVars, published, fav, workVars, faults>>

DeleteEmptyTrip(h) ==
  /\ At(h, "deleteTrip")
  /\ IF Exists THEN DeleteRow ELSE UNCHANGED <<trip, peopleVars, entry, fav>>
  /\ Finish(h)
  /\ UNCHANGED <<level, published, workVars, faults>>

\* SetAdmin: two statements.
ClearAdmin(h) ==
  /\ At(h, "clearAdmin")
  /\ admin' = {}
  /\ Goto(h, "setAdmin")
  /\ UNCHANGED <<trip, member, invited, privacyVars, published, fav, workVars, faults>>

SetAdmin(h) ==
  /\ At(h, "setAdmin")
  /\ admin' = admin \cup ({req[h].who} \cap member)
  /\ Finish(h)
  /\ UNCHANGED <<trip, member, invited, privacyVars, published, fav, workVars, faults>>

\* An error, a cancelled context or a crash between two statements.
HandlerFails(h) ==
  /\ faults < MaxFaults /\ ~Idle(h)
  /\ faults' = faults + 1
  /\ Finish(h)
  /\ UNCHANGED <<trip, peopleVars, privacyVars, published, fav, workVars>>

------------------------------------------------------------------------------
(* Specification                                                            *)

Init ==
  /\ trip = "UNUSED"
  /\ member = {} /\ admin = {} /\ invited = FALSE
  /\ entry = NoEntries
  /\ level = [o \in Object |-> "private"]
  /\ published = FALSE
  /\ fav = {}
  /\ events = <<>>
  /\ wk = NoWork
  /\ req = [h \in Handler |-> NoRequest]
  /\ faults = 0

\* The answer of CreateTrip names the trip: until then nobody asks about it.
Request(h) ==
  /\ \A x \in Handler : req[x].op # "create"
  /\ \E u \in User :
       \/ CreateTrip(h, u) \/ JoinTripByToken(h, u)
       \/ UpdateTrip(h, u) \/ PublishTrip(h, u)
       \/ AddToFavourites(h, u) \/ DeleteTrip(h, u) \/ LeaveTrip(h, u)
       \/ \E o \in Object, l \in Choice : UpsertPrivacy(h, u, o, l)
       \/ \E t \in User : RemoveParticipant(h, u, t) \/ TransferAdmin(h, u, t)

Step(h) ==
  \/ InsertTrip(h) \/ AddOwner(h) \/ OwnerEntry(h)
  \/ AddMember(h) \/ JoinEntry(h) \/ UpsertEntry(h)
  \/ ReadEntries(h) \/ SetLevel(h) \/ SendEvent(h)
  \/ WriteRow(h) \/ AddFavourite(h)
  \/ RemoveAll(h) \/ SoftDelete(h) \/ RemoveSelf(h) \/ RemoveOther(h)
  \/ ListLeft(h) \/ DeleteEmptyTrip(h) \/ ClearAdmin(h) \/ SetAdmin(h)

Next ==
  \/ \E h \in Handler : Request(h) \/ Step(h) \/ HandlerFails(h)
  \/ \E u \in User : GenerateInviteLink(u) \/ RemoveFromFavourites(u)
  \/ LinkExpires
  \/ \E o \in Photo : MarkNSFW(o)
  \/ WorkerRead \/ WorkerSet

Spec == Init /\ [][Next]_vars

------------------------------------------------------------------------------
(* Properties                                                               *)

Pcs == {"idle", "insertTrip", "addOwner", "ownerEntry", "addMember", "joinEntry", "entry",
        "read", "set", "event", "writeRow", "addFavourite",
        "removeAll", "softDelete", "removeSelf", "removeOther", "list", "deleteTrip",
        "clearAdmin", "setAdmin"}

RequestType ==
  [op : {"none", "create", "join", "privacy", "update", "publish", "save",
         "delete", "leave", "remove", "transfer"},
   pc : Pcs, by : User \cup {NoUser}, who : User \cup {NoUser}, obj : Object,
   lvl : Level, flag : BOOLEAN]

\* The types of the rows, the stream, the worker and the requests.
TypeOK ==
  /\ trip \in {"UNUSED", "LIVE", "SOFT", "GONE"}
  /\ member \subseteq User /\ admin \subseteq member /\ invited \in BOOLEAN
  /\ entry \in [Object -> [User -> Choice \cup {"none"}]]
  /\ level \in [Object -> Level]
  /\ published \in BOOLEAN
  /\ fav \subseteq User
  /\ events \in Seq(Object) /\ wk \in [obj : Object, lvl : Level \cup {"none"}]
  /\ req \in [Handler -> RequestType]
  /\ faults \in 0..MaxFaults

Quiet == /\ \A h \in Handler : Idle(h)
         /\ events = <<>> /\ wk = NoWork

\* Whatever the handlers and the worker interleaved, once none is at work
\* the stored level of the trip and of each photo is the aggregate of the choices
\* users made: no recomputation from old entries stays (UpsertTripPrivacy's
\* comment: the worker recomputes as a fallback).  Not after a handler stopped
\* between a choice and its event.
LevelSettles ==
  Quiet /\ Exists /\ faults = 0 => \A o \in Object : level[o] = Aggregate(level[o], entry[o])

\* A trip is not left public over a participant who did not choose public: who
\* joins makes it private until they say otherwise.
PublicByConsent ==
  Quiet /\ Exists /\ faults = 0 /\ level[Trip] = "public" =>
    \A u \in member : entry[Trip][u] = "public"

\* A photo found unfit stays restricted, also when a choice made before is
\* still being written by a handler or by the worker.
RestrictedForGood ==
  [][\A o \in Photo : level[o] = "restricted" => level'[o] = "restricted"]_vars

\* Outside a request, a live trip has exactly one admin, who takes part in it:
\* leaving, deleting, removing and transferring hand the role over, and who is
\* last to leave takes the trip along.
OneAdmin ==
  (\A h \in Handler : Idle(h)) /\ trip = "LIVE" => Cardinality(admin) = 1 /\ admin \subseteq member

\* DeleteTrip never destroys the row of a trip that others have saved: they
\* keep a soft-deleted one.
SavedSurvives ==
  [][\A h \in Handler :
       At(h, "deleteTrip") /\ req[h].op = "delete" /\ trip' = "GONE" /\ trip # "GONE"
         => fav \subseteq {req[h].by}]_vars
=============================================================================
