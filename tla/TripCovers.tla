----------------------------- MODULE TripCovers -----------------------------
(***************************************************************************)
(* The cover of a trip: cover_url in its row and the object it names in    *)
(* S3.  A client uploads a cover of its own and confirms it, which deletes *)
(* the object of the cover before; a review without a cover takes the      *)
(* first photo, whose object belongs to a row of media; photos are deleted *)
(* by their own requests; and who writes the whole row writes back the     *)
(* cover it read.  One trip; each step is one SQL statement or S3 call,    *)
(* with the reads the handler makes just before it.                        *)
(***************************************************************************)
EXTENDS Naturals, FiniteSets

CONSTANTS Handler,    \* requests that can be in flight at once
          Key,        \* S3 keys of uploaded covers
          Photo,      \* S3 keys of the images of pins
          NoKey,      \* the empty cover_url
          Mixes,      \* what clients do in a behaviour: one of these sets of operations
          MaxFaults   \* bound on handlers that stop half-way

ASSUME KeysAssumption  == Key \cap Photo = {} /\ NoKey \notin Key \cup Photo
ASSUME FaultAssumption == MaxFaults \in Nat

VARIABLES
  exists,     \* the row of the trip
  cover,      \* trips.cover_url
  photos,     \* the photos that have a row of media, in a pin
  upload,     \* per key: UNUSED, uploaded, confirmed once, again, or when it was gone
  objects,    \* keys that exist in S3
  req,        \* the requests in flight
  faults,     \* handlers stopped so far
  ops         \* the operations of this behaviour

vars == <<ops, exists, cover, photos, upload, objects, req, faults>>

------------------------------------------------------------------------------
(* Requests.  Their callers are participants, as TripAccess has it.         *)

Object == Key \cup Photo

\* key: the cover the request will write; old: the object it will delete.
NoRequest == [op |-> "none", pc |-> "idle", key |-> NoKey, old |-> NoKey]

Idle(h)     == req[h].pc = "idle"
At(h, pc)   == req[h].pc = pc
Goto(h, pc) == req' = [req EXCEPT ![h].pc = pc]
Finish(h)   == req' = [req EXCEPT ![h] = NoRequest]

\* Requests run at once, or one after the other where the mix has "serial".
Begin(h, op, pc, key, old) ==
  /\ op \in ops
  /\ Idle(h) /\ exists
  /\ "serial" \in ops => \A g \in Handler : Idle(g)
  /\ req' = [req EXCEPT ![h] = [op |-> op, pc |-> pc, key |-> key, old |-> old]]

\* RequestTripCoverUpload and the client's PUT to S3, one step: a key that
\* was never uploaded is never confirmed.
RequestTripCoverUpload(k) ==
  /\ exists /\ upload[k] = "UNUSED"
  /\ upload' = [upload EXCEPT ![k] = "uploaded"]
  /\ objects' = objects \cup {k}
  /\ UNCHANGED <<ops, exists, cover, photos, req, faults>>

\* A photo is uploaded and attached to a pin, by the flows of the other modules.
AddPhoto(p) ==
  /\ exists /\ upload[p] = "UNUSED"
  /\ upload' = [upload EXCEPT ![p] = "uploaded"]
  /\ objects' = objects \cup {p}
  /\ photos' = photos \cup {p}
  /\ UNCHANGED <<ops, exists, cover, req, faults>>

\* How a key stands once it is confirmed.
Confirmed(k) == IF upload[k] = "uploaded" THEN "confirmed"
                ELSE IF k \in objects THEN "again" ELSE "stale"

\* ConfirmTripCoverUpload, of any key and any number of times: the row is read.
ConfirmTripCoverUpload(h, k) ==
  /\ upload[k] # "UNUSED"
  /\ upload' = [upload EXCEPT ![k] = Confirmed(k)]
  /\ Begin(h, "confirm", "dropObject", k, cover)
  /\ UNCHANGED <<ops, exists, cover, photos, objects, faults>>

DeleteTripCover(h) ==
  /\ Begin(h, "delete", "dropObject", NoKey, cover)
  /\ UNCHANGED <<ops, exists, cover, photos, upload, objects, faults>>

\* UpdateTrip and PublishTrip read the row to change something else in it.
UpdateTrip(h) ==
  /\ Begin(h, "update", "writeRow", cover, NoKey)
  /\ UNCHANGED <<ops, exists, cover, photos, upload, objects, faults>>

\* FinalizeTrip and AddMediaConfirm: the row is read, photos may be deleted.
ReviewTrip(h) ==
  /\ \/ Begin(h, "review", "firstImage", cover, NoKey)
     \/ \E p \in photos : Begin(h, "review", "deleteRow", cover, p)
  /\ UNCHANGED <<ops, exists, cover, photos, upload, objects, faults>>

\* RemoveMediaFromPin, and DeletePin of a pin with one photo.
RemoveMediaFromPin(h) ==
  /\ \E p \in photos : Begin(h, "remove", "deleteRow", NoKey, p)
  /\ UNCHANGED <<ops, exists, cover, photos, upload, objects, faults>>

------------------------------------------------------------------------------
(* Their statements                                                         *)

DeletePhotoRow(h) ==
  /\ At(h, "deleteRow")
  /\ photos' = photos \ {req[h].old}
  /\ Goto(h, "dropObject")
  /\ UNCHANGED <<ops, exists, cover, upload, objects, faults>>

\* mutant: a key that is confirmed again loses its own object
HasAnyOld(r) == r.old # NoKey
\* The object to delete: for a confirmation, not that of the key it will write.
HasOld(r) == r.old # NoKey /\ (r.op = "confirm" => r.old # r.key)

AfterDrop(op) == CASE op \in {"confirm", "delete"} -> "setCover"
                   [] op = "review" -> "firstImage"
                   [] OTHER -> "idle"

\* mutant: the object of the new cover goes
DropNewObject(h) ==
  /\ At(h, "dropObject")
  /\ objects' = objects \ {req[h].key}
  /\ IF req[h].op = "remove" THEN Finish(h) ELSE Goto(h, AfterDrop(req[h].op))
  /\ UNCHANGED <<ops, exists, cover, photos, upload, faults>>
\* Deletions of objects are best effort: one that fails is logged.
DropObject(h) ==
  /\ At(h, "dropObject")
  /\ \/ UNCHANGED objects
     \/ HasOld(req[h]) /\ objects' = objects \ {req[h].old}
  /\ IF req[h].op = "remove" THEN Finish(h) ELSE Goto(h, AfterDrop(req[h].op))
  /\ UNCHANGED <<ops, exists, cover, photos, upload, faults>>

\* UpdateCoverURL; no row is an error.
SetCover(h) ==
  /\ At(h, "setCover")
  /\ cover' = IF exists THEN req[h].key ELSE cover
  /\ Finish(h)
  /\ UNCHANGED <<ops, exists, photos, upload, objects, faults>>

\* applyReviewEdits: a trip that had no cover gets the first media, if an image.
FirstImage(h) ==
  /\ At(h, "firstImage")
  /\ \E k \in IF req[h].key = NoKey THEN photos \cup {NoKey} ELSE {req[h].key} :
       req' = [req EXCEPT ![h] = [@ EXCEPT !.key = k, !.pc = "writeRow"]]
  /\ UNCHANGED <<ops, exists, cover, photos, upload, objects, faults>>

\* TripRepository.Update, of which only the cover is kept here.
WriteRow(h) ==
  /\ At(h, "writeRow")
  /\ cover' = IF exists THEN req[h].key ELSE cover
  /\ Finish(h)
  /\ UNCHANGED <<ops, exists, photos, upload, objects, faults>>

\* The row of the trip is deleted, as TripAccess has it, with its media.
TripGoes ==
  /\ exists
  /\ exists' = FALSE /\ photos' = {}
  /\ UNCHANGED <<ops, cover, upload, objects, req, faults>>

\* An error, a cancelled context or a crash between two statements.
HandlerFails(h) ==
  /\ faults < MaxFaults /\ ~Idle(h)
  /\ faults' = faults + 1
  /\ Finish(h)
  /\ UNCHANGED <<ops, exists, cover, photos, upload, objects>>

------------------------------------------------------------------------------
(* Specification                                                            *)

\* A trip that has been created: without a cover, with no photo yet.
Init ==
  /\ exists = TRUE
  /\ cover = NoKey
  /\ photos = {}
  /\ upload = [o \in Object |-> "UNUSED"]
  /\ objects = {}
  /\ req = [h \in Handler |-> NoRequest]
  /\ faults = 0
  /\ ops \in Mixes

Request(h) ==
  \/ \E k \in Key : ConfirmTripCoverUpload(h, k)
  \/ DeleteTripCover(h) \/ UpdateTrip(h) \/ ReviewTrip(h) \/ RemoveMediaFromPin(h)

Step(h) == \/ DeletePhotoRow(h) \/ DropObject(h) \/ SetCover(h)
           \/ FirstImage(h) \/ WriteRow(h)

Next ==
  \/ \E h \in Handler : Request(h) \/ Step(h) \/ HandlerFails(h)
  \/ \E k \in Key : RequestTripCoverUpload(k)
  \/ \E p \in Photo : AddPhoto(p)
  \/ TripGoes

Spec == Init /\ [][Next]_vars

------------------------------------------------------------------------------
(* Properties                                                               *)

RequestType ==
  [op  : {"none", "confirm", "delete", "update", "review", "remove"},
   pc  : {"idle", "deleteRow", "dropObject", "setCover", "firstImage", "writeRow"},
   key : Object \cup {NoKey}, old : Object \cup {NoKey}]

\* The types of the rows, of S3 and of the requests.
TypeOK ==
  /\ ops \in Mixes
  /\ exists \in BOOLEAN
  /\ cover \in Object \cup {NoKey}
  /\ photos \subseteq Photo
  /\ upload \in [Object -> {"UNUSED", "uploaded", "confirmed", "again", "stale"}]
  /\ objects \subseteq Object
  /\ req \in [Handler -> RequestType]
  /\ faults \in 0..MaxFaults

\* No request is in flight, and none stopped between S3 and the row.
AtRest == exists /\ faults = 0 /\ \A h \in Handler : Idle(h)

\* Whatever confirmations of different keys and deletions of the cover were at
\* work at once, each deleting the object it read before it writes cover_url,
\* a cover that was confirmed once exists in S3 when all are done.  It takes
\* that nobody writes back the whole row meanwhile (UpdateTrip, PublishTrip, a
\* review), and that nobody confirms the key of a cover another replaces.
CoverExists ==
  {"update", "review"} \cap ops = {} =>
    (AtRest /\ cover \in Key /\ upload[cover] = "confirmed" => cover \in objects)

\* With one request at a time, of every kind, a cover that existed when it was
\* last confirmed still does, however often it was confirmed, updated and
\* reviewed around it: what a confirmation deletes is never the key it sets.
\* A key confirmed after its object was replaced is another matter, and so is a
\* photo that became the cover.
CoverStays ==
  "serial" \in ops =>
    (AtRest /\ cover \in Key /\ upload[cover] \in {"confirmed", "again"} => cover \in objects)

\* A photo that is shown in a pin has its object: what ConfirmTripCoverUpload
\* deletes with the old cover is garbage, as its comment says.
PhotosKept == AtRest => photos \subseteq objects

\* Whatever the cover of the row is, a key or a photo, its object is there.
CoverShown == AtRest /\ cover # NoKey => cover \in objects
=============================================================================
