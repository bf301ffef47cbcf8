-------------------------- MODULE TripCoversProofs --------------------------
(***************************************************************************)
(* What TripCovers guarantees for every number of keys, photos and         *)
(* failures: a cover confirmed once survives any number of requests at     *)
(* once that do not write the whole row, and a cover confirmed any number  *)
(* of times survives requests of every kind, one after the other.          *)
(***************************************************************************)
EXTENDS TripCovers, TLAPS

------------------------------------------------------------------------------
(* Types                                                                    *)

RowsOK == /\ ops \in Mixes
          /\ exists \in BOOLEAN
          /\ cover \in Object \cup {NoKey}
          /\ photos \subseteq Photo
          /\ upload \in [Object -> {"UNUSED", "uploaded", "confirmed", "again", "stale"}]
          /\ objects \subseteq Object
          /\ faults \in 0..MaxFaults

\* What the next statement of a request relies on.
Armed(r) ==
  /\ r.op \in {"none", "delete", "remove"} => r.key = NoKey
  /\ r.op \in {"update", "review"} /\ r.old # NoKey => r.old \in Photo
  /\ r.op = "remove" => r.old \in Photo
  /\ r.pc = "idle" => r.op = "none" /\ r.old = NoKey
  /\ r.pc = "deleteRow" => r.op \in {"review", "remove"}
  /\ r.pc = "firstImage" => r.op = "review"
  /\ r.pc = "dropObject" => r.op \in {"confirm", "delete", "review", "remove"}
  /\ r.pc = "setCover" => r.op \in {"confirm", "delete"}
  /\ r.pc = "writeRow" => r.op \in {"update", "review"}
Requests == /\ req \in [Handler -> RequestType]
            /\ \A h \in Handler : Armed(req[h])
TypeInv  == RowsOK /\ Requests

\* What clients do in a behaviour is fixed.
LEMMA OpsStay == ASSUME [Next]_vars PROVE ops' = ops
BY DEF Next, vars, Request, ConfirmTripCoverUpload, DeleteTripCover, UpdateTrip, ReviewTrip,
       RemoveMediaFromPin, Step, DeletePhotoRow, DropObject, SetCover, FirstImage, WriteRow,
       HandlerFails, RequestTripCoverUpload, AddPhoto, TripGoes

\* The call of a client fills an idle slot, of a trip that exists.
LEMMA BeginFills ==
  ASSUME TypeInv, NEW h \in Handler, NEW op, NEW pc, NEW key, NEW old, Begin(h, op, pc, key, old)
  PROVE  /\ req[h].pc = "idle" /\ exists /\ op \in ops
         /\ "serial" \in ops => \A x \in Handler : req[x].pc = "idle"
         /\ req'[h].op = op /\ req'[h].pc = pc /\ req'[h].key = key /\ req'[h].old = old
         /\ \A x \in Handler \ {h} : req'[x] = req[x]
         /\ op \in {"confirm", "delete", "update", "review", "remove"}
            /\ pc \in {"dropObject", "writeRow", "firstImage", "deleteRow"}
            /\ key \in Object \cup {NoKey} /\ old \in Object \cup {NoKey}
              => req' \in [Handler -> RequestType]
BY DEF TypeInv, Requests, Begin, Idle, RequestType

\* What each call puts in the slot.
LEMMA RequestFills ==
  ASSUME TypeInv, NEW h \in Handler, Request(h)
  PROVE  /\ UNCHANGED <<exists, cover, photos, objects, faults>> /\ exists /\ req[h].pc = "idle"
         /\ "serial" \in ops => \A x \in Handler : req[x].pc = "idle"
         /\ req' \in [Handler -> RequestType]
         /\ \A x \in Handler \ {h} : req'[x] = req[x]
         /\ \/ /\ req'[h].op = "confirm" /\ req'[h].pc = "dropObject" /\ req'[h].old = cover
               /\ req'[h].key \in Key /\ upload[req'[h].key] # "UNUSED"
               /\ upload' = [upload EXCEPT ![req'[h].key] = Confirmed(req'[h].key)]
            \/ /\ req'[h].op = "delete" /\ req'[h].pc = "dropObject"
               /\ req'[h].key = NoKey /\ req'[h].old = cover /\ UNCHANGED upload
            \/ /\ req'[h].op = "update" /\ req'[h].pc = "writeRow" /\ "update" \in ops
               /\ req'[h].key = cover /\ req'[h].old = NoKey /\ UNCHANGED upload
            \/ /\ req'[h].op = "review" /\ req'[h].pc \in {"deleteRow", "firstImage"} /\ "review" \in ops
               /\ req'[h].key = cover /\ req'[h].old \in Photo \cup {NoKey} /\ UNCHANGED upload
            \/ /\ req'[h].op = "remove" /\ req'[h].pc = "deleteRow"
               /\ req'[h].key = NoKey /\ req'[h].old \in Photo /\ UNCHANGED upload
<1> USE DEF Object
<1>1. cover \in Object \cup {NoKey} /\ photos \subseteq Photo
  BY DEF TypeInv, RowsOK
<1>2. ASSUME NEW k \in Key, ConfirmTripCoverUpload(h, k)
      PROVE  /\ UNCHANGED <<exists, cover, photos, objects, faults>> /\ exists /\ req[h].pc = "idle"
             /\ "serial" \in ops => \A x \in Handler : req[x].pc = "idle"
             /\ req' \in [Handler -> RequestType]
             /\ \A x \in Handler \ {h} : req'[x] = req[x]
             /\ req'[h].op = "confirm" /\ req'[h].pc = "dropObject" /\ req'[h].old = cover
             /\ req'[h].key = k /\ upload[k] # "UNUSED"
             /\ upload' = [upload EXCEPT ![k] = Confirmed(k)]
  BY <1>1, <1>2, BeginFills DEF ConfirmTripCoverUpload
<1>3. CASE DeleteTripCover(h)
  BY <1>1, <1>3, BeginFills DEF DeleteTripCover
<1>4. CASE UpdateTrip(h)
  BY <1>1, <1>4, BeginFills DEF UpdateTrip
<1>5. CASE ReviewTrip(h)
  BY <1>1, <1>5, BeginFills DEF ReviewTrip
<1>6. CASE RemoveMediaFromPin(h)
  BY <1>1, <1>6, BeginFills DEF RemoveMediaFromPin
<1>7. QED
  BY <1>2, <1>3, <1>4, <1>5, <1>6 DEF Request

\* A request that goes on, and one that ends.
LEMMA GotoOnly ==
  ASSUME TypeInv, NEW h \in Handler, NEW pc, Goto(h, pc)
  PROVE  /\ req'[h].pc = pc /\ req'[h].op = req[h].op
         /\ req'[h].key = req[h].key /\ req'[h].old = req[h].old
         /\ \A x \in Handler \ {h} : req'[x] = req[x]
         /\ pc \in {"dropObject", "setCover", "firstImage"} => req' \in [Handler -> RequestType]
BY DEF TypeInv, Requests, Goto, RequestType

LEMMA FinishOnly ==
  ASSUME TypeInv, NEW h \in Handler, Finish(h)
  PROVE  /\ req'[h].pc = "idle" /\ req'[h].op = "none"
         /\ req'[h].key = NoKey /\ req'[h].old = NoKey
         /\ \A x \in Handler \ {h} : req'[x] = req[x]
         /\ req' \in [Handler -> RequestType]
<1>1. NoRequest \in RequestType /\ NoRequest.pc = "idle" /\ NoRequest.op = "none"
      /\ NoRequest.key = NoKey /\ NoRequest.old = NoKey
  BY DEF NoRequest, RequestType
<1> QED
  BY <1>1 DEF TypeInv, Requests, Finish

\* What each statement does to the rows, S3 and its request.
LEMMA StepMoves ==
  ASSUME TypeInv, NEW h \in Handler, Step(h)
  PROVE  /\ UNCHANGED <<exists, upload, faults>> /\ req[h].pc # "idle"
         /\ req' \in [Handler -> RequestType]
         /\ \A x \in Handler \ {h} : req'[x] = req[x]
         /\ photos' \subseteq photos /\ objects' \subseteq objects
         /\ \/ /\ req[h].pc = "deleteRow" /\ req'[h].pc = "dropObject"
               /\ req'[h].op = req[h].op /\ req'[h].key = req[h].key /\ req'[h].old = req[h].old
               /\ UNCHANGED <<cover, objects>>
            \/ /\ req[h].pc = "dropObject" /\ UNCHANGED cover
               /\ \/ UNCHANGED objects
                  \/ HasOld(req[h]) /\ objects' = objects \ {req[h].old}
               /\ \/ /\ req[h].op \in {"confirm", "delete"} /\ req'[h].pc = "setCover"
                     /\ req'[h].op = req[h].op /\ req'[h].key = req[h].key /\ req'[h].old = req[h].old
                  \/ /\ req[h].op = "review" /\ req'[h].pc = "firstImage"
                     /\ req'[h].op = req[h].op /\ req'[h].key = req[h].key /\ req'[h].old = req[h].old
                  \/ /\ req[h].op = "remove" /\ req'[h].pc = "idle" /\ req'[h].op = "none"
                     /\ req'[h].key = NoKey /\ req'[h].old = NoKey
            \/ /\ req[h].pc \in {"setCover", "writeRow"} /\ UNCHANGED objects
               /\ cover' = IF exists THEN req[h].key ELSE cover
               /\ req'[h].pc = "idle" /\ req'[h].op = "none"
               /\ req'[h].key = NoKey /\ req'[h].old = NoKey
            \/ /\ req[h].pc = "firstImage" /\ req'[h].pc = "writeRow" /\ UNCHANGED <<cover, objects>>
               /\ req'[h].op = req[h].op /\ req'[h].old = req[h].old
               /\ req'[h].key = req[h].key \/ (req[h].key = NoKey /\ req'[h].key \in Photo)
<1> USE DEF At
<1>1. CASE DeletePhotoRow(h)
  BY <1>1, GotoOnly DEF DeletePhotoRow
<1>2. CASE DropObject(h)
  <2>1. req[h].op \in {"confirm", "delete", "review", "remove"}
    BY <1>2 DEF DropObject, TypeInv, Requests, Armed
  <2>2. CASE req[h].op = "remove"
    BY <1>2, <2>2, FinishOnly DEF DropObject
  <2>3. CASE req[h].op = "review"
    BY <1>2, <2>3, GotoOnly DEF DropObject, AfterDrop
  <2>4. CASE req[h].op \in {"confirm", "delete"}
    BY <1>2, <2>4, GotoOnly DEF DropObject, AfterDrop
  <2>5. QED
    BY <2>1, <2>2, <2>3, <2>4
<1>3. CASE SetCover(h) \/ WriteRow(h)
  BY <1>3, FinishOnly DEF SetCover, WriteRow
<1>4. CASE FirstImage(h)
  <2>1. photos \subseteq Photo /\ req[h] \in RequestType /\ req \in [Handler -> RequestType]
    BY DEF TypeInv, RowsOK, Requests
  <2>2. PICK k \in IF req[h].key = NoKey THEN photos \cup {NoKey} ELSE {req[h].key} :
          req' = [req EXCEPT ![h] = [@ EXCEPT !.key = k, !.pc = "writeRow"]]
    BY <1>4 DEF FirstImage
  <2>3. k \in Object \cup {NoKey}
    BY <2>1, <2>2 DEF RequestType, Object
  <2>4. /\ req'[h].pc = "writeRow" /\ req'[h].op = req[h].op /\ req'[h].old = req[h].old
        /\ req'[h].key = k /\ \A x \in Handler \ {h} : req'[x] = req[x]
        /\ req' \in [Handler -> RequestType]
    BY <2>1, <2>2, <2>3 DEF RequestType
  <2>5. QED
    BY <1>4, <2>1, <2>2, <2>4 DEF FirstImage
<1>5. QED
  BY <1>1, <1>2, <1>3, <1>4 DEF Step

\* What moves without a request: uploads of covers and photos.
Upload(o) == /\ upload[o] = "UNUSED"
             /\ upload' = [upload EXCEPT ![o] = "uploaded"]
             /\ objects' = objects \cup {o}

LEMMA NextMoves ==
  ASSUME TypeInv, [Next]_vars
  PROVE  \/ \E h \in Handler : Request(h) \/ Step(h) \/ HandlerFails(h)
         \/ \E o \in Object : /\ Upload(o) /\ photos' \subseteq photos \cup ({o} \cap Photo)
                              /\ UNCHANGED <<exists, cover, req, faults>>
         \/ exists' = FALSE /\ photos' = {} /\ UNCHANGED <<cover, upload, objects, req, faults>>
         \/ UNCHANGED vars
<1>1. CASE \E k \in Key : RequestTripCoverUpload(k)
  BY <1>1 DEF RequestTripCoverUpload, Upload, Object
<1>2. CASE \E p \in Photo : AddPhoto(p)
  BY <1>2 DEF AddPhoto, Upload, Object
<1>3. CASE TripGoes
  BY <1>3 DEF TripGoes
<1>4. QED
  BY <1>1, <1>2, <1>3 DEF Next

LEMMA TypeInvInit == Init => TypeInv
BY KeysAssumption, FaultAssumption
   DEF Init, TypeInv, RowsOK, Requests, RequestType, NoRequest, Armed, Object

\* Every step keeps the types and what requests rely on.
LEMMA TypeInvNext ==
  ASSUME TypeInv, [Next]_vars
  PROVE  TypeInv'
<1> USE DEF TypeInv, RowsOK, Requests
<1>0. ops' = ops
  BY OpsStay
<1>1. ASSUME NEW h \in Handler, Request(h)
      PROVE  TypeInv'
  <2>1. \A x \in Handler : Armed(req[x])'
    BY <1>1, RequestFills DEF Armed
  <2>2. upload' \in [Object -> {"UNUSED", "uploaded", "confirmed", "again", "stale"}]
    BY <1>1, RequestFills DEF Confirmed
  <2>3. QED
    BY <1>0, <1>1, <2>1, <2>2, RequestFills
<1>2. ASSUME NEW h \in Handler, Step(h)
      PROVE  TypeInv'
  <2>1. \A x \in Handler : Armed(req[x])'
    BY <1>2, StepMoves DEF Armed
  <2>2. cover' \in Object \cup {NoKey}
    BY <1>2, StepMoves DEF RequestType
  <2>3. QED
    BY <1>0, <1>2, <2>1, <2>2, StepMoves
<1>3. ASSUME NEW h \in Handler, HandlerFails(h)
      PROVE  TypeInv'
  BY <1>0, <1>3, FinishOnly, FaultAssumption DEF HandlerFails, Armed
<1>4. CASE \E o \in Object : /\ Upload(o) /\ photos' \subseteq photos \cup ({o} \cap Photo)
                              /\ UNCHANGED <<exists, cover, req, faults>>
  BY <1>0, <1>4 DEF Upload
<1>5. CASE exists' = FALSE /\ photos' = {} /\ UNCHANGED <<cover, upload, objects, req, faults>>
  BY <1>0, <1>5
<1>6. CASE UNCHANGED vars
  BY <1>6 DEF vars
<1>7. QED
  BY <1>1, <1>2, <1>3, <1>4, <1>5, <1>6, NextMoves

\* The types hold of every reachable state, however many requests are in flight.
THEOREM CoverTypes == Spec => []TypeOK
<1>1. TypeInv => TypeOK
  BY DEF TypeInv, RowsOK, Requests, TypeOK
<1>2. TypeInv /\ [Next]_vars => TypeInv'
  BY TypeInvNext
<1>3. QED
  BY <1>1, <1>2, TypeInvInit, PTL DEF Spec

------------------------------------------------------------------------------
(* Any number of requests at once, none of which writes the whole row       *)

NoWholeRows == "update" \notin ops /\ "review" \notin ops

\* A key whose confirmation is the only one it ever had.
Once(k) == k \in Key /\ upload[k] = "confirmed"

\* A key nobody has confirmed yet is known to no row and no request, ...
Fresh(k) == /\ upload[k] = "uploaded" => k \in objects
            /\ upload[k] \in {"UNUSED", "uploaded"} =>
                 /\ cover # k
                 /\ \A h \in Handler : req[h].key # k /\ req[h].old # k

\* ... a key on its way to the row is known to its own request only, ...
OnItsWay(h) ==
  req[h].op = "confirm" /\ Once(req[h].key) =>
    /\ req[h].key \in objects /\ cover # req[h].key
    /\ \A x \in Handler : req[x].old # req[h].key
    /\ \A x \in Handler \ {h} : req[x].key # req[h].key

\* ... and a cover whose object is gone is about to be written over.
Replaced == Once(cover) /\ cover \notin objects => \E h \in Handler : req[h].pc = "setCover"

RaceInv ==
  /\ TypeInv
  /\ \A h \in Handler : req[h].op \notin {"update", "review"}
  /\ exists /\ faults = 0 =>
       /\ \A k \in Key : Fresh(k)
       /\ \A h \in Handler : OnItsWay(h)
       /\ Replaced

LEMMA RaceInit == Init => RaceInv
<1> SUFFICES ASSUME Init PROVE RaceInv
  OBVIOUS
<1>1. \A h \in Handler : req[h] = NoRequest
  BY DEF Init
<1>2. \A h \in Handler : req[h].op = "none" /\ req[h].key = NoKey /\ req[h].old = NoKey
  BY <1>1 DEF NoRequest
<1>3. \A k \in Key : upload[k] = "UNUSED" /\ k # NoKey
  BY KeysAssumption DEF Init, Object
<1>4. cover = NoKey /\ NoKey \notin Key
  BY KeysAssumption DEF Init
<1>5. QED
  BY <1>2, <1>3, <1>4, TypeInvInit DEF RaceInv, Fresh, OnItsWay, Once, Replaced

\* A new request: what it reads and what it will write are nobody else's.
LEMMA RaceRequest ==
  ASSUME RaceInv, exists, faults = 0, NoWholeRows,
         NEW h \in Handler, Request(h)
  PROVE  /\ \A x \in Handler : req'[x].op \notin {"update", "review"}
         /\ \A k \in Key : Fresh(k)'
         /\ \A x \in Handler : OnItsWay(x)'
         /\ Replaced'
<1>1. TypeInv /\ Replaced /\ (\A k \in Key : Fresh(k)) /\ \A x \in Handler : OnItsWay(x)
  BY DEF RaceInv
<1>2. /\ UNCHANGED <<cover, objects>> /\ req[h].pc = "idle"
      /\ \A x \in Handler \ {h} : req'[x] = req[x]
      /\ req[h].key = NoKey /\ req[h].old = NoKey
  BY <1>1, RequestFills DEF TypeInv, Requests, Armed
<1>3. /\ upload \in [Object -> {"UNUSED", "uploaded", "confirmed", "again", "stale"}]
      /\ \A k \in Key : k \in Object /\ k # NoKey /\ k \notin Photo
      /\ NoKey \notin Key
  BY <1>1, KeysAssumption DEF TypeInv, RowsOK, Object
<1>4. \A x \in Handler : req'[x].op \notin {"update", "review"}
  BY <1>1, <1>2, RequestFills DEF RaceInv, NoWholeRows
<1>5. CASE /\ req'[h].op = "confirm" /\ req'[h].old = cover
           /\ req'[h].key \in Key /\ upload[req'[h].key] # "UNUSED"
           /\ upload' = [upload EXCEPT ![req'[h].key] = Confirmed(req'[h].key)]
  <2> PICK k : k = req'[h].key
    OBVIOUS
  <2>1. /\ k \in Key /\ upload[k] # "UNUSED"
        /\ upload'[k] = Confirmed(k) /\ \A j \in Key \ {k} : upload'[j] = upload[j]
    BY <1>3, <1>5
  <2>2. Confirmed(k) = "confirmed" => upload[k] = "uploaded"
    BY DEF Confirmed
  <2>3. Confirmed(k) \in {"confirmed", "again", "stale"}
    BY DEF Confirmed
  <2>4. \A j \in Key : Fresh(j)'
    BY <1>1, <1>2, <1>5, <2>1, <2>3 DEF Fresh
  <2>5. OnItsWay(h)'
    BY <1>1, <1>2, <1>5, <2>1, <2>2 DEF OnItsWay, Once, Fresh
  <2>6. \A x \in Handler \ {h} : OnItsWay(x)'
    <3> SUFFICES ASSUME NEW x \in Handler \ {h}, req[x].op = "confirm", Once(req[x].key)'
                 PROVE  OnItsWay(x)'
      BY <1>2 DEF OnItsWay
    <3>1. req[x].key # k
      BY <1>1, <1>2, <2>1, <2>2 DEF Once, Fresh
    <3>2. Once(req[x].key)
      BY <1>2, <2>1, <3>1 DEF Once
    <3>3. QED
      BY <1>1, <1>2, <1>5, <3>1, <3>2 DEF OnItsWay
  <2>7. Replaced'
    BY <1>1, <1>2, <2>1, <2>2 DEF Replaced, Once, Fresh
  <2>8. QED
    BY <1>4, <2>4, <2>5, <2>6, <2>7
<1>6. CASE /\ UNCHANGED upload /\ req'[h].op \in {"delete", "remove"} /\ req'[h].key = NoKey
           /\ req'[h].old = cover \/ req'[h].old \in Photo
  <2>1. \A k \in Key : Fresh(k)'
    BY <1>1, <1>2, <1>3, <1>6 DEF Fresh
  <2>2. \A x \in Handler : OnItsWay(x)'
    BY <1>1, <1>2, <1>3, <1>6 DEF OnItsWay, Once
  <2>3. Replaced'
    BY <1>1, <1>2, <1>6 DEF Replaced, Once
  <2>4. QED
    BY <1>4, <2>1, <2>2, <2>3
<1>7. QED
  BY <1>1, <1>5, <1>6, RequestFills DEF NoWholeRows

\* A statement: an object goes only to make room for a key that is on its way.
LEMMA RaceStep ==
  ASSUME RaceInv, exists, faults = 0, NEW h \in Handler, Step(h)
  PROVE  /\ \A x \in Handler : req'[x].op \notin {"update", "review"}
         /\ \A k \in Key : Fresh(k)'
         /\ \A x \in Handler : OnItsWay(x)'
         /\ Replaced'
<1>1. TypeInv /\ Replaced /\ (\A k \in Key : Fresh(k)) /\ \A x \in Handler : OnItsWay(x)
  BY DEF RaceInv
<1>2. /\ UNCHANGED upload /\ objects' \subseteq objects
      /\ \A x \in Handler \ {h} : req'[x] = req[x]
  BY <1>1, StepMoves
<1>3. Armed(req[h]) /\ req[h].op \notin {"update", "review"} /\ req[h].key \in Object \cup {NoKey}
  BY <1>1 DEF RaceInv, TypeInv, Requests, RequestType
<1>4. NoKey \notin Key /\ \A k \in Key : k \notin Photo
  BY KeysAssumption
<1>5. \/ req'[h].op = req[h].op /\ req'[h].key = req[h].key /\ req'[h].old = req[h].old
      \/ req'[h].op = "none" /\ req'[h].key = NoKey /\ req'[h].old = NoKey
  BY <1>1, <1>3, StepMoves DEF Armed
<1>6. \A x \in Handler : req'[x].op \notin {"update", "review"}
  BY <1>2, <1>3, <1>5 DEF RaceInv
<1>7. CASE UNCHANGED <<cover, objects>> /\ req[h].pc # "setCover"
  <2>1. (\A k \in Key : Fresh(k)') /\ \A x \in Handler : OnItsWay(x)'
    BY <1>1, <1>2, <1>4, <1>5, <1>7 DEF Fresh, OnItsWay, Once
  <2>2. Replaced'
    BY <1>1, <1>2, <1>7 DEF Replaced, Once
  <2>3. QED
    BY <1>6, <2>1, <2>2
<1>8. CASE /\ req[h].pc = "dropObject" /\ UNCHANGED cover
           /\ HasOld(req[h]) /\ objects' = objects \ {req[h].old}
  <2>1. (\A k \in Key : Fresh(k)') /\ \A x \in Handler : OnItsWay(x)'
    BY <1>1, <1>2, <1>4, <1>5, <1>8 DEF Fresh, OnItsWay, Once
  <2>2. Replaced'
    <3>1. CASE req'[h].pc = "setCover"
      BY <3>1 DEF Replaced
    <3>2. CASE req[h].op = "remove"
      <4>1. req[h].old \notin Key
        BY <1>3, <1>4, <3>2 DEF Armed
      <4>2. QED
        BY <1>1, <1>2, <1>8, <4>1 DEF Replaced, Once
    <3>3. QED
      BY <1>1, <1>3, <1>8, <3>1, <3>2, StepMoves
  <2>3. QED
    BY <1>6, <2>1, <2>2
<1>9. CASE /\ req[h].pc = "setCover" /\ UNCHANGED objects /\ cover' = req[h].key
           /\ req'[h].op = "none" /\ req'[h].key = NoKey /\ req'[h].old = NoKey
  <2>1. req[h].op \in {"confirm", "delete"}
    BY <1>3, <1>9 DEF Armed
  <2>2. \A k \in Key : Fresh(k)'
    BY <1>1, <1>2, <1>4, <1>9 DEF Fresh
  <2>3. \A x \in Handler : OnItsWay(x)'
    <3> SUFFICES ASSUME NEW x \in Handler \ {h}, req[x].op = "confirm", Once(req[x].key)
                 PROVE  OnItsWay(x)'
      BY <1>2, <1>9 DEF OnItsWay, Once
    <3>1. QED
      BY <1>1, <1>2, <1>4, <1>9 DEF OnItsWay, Once
  <2>4. Once(req[h].key) => req[h].key \in objects
    BY <1>1, <1>3, <1>4, <2>1 DEF OnItsWay, Once, Armed
  <2>5. Replaced'
    BY <1>2, <1>9, <2>4 DEF Replaced, Once
  <2>6. QED
    BY <1>6, <2>2, <2>3, <2>5
<1>10. QED
  BY <1>1, <1>3, <1>7, <1>8, <1>9, StepMoves DEF Armed

LEMMA RaceNext ==
  ASSUME RaceInv, NoWholeRows, [Next]_vars
  PROVE  RaceInv'
<1>1. TypeInv /\ TypeInv' /\ \A h \in Handler : req[h].op \notin {"update", "review"}
  BY TypeInvNext DEF RaceInv
<1>2. ASSUME NEW h \in Handler, Request(h)
      PROVE  RaceInv'
  <2>1. exists' = exists /\ faults' = faults
    BY <1>1, <1>2, RequestFills
  <2>2. \A x \in Handler : req'[x].op \notin {"update", "review"}
    BY <1>1, <1>2, RequestFills DEF NoWholeRows
  <2>3. QED
    BY <1>1, <1>2, <2>1, <2>2, RaceRequest DEF RaceInv
<1>3. ASSUME NEW h \in Handler, Step(h)
      PROVE  RaceInv'
  <2>1. exists' = exists /\ faults' = faults
    BY <1>1, <1>3, StepMoves
  <2>2. \A x \in Handler : req'[x].op \notin {"update", "review"}
    BY <1>1, <1>3, StepMoves
  <2>3. QED
    BY <1>1, <1>3, <2>1, <2>2, RaceStep DEF RaceInv
<1>4. ASSUME NEW h \in Handler, HandlerFails(h)
      PROVE  RaceInv'
  <2>1. faults' # 0
    BY <1>1, <1>4 DEF HandlerFails, TypeInv, RowsOK
  <2>2. \A x \in Handler : req'[x].op \notin {"update", "review"}
    BY <1>1, <1>4, FinishOnly DEF HandlerFails
  <2>3. QED
    BY <1>1, <2>1, <2>2 DEF RaceInv
<1>5. ASSUME NEW o \in Object, Upload(o), UNCHANGED <<exists, cover, req, faults>>
      PROVE  RaceInv'
  <2>1. /\ upload'[o] = "uploaded" /\ upload[o] = "UNUSED" /\ objects' = objects \cup {o}
        /\ \A k \in Object \ {o} : upload'[k] = upload[k]
    BY <1>1, <1>5 DEF Upload, TypeInv, RowsOK
  <2>2. \A k \in Key : k \in Object
    BY DEF Object
  <2>3. exists /\ faults = 0 => \A k \in Key : Fresh(k)'
    BY <1>5, <2>1, <2>2 DEF RaceInv, Fresh
  <2>4. exists /\ faults = 0 => \A h \in Handler : OnItsWay(h)'
    BY <1>5, <2>1, <2>2 DEF RaceInv, OnItsWay, Once
  <2>5. exists /\ faults = 0 => Replaced'
    BY <1>5, <2>1, <2>2 DEF RaceInv, Replaced, Once
  <2>6. QED
    BY <1>1, <1>5, <2>3, <2>4, <2>5 DEF RaceInv
<1>6. CASE exists' = FALSE /\ UNCHANGED req
  BY <1>1, <1>6 DEF RaceInv
<1>7. CASE UNCHANGED vars
  BY <1>7, <1>1 DEF vars, RaceInv, Fresh, OnItsWay, Once, Replaced
<1>8. QED
  BY <1>1, <1>2, <1>3, <1>4, <1>5, <1>6, <1>7, NextMoves

\* However many confirmations and deletions of covers are at work at once, a
\* cover that was confirmed once exists in S3 when all are done, as long as
\* nobody writes back the whole row.
THEOREM CoverOfTheRace == Spec => []CoverExists
<1> DEFINE Inv == NoWholeRows => RaceInv
<1>1. Inv => CoverExists
  BY DEF RaceInv, NoWholeRows, Replaced, Once, CoverExists, AtRest, Idle
<1>2. Inv /\ [Next]_vars => Inv'
  <2> SUFFICES ASSUME Inv, [Next]_vars, NoWholeRows' PROVE RaceInv'
    OBVIOUS
  <2>1. NoWholeRows
    BY OpsStay DEF NoWholeRows
  <2>2. QED
    BY <2>1, RaceNext
<1>3. Init => Inv
  BY RaceInit
<1>4. QED
  BY <1>1, <1>2, <1>3, PTL DEF Spec

------------------------------------------------------------------------------
(* Requests of every kind, one after the other                              *)

Serial == "serial" \in ops

\* No other request is in flight.
Alone(h) == \A x \in Handler \ {h} : req[x].pc = "idle"

\* A key whose object was there when it was last confirmed.
Good(k) == k \in Key /\ upload[k] \in {"confirmed", "again"}

\* Between the deletion of an object and the write of the row the cover may be gone.
Kept == (\A h \in Handler : req[h].pc # "setCover") /\ Good(cover) => cover \in objects

\* What the request will write.
Carries(h) ==
  /\ req[h].op = "confirm" /\ Good(req[h].key) => req[h].key \in objects
  /\ req[h].op \in {"update", "review"} /\ req[h].key \in Key => req[h].key = cover

SerialInv ==
  /\ TypeInv
  /\ \A h \in Handler : req[h].pc # "idle" => Alone(h)
  /\ exists /\ faults = 0 => /\ \A k \in Key : Fresh(k)
                            /\ Kept /\ \A h \in Handler : Carries(h)

LEMMA SerialInit == Init => SerialInv
<1> SUFFICES ASSUME Init PROVE SerialInv
  OBVIOUS
<1>1. \A h \in Handler : req[h] = NoRequest
  BY DEF Init
<1>2. \A h \in Handler : /\ req[h].op = "none" /\ req[h].pc = "idle"
                        /\ req[h].key = NoKey /\ req[h].old = NoKey
  BY <1>1 DEF NoRequest
<1>3. (\A k \in Key : upload[k] = "UNUSED" /\ k # NoKey) /\ cover = NoKey /\ NoKey \notin Key
  BY KeysAssumption DEF Init, Object
<1>4. QED
  BY <1>2, <1>3, TypeInvInit DEF SerialInv, Fresh, Kept, Carries, Good

\* A key is good when its object was there, and the row is read as it stands.
LEMMA SerialRequest ==
  ASSUME SerialInv, Serial, exists, faults = 0, NEW h \in Handler, Request(h)
  PROVE  (\A k \in Key : Fresh(k)') /\ Kept' /\ \A x \in Handler : Carries(x)'
<1>1. TypeInv /\ (\A k \in Key : Fresh(k)) /\ Kept
  BY DEF SerialInv
<1>2. /\ UNCHANGED <<cover, objects>> /\ \A x \in Handler : req[x].pc = "idle"
      /\ \A x \in Handler \ {h} : req'[x] = req[x]
      /\ \A x \in Handler : req[x].op = "none" /\ req[x].key = NoKey /\ req[x].old = NoKey
  BY <1>1, RequestFills DEF Serial, TypeInv, Requests, Armed
<1>3. /\ upload \in [Object -> {"UNUSED", "uploaded", "confirmed", "again", "stale"}]
      /\ \A k \in Key : k \in Object /\ k # NoKey /\ k \notin Photo
      /\ NoKey \notin Key
  BY <1>1, KeysAssumption DEF TypeInv, RowsOK, Object
<1>4. CASE /\ req'[h].op = "confirm" /\ req'[h].pc = "dropObject" /\ req'[h].old = cover
           /\ req'[h].key \in Key /\ upload[req'[h].key] # "UNUSED"
           /\ upload' = [upload EXCEPT ![req'[h].key] = Confirmed(req'[h].key)]
  <2> PICK k : k = req'[h].key
    OBVIOUS
  <2>1. /\ k \in Key /\ upload[k] # "UNUSED"
        /\ upload'[k] = Confirmed(k) /\ \A j \in Key \ {k} : upload'[j] = upload[j]
    BY <1>3, <1>4
  <2>2. /\ Confirmed(k) \in {"confirmed", "again", "stale"}
        /\ Confirmed(k) \in {"confirmed", "again"} => k \in objects
    BY <1>1, <2>1 DEF Confirmed, Fresh
  <2>3. \A j \in Key : Fresh(j)'
    BY <1>1, <1>2, <1>4, <2>1, <2>2 DEF Fresh
  <2>4. Kept'
    BY <1>1, <1>2, <1>3, <2>1, <2>2 DEF Kept, Good
  <2>5. \A x \in Handler : Carries(x)'
    BY <1>2, <1>4, <2>1, <2>2 DEF Carries, Good
  <2>6. QED
    BY <2>3, <2>4, <2>5
<1>5. CASE /\ UNCHANGED upload /\ req'[h].op \in {"delete", "update", "review", "remove"}
           /\ req'[h].pc # "setCover"
           /\ req'[h].key \in {NoKey, cover} /\ req'[h].old \in {NoKey, cover} \cup Photo
  <2>1. \A k \in Key : Fresh(k)'
    BY <1>1, <1>2, <1>3, <1>5 DEF Fresh
  <2>2. Kept' /\ \A x \in Handler : Carries(x)'
    BY <1>1, <1>2, <1>3, <1>5 DEF Kept, Carries, Good
  <2>3. QED
    BY <2>1, <2>2
<1>6. QED
  BY <1>1, <1>4, <1>5, RequestFills

\* The old object goes, never the one whose key is written next.
LEMMA SerialStep ==
  ASSUME SerialInv, exists, faults = 0, NEW h \in Handler, Step(h)
  PROVE  (\A k \in Key : Fresh(k)') /\ Kept' /\ \A x \in Handler : Carries(x)'
<1> DEFINE Covered == /\ req[h].pc # "setCover" /\ Good(cover) => cover \in objects
                      /\ Carries(h)
<1>1. TypeInv /\ (\A k \in Key : Fresh(k)) /\ UNCHANGED upload
  BY StepMoves DEF SerialInv
<1>2. Armed(req[h]) /\ NoKey \notin Key /\ \A k \in Key : k \notin Photo
  BY <1>1, KeysAssumption DEF TypeInv, Requests
<1>7. \A x \in Handler \ {h} : /\ req'[x] = req[x] /\ req[x].pc = "idle" /\ req[x].op = "none"
                               /\ req[x].key = NoKey /\ req[x].old = NoKey
  BY <1>1, StepMoves DEF SerialInv, Alone, TypeInv, Requests, Armed
<1>8. Covered
  BY <1>7 DEF SerialInv, Kept
<1>9. Covered' => Kept' /\ \A x \in Handler : Carries(x)'
  BY <1>7 DEF Kept, Carries
<1>3. CASE req[h].pc = "deleteRow" \/ req[h].pc = "firstImage"
  <2>1. /\ UNCHANGED <<cover, objects>>
        /\ req[h].pc # "setCover" /\ req'[h].pc # "setCover"
        /\ req'[h].op = req[h].op /\ req'[h].old = req[h].old
        /\ req'[h].key = req[h].key \/ req'[h].key \in Photo
        /\ req[h].pc = "firstImage" => req[h].op = "review"
        /\ req[h].pc = "deleteRow" => req'[h].key = req[h].key
    BY <1>1, <1>2, <1>3, StepMoves DEF Armed
  <2>2. \A k \in Key : k # req'[h].key \/ req'[h].key = req[h].key
    BY <1>2, <2>1
  <2>3. \A k \in Key : Fresh(k)'
    BY <1>1, <1>7, <2>1, <2>2 DEF Fresh
  <2>4. Carries(h)'
    BY <1>1, <1>2, <1>3, <1>8, <2>1, <2>2 DEF Carries, Good
  <2>5. Good(cover)' => cover' \in objects'
    BY <1>1, <1>8, <2>1 DEF Good
  <2>6. Covered'
    BY <2>1, <2>4, <2>5
  <2>7. QED
    BY <1>9, <2>3, <2>6
<1>4. CASE req[h].pc = "dropObject"
  <2>1. /\ UNCHANGED cover
        /\ UNCHANGED objects \/ (HasOld(req[h]) /\ objects' = objects \ {req[h].old})
        /\ \/ /\ req[h].op \in {"confirm", "delete"} /\ req'[h].pc = "setCover"
              /\ req'[h].op = req[h].op /\ req'[h].key = req[h].key /\ req'[h].old = req[h].old
           \/ /\ req[h].op = "review" /\ req'[h].op = req[h].op
              /\ req'[h].key = req[h].key /\ req'[h].old = req[h].old
           \/ /\ req[h].op = "remove" /\ req'[h].op = "none"
              /\ req'[h].key = NoKey /\ req'[h].old = NoKey
    BY <1>1, <1>4, StepMoves
  <2>2. \A k \in Key : Fresh(k)'
    BY <1>1, <1>2, <1>7, <2>1 DEF Fresh
  <2>3. CASE req[h].op \in {"confirm", "delete"}
    BY <1>1, <1>8, <1>9, <2>1, <2>2, <2>3 DEF Carries, Good, HasOld
  <2>4. CASE req[h].op \in {"review", "remove"}
    <3>1. req[h].old \notin Key
      BY <1>2, <2>4 DEF Armed
    <3>2. QED
      BY <1>1, <1>4, <1>8, <1>9, <2>1, <2>2, <2>4, <3>1 DEF Carries, Good
  <2>5. QED
    BY <2>1, <2>3, <2>4
<1>5. CASE req[h].pc \in {"setCover", "writeRow"}
  <2>1. /\ UNCHANGED objects /\ cover' = req[h].key
        /\ req'[h].pc = "idle" /\ req'[h].op = "none"
        /\ req'[h].key = NoKey /\ req'[h].old = NoKey
    BY <1>1, <1>5, StepMoves
  <2>2. \A k \in Key : Fresh(k)'
    BY <1>1, <1>2, <1>7, <2>1 DEF Fresh
  <2>3. Good(req[h].key) => req[h].key \in objects
    BY <1>1, <1>2, <1>5, <1>8 DEF Carries, Good, Armed
  <2>4. QED
    BY <1>1, <1>9, <2>1, <2>2, <2>3 DEF Carries, Good
<1>6. QED
  BY <1>1, <1>3, <1>4, <1>5, StepMoves

LEMMA SerialNext ==
  ASSUME Serial, SerialInv, [Next]_vars
  PROVE  SerialInv'
<1>1. TypeInv /\ TypeInv'
  BY TypeInvNext DEF SerialInv
<1>2. ASSUME NEW h \in Handler, Request(h)
      PROVE  SerialInv'
  <2>1. exists' = exists /\ faults' = faults
    BY <1>1, <1>2, RequestFills
  <2>2. \A x \in Handler : req'[x].pc # "idle" => Alone(x)'
    BY <1>1, <1>2, RequestFills DEF Serial, Alone
  <2>3. QED
    BY <1>1, <1>2, <2>1, <2>2, SerialRequest DEF SerialInv
<1>3. ASSUME NEW h \in Handler, Step(h)
      PROVE  SerialInv'
  <2>1. exists' = exists /\ faults' = faults
    BY <1>1, <1>3, StepMoves
  <2>2. \A x \in Handler : req'[x].pc # "idle" => Alone(x)'
    BY <1>1, <1>3, StepMoves DEF SerialInv, Alone
  <2>3. QED
    BY <1>1, <1>3, <2>1, <2>2, SerialStep DEF SerialInv
<1>4. ASSUME NEW h \in Handler, HandlerFails(h)
      PROVE  SerialInv'
  <2>1. faults' # 0
    BY <1>1, <1>4 DEF HandlerFails, TypeInv, RowsOK
  <2>2. \A x \in Handler : req'[x].pc # "idle" => Alone(x)'
    BY <1>1, <1>4, FinishOnly DEF HandlerFails, SerialInv, Alone
  <2>3. QED
    BY <1>1, <2>1, <2>2 DEF SerialInv
<1>5. ASSUME NEW o \in Object, Upload(o), UNCHANGED <<exists, cover, req, faults>>
      PROVE  SerialInv'
  <2>1. /\ upload'[o] = "uploaded" /\ upload[o] = "UNUSED" /\ objects' = objects \cup {o}
        /\ \A k \in Object \ {o} : upload'[k] = upload[k]
    BY <1>1, <1>5 DEF Upload, TypeInv, RowsOK
  <2>2. \A k \in Key : k \in Object
    BY DEF Object
  <2>3. exists /\ faults = 0 => \A k \in Key : Fresh(k)'
    BY <1>5, <2>1, <2>2 DEF SerialInv, Fresh
  <2>4. exists /\ faults = 0 => Kept' /\ \A h \in Handler : Carries(h)'
    BY <1>5, <2>1, <2>2 DEF SerialInv, Kept, Carries, Good
  <2>5. QED
    BY <1>1, <1>5, <2>3, <2>4 DEF SerialInv, Alone
<1>6. CASE exists' = FALSE /\ UNCHANGED req
  BY <1>1, <1>6 DEF SerialInv, Alone
<1>7. CASE UNCHANGED vars
  BY <1>7, <1>1 DEF vars, SerialInv, Alone, Fresh, Kept, Carries, Good
<1>8. QED
  BY <1>1, <1>2, <1>3, <1>4, <1>5, <1>6, <1>7, NextMoves

\* Whatever requests come one after the other, confirmations of any key any
\* number of times and reviews that choose or delete photos among them, a cover
\* whose object was there when it was last confirmed still has it.
THEOREM TheCover == Spec => []CoverStays
<1> DEFINE Inv == Serial => SerialInv
<1>1. Inv => CoverStays
  BY DEF SerialInv, Serial, CoverStays, AtRest, Kept, Good, Idle
<1>2. Inv /\ [Next]_vars => Inv'
  <2> SUFFICES ASSUME Inv, [Next]_vars, Serial' PROVE SerialInv'
    OBVIOUS
  <2>1. Serial
    BY OpsStay DEF Serial
  <2>2. QED
    BY <2>1, SerialNext
<1>3. Init => Inv
  BY SerialInit
<1>4. QED
  BY <1>1, <1>2, <1>3, PTL DEF Spec
=============================================================================
