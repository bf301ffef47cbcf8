------------------------- MODULE TripCreationProofs -------------------------
(***************************************************************************)
(* The creation of a trip with one request at a time, for every number of  *)
(* media, pins, websockets, ML results, failures and crashes: it keeps the *)
(* promise of TripLifecycle, what is reviewed is what the client asked     *)
(* for, and what a client reads is true.                                   *)
(***************************************************************************)
EXTENDS TripCreation, FiniteSetTheorems, TLAPS

\* The client waits for an answer before its next request.
OneRequest == \A g, h \in Handler : g = h

------------------------------------------------------------------------------
(* The invariant                                                            *)

Early    == {"DRAFT", "DRAFT_GROUPING_REVIEW", "PROCESSING"}
Statuses == Early \cup {"DRAFT_FINAL_REVIEW", "READY", "ADD_MEDIA_PROCESSING",
                        "ADD_MEDIA_DRAFT_FINAL_REVIEW"}
Reviews  == {"DRAFT_FINAL_REVIEW", "ADD_MEDIA_DRAFT_FINAL_REVIEW"}
Late     == status \notin Early

Steps    == {"idle", "insert", "setGrouping", "reject", "createPin", "assign", "publishTask",
             "setReview", "deleteStream", "announce", "ack", "rename", "setReady"}
Requests == [pc : Steps, media : SUBSET Media, group : [Media -> Pin \cup {NoPin}],
             rename : SUBSET Pin]
Delivery == [pc : {"idle", "suggest", "setReview", "deleteStream", "announce", "ack"},
             todo : SUBSET Pin, target : Reviews \cup {"none"}]
Socket   == [on : BOOLEAN, pos : Nat, got : Reviews \cup {"none"}]

Types ==
  /\ status \in Statuses
  /\ place \in [Media -> Pin \cup {NoPin, "UNUSED", "DELETED"}]
  /\ pins \subseteq Pin /\ \A m \in Media : place[m] \in Pin => place[m] \in pins
  /\ count \in [Pin -> Nat]
  /\ name \in [Pin -> {"default", "user", "ml"}]
  /\ req \in [Handler -> Requests]
  /\ tasks \in Seq(SUBSET Pin) /\ results \in Seq(SUBSET Pin)
  /\ con \in Delivery
  /\ log \in Seq(Reviews) /\ base \in Nat
  /\ conn \in [Client -> Socket] /\ faults \in Nat

\* The status a request works under, while no other request is in flight.
Works(r) ==
  /\ r.pc \in {"insert", "setGrouping"} => status = "DRAFT"
  /\ r.pc \in {"reject", "createPin", "assign"} => status = "DRAFT_GROUPING_REVIEW"
  /\ r.pc \in {"publishTask", "setReview"} => status = "PROCESSING"
  /\ r.pc \in {"deleteStream", "announce"} => status = "DRAFT_FINAL_REVIEW"
  /\ r.pc \in {"rename", "setReady"} => status \in {"PROCESSING", "DRAFT_FINAL_REVIEW"}
  /\ r.pc = "publishTask" => mode = "ml"
  /\ r.pc \in {"setReview", "deleteStream", "announce"} => mode # "ml"
  /\ r.pc = "rename" => r.rename \subseteq pins

\* Nothing was asked of the ML service, and at most once for a new trip.
NothingAsked == tasks = <<>> /\ results = <<>> /\ con = NoDelivery
Asked ==
  /\ mode # "ml" \/ status \in {"DRAFT", "DRAFT_GROUPING_REVIEW"} => NothingAsked
  /\ \A h \in Handler : At(h, "publishTask") => NothingAsked
  /\ status = "PROCESSING" => Len(tasks) + Len(results) <= 1
  /\ con.pc # "idle" => results # <<>>
  /\ con.pc # "suggest" => con.todo = {}

\* What the consumer is about to write, the trip perhaps finalized meanwhile, what
\* it is about to announce, and what was announced.
Announced ==
  /\ con.pc = "setReview" =>
       \/ con.target = "DRAFT_FINAL_REVIEW" /\ status \in {"PROCESSING", "READY", "ADD_MEDIA_PROCESSING"}
       \/ con.target = "ADD_MEDIA_DRAFT_FINAL_REVIEW" /\ status = "ADD_MEDIA_PROCESSING"
  /\ con.pc \in {"deleteStream", "announce"} => con.target # "none"
  /\ ~Late => /\ con.pc \notin {"deleteStream", "announce"}
              /\ \A i \in 1..Len(log) : log[i] # "DRAFT_FINAL_REVIEW"
              /\ \A c \in Client : conn[c].got # "DRAFT_FINAL_REVIEW"

\* A request puts the media of one pin at a time in it.
Grouping(h) ==
  LET r == req[h] IN
  /\ At(h, "reject") => \A m \in Media : r.group[m] \notin pins
  /\ At(h, "createPin") => \A m \in Rows : r.group[m] \in pins => place[m] = r.group[m]
  /\ At(h, "assign") =>
       \E p \in Pin : \A m \in Rows : r.group[m] \in pins \ {p} => place[m] = r.group[m]

FlowInv == /\ Types /\ Asked /\ Announced
           /\ \A h \in Handler : Works(req[h]) /\ Grouping(h)

\* The pin has the media the request asked for, or is to get them.
Asks(h, p)  == {m \in Media : req[h].group[m] = p}
Given(h, p) == InPin(p) = Asks(h, p) /\ Asks(h, p) # {} /\ count[p] = Cardinality(Asks(h, p))
Due(h, p)   == InPin(p) = {} /\ Asks(h, p) # {} /\ count[p] = Cardinality(Asks(h, p))
Full(p)     == InPin(p) # {} /\ count[p] = Cardinality(InPin(p))
Rest(p)     == Full(p) \/ Cardinality(InPin(p)) < count[p]

\* No review the client has finalized can have come back.
Fresh == /\ status = "PROCESSING" \/ (status = "DRAFT_FINAL_REVIEW" /\ mode # "ml")
         /\ \A h \in Handler : req[h].pc # "setReady"

Fullness ==
  /\ \A h \in Handler :
       /\ At(h, "reject") => \A m \in req[h].media : req[h].group[m] = NoPin
       /\ req[h].pc \in {"reject", "createPin", "assign"} =>
            \A m \in Media : req[h].group[m] # NoPin => m \in Rows
       /\ At(h, "createPin") => \A p \in pins : Given(h, p)
       /\ At(h, "assign") => \E p \in pins : Due(h, p) /\ \A q \in pins \ {p} : Given(h, q)
  /\ status \in {"DRAFT", "DRAFT_GROUPING_REVIEW"}
       /\ (\A h \in Handler : req[h].pc \notin {"createPin", "assign"}) => pins = {}
  /\ Fresh => \A p \in pins : Full(p)
  /\ status \notin {"DRAFT", "DRAFT_GROUPING_REVIEW"} => \A p \in pins : Rest(p)

\* No suggestion for a pin is left, but in the result at hand, which has been applied.
Spent == /\ \A i \in 1..Len(tasks) : tasks[i] = {}
         /\ \A i \in 1..Len(results) : results[i] = {} \/ (i = 1 /\ con.pc # "idle")
         /\ con.todo = {}

\* The consumer is bringing the review of a new trip.
Bringing == con.pc \in {"setReview", "deleteStream", "announce"} /\ con.target = "DRAFT_FINAL_REVIEW"

Names == /\ Reviewed \/ Bringing => Spent
         /\ \A p \in Pin : name[p] = "user" => p \in pins

CreationInv == FlowInv /\ (faults = 0 => Fullness /\ Names)
------------------------------------------------------------------------------
(* Requests move                                                            *)

\* An idle handler is a request that works on nothing.
LEMMA NoRequestType == NoRequest \in Requests /\ NoRequest.pc = "idle"
BY DEF NoRequest, Requests, Steps

\* The end of a request leaves its handler idle.
LEMMA FinishMoves ==
  ASSUME Types, NEW h \in Handler, Finish(h)
  PROVE  req' \in [Handler -> Requests] /\ req'[h] = NoRequest
BY NoRequestType DEF Types, Finish

\* A request that goes on keeps what it carries.
LEMMA GotoMoves ==
  ASSUME Types, NEW h \in Handler, NEW pc \in Steps, Goto(h, pc)
  PROVE  /\ req' \in [Handler -> Requests]
         /\ req'[h].pc = pc /\ req'[h].media = req[h].media /\ req'[h].group = req[h].group
         /\ req'[h].rename = req[h].rename
BY DEF Types, Goto, Requests

\* A request that begins takes up what the client sent.
LEMMA BeginMoves ==
  ASSUME Types, NEW h \in Handler, NEW r, r \in Requests, req' = [req EXCEPT ![h] = r]
  PROVE  req' \in [Handler -> Requests] /\ req'[h] = r
BY DEF Types

\* A step of the only request, which the ML service and the websockets do not see.
LEMMA HandlerStep ==
  ASSUME OneRequest, FlowInv, NEW h \in Handler,
         UNCHANGED <<mode, mlVars, conn>>, Late \/ UNCHANGED streamVars,
         Types', Works(req[h])', Grouping(h)',
         \/ status' = status \/ con.pc # "setReview"
         \/ status = "PROCESSING" /\ status' = "READY",
         Late \/ status' \in Early => Late' = Late,
         status' \in {"DRAFT", "DRAFT_GROUPING_REVIEW"} =>
           status \in {"DRAFT", "DRAFT_GROUPING_REVIEW"},
         At(h, "publishTask")' \/ (status' = "PROCESSING" /\ status' # status) => NothingAsked
  PROVE  FlowInv'
<1> USE DEF FlowInv
<1>1. \A g \in Handler : g = h
  BY DEF OneRequest
<1>2. UNCHANGED <<mode, tasks, results, con, conn>> /\ (Late \/ log' = log)
  BY DEF mlVars, streamVars
<1>3. NothingAsked' = NothingAsked
  BY <1>2 DEF NothingAsked
<1>4. NothingAsked => Len(tasks) + Len(results) <= 1
  BY DEF NothingAsked
<1>5. Asked'
  BY <1>1, <1>2, <1>3, <1>4 DEF Asked
<1>6. Announced'
  BY <1>2 DEF Announced, Late
<1>7. \A g \in Handler : Works(req[g])' /\ Grouping(g)'
  BY <1>1
<1>8. QED
  BY <1>5, <1>6, <1>7

\* A step of the ML service, its consumer or the add-media flow leaves the only
\* request where it was.
LEMMA OtherStep ==
  ASSUME FlowInv, Types', Asked', Announced',
         UNCHANGED <<mode, place, pins, req>>,
         \/ status' = status
         \/ /\ status = "PROCESSING" /\ status' = "DRAFT_FINAL_REVIEW"
            /\ \A h \in Handler : req[h].pc \notin {"publishTask", "setReview"}
         \/ status \notin Early \cup {"DRAFT_FINAL_REVIEW"}
  PROVE  FlowInv'
<1> USE DEF FlowInv
<1>1. \A h \in Handler : Works(req[h])'
  BY DEF Works, Early
<1>2. \A h \in Handler : Grouping(h)'
  BY DEF Grouping, At, Rows
<1>3. QED
  BY <1>1, <1>2
------------------------------------------------------------------------------
(* The flow: requests                                                       *)

\* A request begins under the status it works under.
LEMMA RequestFlow ==
  ASSUME OneRequest, FlowInv, NEW h \in Handler, Request(h)
  PROVE  FlowInv'
<1> USE DEF FlowInv
<1>1. /\ Idle(h)
      /\ UNCHANGED <<mode, status, place, pins, count, name, mlVars, streamVars, conn, faults>>
  BY DEF Request, ProcessMediaGrouping, ApplyGroups, FinalizeTrip, tripVars
<1>2. /\ req' \in [Handler -> Requests]
      /\ Works(req[h])' /\ Grouping(h)' /\ ~At(h, "publishTask")'
  <2>1. ASSUME NEW ms \in SUBSET Media, ProcessMediaGrouping(h, ms)
        PROVE  /\ req' \in [Handler -> Requests] /\ req'[h].pc = "insert" /\ status = "DRAFT"
    <3> DEFINE r == [req[h] EXCEPT !.pc = "insert", !.media = ms]
    <3>1. r \in Requests /\ r.pc = "insert"
      BY DEF Types, Requests, Steps
    <3>2. req' = [req EXCEPT ![h] = r] /\ status = "DRAFT"
      BY <2>1 DEF ProcessMediaGrouping, Types
    <3> HIDE DEF r
    <3>3. QED
      BY <3>1, <3>2, BeginMoves
  <2>2. ASSUME NEW ms \in SUBSET Media, NEW g \in [Media -> Pin \cup {NoPin}], ApplyGroups(h, g, ms)
        PROVE  /\ req' \in [Handler -> Requests] /\ req'[h].pc = "reject" /\ req'[h].group = g
               /\ status = "DRAFT_GROUPING_REVIEW" /\ \A m \in Media : g[m] \notin pins
    <3> DEFINE r == [req[h] EXCEPT !.pc = "reject", !.media = ms, !.group = g]
    <3>1. r \in Requests /\ r.pc = "reject" /\ r.group = g
      BY DEF Types, Requests, Steps
    <3>2. /\ req' = [req EXCEPT ![h] = r]
          /\ status = "DRAFT_GROUPING_REVIEW" /\ \A m \in Media : g[m] \notin pins
      BY <2>2 DEF ApplyGroups, Types
    <3> HIDE DEF r
    <3>3. QED
      BY <3>1, <3>2, BeginMoves
  <2>3. ASSUME NEW ms \in SUBSET Media, NEW renamed \in SUBSET Pin, FinalizeTrip(h, renamed, ms)
        PROVE  /\ req' \in [Handler -> Requests] /\ req'[h].pc = "rename" /\ req'[h].rename = renamed
               /\ status \in {"PROCESSING", "DRAFT_FINAL_REVIEW"} /\ renamed \subseteq pins
    <3> DEFINE r == [req[h] EXCEPT !.pc = "rename", !.rename = renamed, !.media = ms]
    <3>1. ms \in SUBSET Media /\ renamed \in SUBSET pins
      BY <2>3 DEF FinalizeTrip, Rows, Types
    <3>2. r \in Requests /\ r.pc = "rename" /\ r.rename = renamed
      BY <3>1 DEF Types, Requests, Steps
    <3>3. req' = [req EXCEPT ![h] = r] /\ status \in {"PROCESSING", "DRAFT_FINAL_REVIEW"}
      BY <2>3 DEF FinalizeTrip, Types
    <3> HIDE DEF r
    <3>4. QED
      BY <3>1, <3>2, <3>3, BeginMoves
  <2>4. QED
    BY <1>1, <2>1, <2>2, <2>3 DEF Request, Works, Grouping, At
<1>3. Types'
  BY <1>1, <1>2 DEF Types, mlVars, streamVars
<1>4. QED
  BY <1>1, <1>2, <1>3, HandlerStep DEF Late

\* Media come in and leave, and the status follows.
LEMMA CreateBatchFlow ==
  ASSUME OneRequest, FlowInv, NEW h \in Handler, CreateBatch(h)
  PROVE  FlowInv'
<1> USE DEF FlowInv
<1>1. /\ At(h, "insert") /\ status = "DRAFT"
      /\ UNCHANGED <<mode, status, pins, count, name, mlVars, streamVars, conn, faults>>
  BY DEF CreateBatch, Works, At
<1>2. req' \in [Handler -> Requests] /\ req'[h].pc = "setGrouping"
  BY GotoMoves DEF CreateBatch, Steps
<1>3. /\ place' \in [Media -> Pin \cup {NoPin, "UNUSED", "DELETED"}]
      /\ \A m \in Media : place'[m] \in {place[m], NoPin}
  BY DEF CreateBatch, Types
<1>4. Types'
  BY <1>1, <1>2, <1>3, NullsAssumption DEF Types, mlVars, streamVars
<1>5. Works(req[h])' /\ Grouping(h)' /\ ~At(h, "publishTask")'
  BY <1>1, <1>2 DEF Works, Grouping, At
<1>6. QED
  BY <1>1, <1>4, <1>5, HandlerStep DEF Late

\* The photos are in: the trip goes on to the review of the groups.
LEMMA SetGroupingFlow ==
  ASSUME OneRequest, FlowInv, NEW h \in Handler, SetGrouping(h)
  PROVE  FlowInv'
<1> USE DEF FlowInv
<1>1. /\ At(h, "setGrouping") /\ status = "DRAFT" /\ status' = "DRAFT_GROUPING_REVIEW"
      /\ UNCHANGED <<mode, place, pins, count, name, mlVars, streamVars, conn, faults>>
  BY DEF SetGrouping, SetStatus, Works, At
<1>2. req' \in [Handler -> Requests] /\ req'[h].pc = "idle"
  BY FinishMoves, NoRequestType DEF SetGrouping
<1>3. Types'
  BY <1>1, <1>2 DEF Types, Statuses, Early, mlVars, streamVars
<1>4. Works(req[h])' /\ Grouping(h)' /\ ~At(h, "publishTask")'
  BY <1>2 DEF Works, Grouping, At
<1>5. con.pc # "setReview"
  BY <1>1 DEF Announced
<1>6. QED
  BY <1>1, <1>3, <1>4, <1>5, HandlerStep DEF Late, Early

\* Rejected media leave the trip.
LEMMA RejectMediaFlow ==
  ASSUME OneRequest, FlowInv, NEW h \in Handler, RejectMedia(h)
  PROVE  FlowInv'
<1> USE DEF FlowInv
<1>1. /\ At(h, "reject") /\ status = "DRAFT_GROUPING_REVIEW"
      /\ UNCHANGED <<mode, status, pins, count, name, mlVars, streamVars, conn, faults>>
  BY DEF RejectMedia, Works, At
<1>2. /\ req' \in [Handler -> Requests] /\ req'[h].pc = "createPin"
      /\ req'[h].group = req[h].group
  BY GotoMoves DEF RejectMedia, Steps
<1>3. /\ place' \in [Media -> Pin \cup {NoPin, "UNUSED", "DELETED"}]
      /\ \A m \in Media : place'[m] \in {place[m], "DELETED"}
  BY DEF RejectMedia, Types
<1>4. Types'
  BY <1>1, <1>2, <1>3, PlacesAssumption DEF Types, mlVars, streamVars
<1>5. Works(req[h])' /\ Grouping(h)' /\ ~At(h, "publishTask")'
  <2>1. \A m \in Media : req[h].group[m] \notin pins
    BY <1>1 DEF Grouping
  <2>2. QED
    BY <1>1, <1>2, <2>1 DEF Works, Grouping, At, Rows
<1>6. QED
  BY <1>1, <1>4, <1>5, HandlerStep DEF Late

\* A pin is created before its media are put in it.
LEMMA CreatePinFlow ==
  ASSUME OneRequest, FlowInv, NEW h \in Handler, NEW p \in Pin, CreatePin(h, p)
  PROVE  FlowInv'
<1> USE DEF FlowInv
<1>1. /\ At(h, "createPin") /\ status = "DRAFT_GROUPING_REVIEW" /\ pins' = pins \cup {p}
      /\ UNCHANGED <<mode, status, place, mlVars, streamVars, conn, faults>>
  BY DEF CreatePin, Works, At
<1>2. /\ req' \in [Handler -> Requests] /\ req'[h].pc = "assign"
      /\ req'[h].group = req[h].group
  BY GotoMoves DEF CreatePin, Steps
<1>3. count' \in [Pin -> Nat] /\ name' \in [Pin -> {"default", "user", "ml"}]
  <2>1. Cardinality({m \in Media : req[h].group[m] = p}) \in Nat
    BY MediaAssumption, FS_Subset, FS_CardinalityType
  <2>2. QED
    BY <2>1 DEF CreatePin, Types
<1>4. Types'
  BY <1>1, <1>2, <1>3 DEF Types, mlVars, streamVars
<1>5. Works(req[h])' /\ ~At(h, "publishTask")'
  BY <1>1, <1>2 DEF Works, At
<1>6. Grouping(h)'
  <2>1. \A m \in Rows : req[h].group[m] \in pins => place[m] = req[h].group[m]
    BY <1>1 DEF Grouping
  <2>2. \A m \in Rows' : req'[h].group[m] \in pins' \ {p} => place'[m] = req'[h].group[m]
    BY <1>1, <1>2, <2>1 DEF Rows
  <2>3. QED
    BY <1>2, <2>2 DEF Grouping, At
<1>7. QED
  BY <1>1, <1>4, <1>5, <1>6, HandlerStep DEF Late

\* The media of a pin are put in it.
LEMMA AssignMediaFlow ==
  ASSUME OneRequest, FlowInv, NEW h \in Handler, AssignMedia(h)
  PROVE  FlowInv'
<1> USE DEF FlowInv
<1>1. /\ At(h, "assign") /\ status = "DRAFT_GROUPING_REVIEW"
      /\ UNCHANGED <<mode, status, pins, count, name, mlVars, streamVars, conn, faults>>
  BY DEF AssignMedia, Works, At
<1>2. /\ req' \in [Handler -> Requests] /\ req'[h].pc = "createPin"
      /\ req'[h].group = req[h].group
  BY GotoMoves DEF AssignMedia, Steps
<1>3. \A m \in Media : place'[m] = IF req[h].group[m] \in pins /\ m \in Rows
                                     THEN req[h].group[m] ELSE place[m]
  BY DEF AssignMedia
<1>4. pins \subseteq Pin /\ Rows' = Rows
  BY <1>3 DEF Types, Rows
<1>5. Types'
  <2>1. place' \in [Media -> Pin \cup {NoPin, "UNUSED", "DELETED"}]
    BY <1>4 DEF AssignMedia, Types
  <2>2. \A m \in Media : place'[m] \in Pin => place'[m] \in pins
    BY <1>3 DEF Types
  <2>3. QED
    BY <1>1, <1>2, <2>1, <2>2 DEF Types, mlVars, streamVars
<1>6. Works(req[h])' /\ Grouping(h)' /\ ~At(h, "publishTask")'
  <2>1. \A m \in Rows' : req'[h].group[m] \in pins' => place'[m] = req'[h].group[m]
    BY <1>1, <1>2, <1>3, <1>4 DEF Rows
  <2>2. QED
    BY <1>1, <1>2, <2>1 DEF Works, Grouping, At
<1>7. QED
  BY <1>1, <1>5, <1>6, HandlerStep DEF Late

\* All pins are there: the trip is processed.
LEMMA SetProcessingFlow ==
  ASSUME OneRequest, FlowInv, NEW h \in Handler, SetProcessing(h)
  PROVE  FlowInv'
<1> USE DEF FlowInv
<1>1. /\ At(h, "createPin") /\ status = "DRAFT_GROUPING_REVIEW" /\ status' = "PROCESSING"
      /\ UNCHANGED <<mode, place, pins, count, name, mlVars, streamVars, conn, faults>>
  BY DEF SetProcessing, SetStatus, Works, At
<1>2. /\ req' \in [Handler -> Requests]
      /\ req'[h].pc = IF mode = "ml" THEN "publishTask" ELSE "setReview"
  BY GotoMoves DEF SetProcessing, Steps
<1>3. Types'
  BY <1>1, <1>2 DEF Types, Statuses, Early, mlVars, streamVars
<1>4. Works(req[h])' /\ Grouping(h)'
  BY <1>1, <1>2 DEF Works, Grouping, At
<1>5. NothingAsked
  BY <1>1 DEF Asked
<1>6. con.pc # "setReview"
  BY <1>1 DEF Announced
<1>7. QED
  BY <1>1, <1>3, <1>4, <1>5, <1>6, HandlerStep DEF Late, Early

\* The review: names, deletions, the status.
LEMMA ReviewFlow ==
  ASSUME OneRequest, FlowInv, NEW h \in Handler,
         \/ \E p \in Pin : RenamePin(h, p)
         \/ DeleteMedia(h) \/ SetReady(h)
  PROVE  FlowInv'
<1> USE DEF FlowInv
<1>1. /\ status \in {"PROCESSING", "DRAFT_FINAL_REVIEW"} /\ status' \in {status, "READY"}
      /\ UNCHANGED <<mode, pins, count, mlVars, streamVars, conn, faults>>
  BY DEF RenamePin, DeleteMedia, SetReady, SetStatus, Works, At
<1>2. /\ req' \in [Handler -> Requests] /\ Works(req[h])' /\ Grouping(h)'
      /\ ~At(h, "publishTask")'
  <2>1. ASSUME NEW p \in Pin, RenamePin(h, p)
        PROVE  /\ req' \in [Handler -> Requests] /\ req'[h].pc = "rename"
               /\ req'[h].rename \subseteq pins /\ status' = status
    <3> DEFINE r == [req[h] EXCEPT !.rename = @ \ {p}]
    <3>1. r \in Requests /\ r.pc = req[h].pc /\ r.rename \subseteq req[h].rename
      BY DEF Types, Requests
    <3>2. /\ req' = [req EXCEPT ![h] = r] /\ req[h].pc = "rename"
          /\ status' = status /\ req[h].rename \subseteq pins
      BY <2>1 DEF RenamePin, Types, Works, At
    <3> HIDE DEF r
    <3>3. QED
      BY <3>1, <3>2, BeginMoves
  <2>2. CASE DeleteMedia(h)
    <3>1. /\ req' \in [Handler -> Requests] /\ req'[h].pc \in {"idle", "setReady"}
          /\ status' = status
      BY <2>2, GotoMoves, FinishMoves, NoRequestType DEF DeleteMedia, Steps
    <3>2. QED
      BY <1>1, <3>1 DEF Works, Grouping, At
  <2>3. CASE SetReady(h)
    <3>1. req' \in [Handler -> Requests] /\ req'[h].pc = "idle"
      BY <2>3, FinishMoves, NoRequestType DEF SetReady
    <3>2. QED
      BY <3>1 DEF Works, Grouping, At
  <2>4. QED
    BY <1>1, <2>1, <2>2, <2>3 DEF Works, Grouping, At
<1>3. /\ place' \in [Media -> Pin \cup {NoPin, "UNUSED", "DELETED"}]
      /\ \A m \in Media : place'[m] \in {place[m], "DELETED"}
  BY DEF RenamePin, DeleteMedia, SetReady, Types
<1>4. name' \in [Pin -> {"default", "user", "ml"}]
  BY DEF RenamePin, DeleteMedia, SetReady, Types
<1>5. Types'
  BY <1>1, <1>2, <1>3, <1>4, PlacesAssumption DEF Types, Statuses, mlVars, streamVars
<1>6. UNCHANGED streamVars /\ status # "PROCESSING" => con.pc # "setReview"
  BY <1>1 DEF Announced
<1>7. QED
  BY <1>1, <1>2, <1>5, <1>6, HandlerStep DEF Late, Early

\* A request that is over, or given up.
LEMMA EndFlow ==
  ASSUME OneRequest, FlowInv, NEW h \in Handler,
         Answer(h) \/ PublishTaskFails(h) \/ HandlerFails(h)
  PROVE  FlowInv'
<1> USE DEF FlowInv
<1>1. UNCHANGED <<mode, status, place, pins, count, name, mlVars, streamVars, conn>>
  BY DEF Answer, PublishTaskFails, HandlerFails, tripVars
<1>2. faults' \in Nat
  BY DEF Answer, PublishTaskFails, HandlerFails, Fault, Types
<1>3. req' \in [Handler -> Requests] /\ req'[h].pc = "idle"
  BY FinishMoves, NoRequestType DEF Answer, PublishTaskFails, HandlerFails
<1>4. Types'
  BY <1>1, <1>2, <1>3 DEF Types, mlVars, streamVars
<1>5. Works(req[h])' /\ Grouping(h)' /\ ~At(h, "publishTask")'
  BY <1>3 DEF Works, Grouping, At
<1>6. QED
  BY <1>1, <1>4, <1>5, HandlerStep DEF Late

\* The one task of a new trip is published.
LEMMA PublishTaskFlow ==
  ASSUME OneRequest, FlowInv, NEW h \in Handler, PublishTask(h)
  PROVE  FlowInv'
<1> USE DEF FlowInv
<1>1. /\ At(h, "publishTask") /\ status = "PROCESSING" /\ mode = "ml" /\ NothingAsked
      /\ UNCHANGED <<mode, status, place, pins, count, name, results, con, log, base,
                     conn, faults>>
  <2>1. /\ At(h, "publishTask")
        /\ UNCHANGED <<mode, status, place, pins, count, name, results, con, log, base,
                       conn, faults>>
    BY DEF PublishTask, tripVars, streamVars
  <2>2. status = "PROCESSING" /\ mode = "ml" /\ NothingAsked
    BY <2>1 DEF Works, At, Asked
  <2>3. QED
    BY <2>1, <2>2
<1>2. req' \in [Handler -> Requests] /\ req'[h].pc = "idle" /\ \A g \in Handler : g = h
  BY FinishMoves, NoRequestType DEF PublishTask, OneRequest
<1>3. /\ tasks' \in Seq(SUBSET Pin) /\ results' = <<>> /\ con' = NoDelivery
      /\ Len(tasks') + Len(results') <= 1
  <2>1. WithMedia \in SUBSET Pin /\ tasks = <<>> /\ results = <<>> /\ con = NoDelivery
    BY <1>1 DEF WithMedia, Types, NothingAsked
  <2>2. tasks' = <<>> \/ tasks' = <<WithMedia>>
    BY <2>1 DEF PublishTask
  <2>3. /\ <<>> \in Seq(SUBSET Pin) /\ Len(<<>>) = 0
        /\ <<WithMedia>> \in Seq(SUBSET Pin) /\ Len(<<WithMedia>>) = 1
    BY <2>1
  <2>4. tasks' \in Seq(SUBSET Pin) /\ Len(tasks') <= 1
    <3>1. CASE tasks' = <<>>
      BY <2>3, <3>1
    <3>2. CASE tasks' = <<WithMedia>>
      BY <2>3, <3>2
    <3>3. QED
      BY <2>2, <3>1, <3>2
  <2>5. results' = <<>> /\ Len(results') = 0 /\ Len(tasks') \in Nat
    BY <1>1, <2>1, <2>4
  <2>6. QED
    BY <1>1, <2>1, <2>4, <2>5
<1>4. Types'
  BY <1>1, <1>2, <1>3 DEF Types
<1>5. Asked'
  BY <1>1, <1>2, <1>3 DEF Asked, NoDelivery, At
<1>6. Announced'
  BY <1>1 DEF Announced, Late
<1>7. \A g \in Handler : Works(req[g])' /\ Grouping(g)'
  BY <1>2 DEF Works, Grouping, At
<1>8. QED
  BY <1>4, <1>5, <1>6, <1>7

------------------------------------------------------------------------------
(* The flow: ML results, announcements, the add-media flow                  *)

\* A consumer at work has a result, and with it the handlers are not finalizing.
LEMMA ConsumerAlone ==
  ASSUME FlowInv, con # NoDelivery \/ tasks # <<>> \/ results # <<>>
  PROVE  /\ mode = "ml" /\ status \notin {"DRAFT", "DRAFT_GROUPING_REVIEW"}
         /\ \A h \in Handler :
              req[h].pc \notin {"publishTask", "setReview", "deleteStream", "announce"}
BY DEF FlowInv, Asked, NothingAsked, Works, At

\* The ML service answers a task.
LEMMA MLAnswersFlow ==
  ASSUME FlowInv, MLAnswers
  PROVE  FlowInv'
<1> USE DEF FlowInv
<1>1. /\ tasks # <<>> /\ UNCHANGED <<mode, status, place, pins, count, name, req, con,
                                    log, base, conn, faults>>
  BY DEF MLAnswers, tripVars, streamVars
<1>2. /\ tasks \in Seq(SUBSET Pin) /\ results \in Seq(SUBSET Pin)
      /\ tasks' = Tail(tasks) /\ results' = Append(results, Head(tasks))
  BY DEF MLAnswers, Types
<1>3. /\ tasks' \in Seq(SUBSET Pin) /\ results' \in Seq(SUBSET Pin)
      /\ Len(tasks') + Len(results') = Len(tasks) + Len(results) /\ results' # <<>>
  BY <1>1, <1>2
<1>4. Types'
  BY <1>1, <1>3 DEF Types
<1>5. mode = "ml" /\ status \notin {"DRAFT", "DRAFT_GROUPING_REVIEW"}
      /\ \A h \in Handler : ~At(h, "publishTask")
  BY <1>1, ConsumerAlone DEF At
<1>6. Asked'
  BY <1>1, <1>3, <1>5 DEF Asked, At
<1>7. Announced'
  BY <1>1 DEF Announced, Late
<1>8. QED
  BY <1>1, <1>4, <1>6, <1>7, OtherStep

\* The consumer takes a result, applies it, reads the status, is done or fails.
LEMMA ConsumeFlow ==
  ASSUME FlowInv, Consume \/ ConsumerCrashes
  PROVE  FlowInv'
<1> USE DEF FlowInv
<1>1. UNCHANGED <<mode, status, place, pins, count, req, tasks, log, base, conn>>
  BY DEF Consume, ConsumerCrashes, Deliver, ReadStatus, Ack, ApplySuggestion, tripVars, streamVars
<1>2. results # <<>> /\ results \in Seq(SUBSET Pin)
  BY DEF Consume, ConsumerCrashes, Deliver, ReadStatus, Ack, ApplySuggestion, Asked, Types
<1>3. mode = "ml" /\ status \notin {"DRAFT", "DRAFT_GROUPING_REVIEW"}
      /\ \A h \in Handler : ~At(h, "publishTask")
  BY <1>2, ConsumerAlone DEF At
<1>4. faults' \in Nat /\ name' \in [Pin -> {"default", "user", "ml"}]
  <2>1. faults \in Nat /\ name \in [Pin -> {"default", "user", "ml"}]
    BY DEF Types
  <2>2. CASE Deliver \/ ReadStatus \/ Ack \/ ConsumerCrashes
    BY <2>1, <2>2 DEF ConsumerCrashes, Fault, Deliver, ReadStatus, Ack, tripVars
  <2>3. ASSUME NEW p \in Pin, ApplySuggestion(p)
        PROVE  faults' \in Nat /\ name' \in [Pin -> {"default", "user", "ml"}]
    BY <2>1, <2>3 DEF ApplySuggestion
  <2>4. QED
    BY <2>2, <2>3 DEF Consume
<1>5. /\ results' \in Seq(SUBSET Pin) /\ Len(results') <= Len(results)
      /\ con'.pc # "idle" => results' # <<>>
      /\ con' \in Delivery /\ (con'.pc # "suggest" => con'.todo = {})
      /\ con'.pc \in {"deleteStream", "announce"} => con' = con
      /\ con'.pc = "setReview" => status \in Processing /\ con'.target = Target[status]
  <2>1. CASE Deliver
    <3>1. Head(results) \in SUBSET Pin
      BY <1>2
    <3>2. /\ con' = [NoDelivery EXCEPT !.pc = "suggest", !.todo = Head(results)]
          /\ results' = results
      BY <2>1 DEF Deliver
    <3>3. con' \in Delivery /\ con'.pc = "suggest"
      BY <3>1, <3>2 DEF NoDelivery, Delivery
    <3>4. QED
      BY <3>2, <3>3, <1>2
  <2>2. ASSUME NEW p \in Pin, ApplySuggestion(p)
        PROVE  /\ results' = results /\ con' \in Delivery /\ con'.pc = "suggest"
    BY <2>2 DEF ApplySuggestion, Types, Delivery
  <2>3. CASE ReadStatus
    <3>1. \A s \in Processing : Target[s] \in Reviews
      BY DEF Target, Processing, Reviews
    <3>2. con.todo = {} /\ results' = results /\ con \in Delivery
      BY <2>3 DEF ReadStatus, Types
    <3>3. CASE status \in Processing
      <4>1. con' = [con EXCEPT !.pc = "setReview", !.target = Target[status]]
        BY <2>3, <3>3 DEF ReadStatus
      <4>2. /\ con' \in Delivery /\ con'.pc = "setReview" /\ con'.todo = {}
            /\ con'.target = Target[status]
        BY <3>1, <3>2, <3>3, <4>1 DEF Delivery
      <4>3. QED
        BY <1>2, <3>2, <3>3, <4>2
    <3>4. CASE status \notin Processing
      <4>1. con' = [con EXCEPT !.pc = "ack"]
        BY <2>3, <3>4 DEF ReadStatus
      <4>2. con' \in Delivery /\ con'.pc = "ack" /\ con'.todo = {}
        BY <3>2, <4>1 DEF Delivery
      <4>3. QED
        BY <1>2, <3>2, <4>2
    <3>5. QED
      BY <3>3, <3>4
  <2>4. CASE Ack
    BY <2>4, <1>2 DEF Ack, NoDelivery, Delivery
  <2>5. CASE ConsumerCrashes
    BY <2>5, <1>2 DEF ConsumerCrashes, NoDelivery, Delivery
  <2>6. QED
    BY <1>2, <2>1, <2>2, <2>3, <2>4, <2>5 DEF Consume
<1>6. Types'
  BY <1>1, <1>4, <1>5 DEF Types
<1>7. Asked'
  <2>1. Len(tasks) \in Nat /\ Len(results) \in Nat /\ Len(results') \in Nat
    BY <1>2, <1>5 DEF Types
  <2>2. QED
    BY <1>1, <1>3, <1>5, <2>1 DEF Asked, At
<1>8. Announced'
  <2>1. \/ con'.pc # "setReview"
        \/ con'.target = "DRAFT_FINAL_REVIEW" /\ status = "PROCESSING"
        \/ con'.target = "ADD_MEDIA_DRAFT_FINAL_REVIEW" /\ status = "ADD_MEDIA_PROCESSING"
    BY <1>5 DEF Processing, Target
  <2>2. QED
    BY <1>1, <1>5, <2>1 DEF Announced, Late
<1>9. QED
  BY <1>1, <1>6, <1>7, <1>8, OtherStep

\* finalizeProcessing writes the status the consumer or the handler meant.
LEMMA SetReviewFlow ==
  ASSUME OneRequest, FlowInv, SetReview
  PROVE  /\ FlowInv'
         /\ \/ status = "PROCESSING" /\ status' = "DRAFT_FINAL_REVIEW"
            \/ Overtaken /\ status \in {"READY", "ADD_MEDIA_PROCESSING"} /\ status' = "DRAFT_FINAL_REVIEW"
            \/ status = "ADD_MEDIA_PROCESSING" /\ status' = "ADD_MEDIA_DRAFT_FINAL_REVIEW" /\ ~Overtaken
         /\ ~Overtaken' /\ (con.pc = "setReview" => status' = con.target)
         /\ con.pc # "setReview" => mode # "ml"
<1> USE DEF FlowInv
<1>1. UNCHANGED <<mode, place, pins, count, name, log, base, conn, faults>>
  BY DEF SetReview, streamVars
<1>2. CASE con.pc = "setReview" /\ con' = [con EXCEPT !.pc = "deleteStream"]
           /\ UNCHANGED <<req, tasks, results>>
  <2>1. status' = con.target
    BY <1>2 DEF SetReview, FinalStatus
  <2>2. /\ mode = "ml" /\ \A h \in Handler : req[h].pc \notin {"publishTask", "setReview"}
    BY <1>2, ConsumerAlone DEF NoDelivery
  <2>3. /\ con' \in Delivery /\ con'.pc = "deleteStream" /\ con'.target = con.target
        /\ con'.todo = {}
    BY <1>2 DEF Types, Delivery, Asked
  <2>4. \/ status = "PROCESSING" /\ status' = "DRAFT_FINAL_REVIEW"
        \/ Overtaken /\ status \in {"READY", "ADD_MEDIA_PROCESSING"} /\ status' = "DRAFT_FINAL_REVIEW"
        \/ status = "ADD_MEDIA_PROCESSING" /\ status' = "ADD_MEDIA_DRAFT_FINAL_REVIEW" /\ ~Overtaken
    BY <1>2, <2>1 DEF Announced, Overtaken
  <2>5. status' \in Reviews
    BY <2>4 DEF Reviews
  <2>6. Types'
    BY <1>1, <1>2, <2>3, <2>5 DEF Types, Statuses, Reviews
  <2>7. Asked'
    BY <1>1, <1>2, <2>2, <2>3, <2>5 DEF Asked, Reviews, At
  <2>8. Announced'
    BY <2>1, <2>3, <2>5 DEF Announced, Late, Early, Reviews
  <2>9. FlowInv'
    BY <1>1, <1>2, <2>2, <2>4, <2>6, <2>7, <2>8, OtherStep DEF Early
  <2>10. ~Overtaken'
    BY <2>3 DEF Overtaken
  <2>11. QED
    BY <1>2, <2>1, <2>4, <2>9, <2>10
<1>3. ASSUME NEW h \in Handler, At(h, "setReview"), Goto(h, "deleteStream"), UNCHANGED mlVars
      PROVE  /\ FlowInv' /\ status = "PROCESSING" /\ status' = "DRAFT_FINAL_REVIEW"
             /\ mode # "ml" /\ con = NoDelivery /\ con' = NoDelivery
  <2>1. status = "PROCESSING" /\ mode # "ml" /\ con = NoDelivery
    BY <1>3 DEF Works, At, Asked, NothingAsked
  <2>2. status' = "DRAFT_FINAL_REVIEW"
    BY <2>1 DEF SetReview, FinalStatus, NoDelivery, Target, Processing
  <2>3. req' \in [Handler -> Requests] /\ req'[h].pc = "deleteStream"
    BY <1>3, GotoMoves DEF Steps
  <2>4. Types'
    BY <1>1, <1>3, <2>2, <2>3 DEF Types, Statuses, mlVars
  <2>5. Works(req[h])' /\ Grouping(h)' /\ ~At(h, "publishTask")'
    BY <1>1, <2>1, <2>2, <2>3 DEF Works, Grouping, At
  <2>6. /\ UNCHANGED <<mode, mlVars, streamVars, conn>>
        /\ ~Late /\ status' \notin Early
    BY <1>1, <1>3, <2>1, <2>2 DEF SetReview, Late, Early
  <2>7. FlowInv'
    BY <1>3, <2>1, <2>2, <2>4, <2>5, <2>6, HandlerStep DEF NoDelivery
  <2>8. QED
    BY <1>3, <2>1, <2>2, <2>7 DEF mlVars
<1>4. QED
  BY <1>2, <1>3 DEF SetReview, Finalizing, Overtaken, NoDelivery

\* The stream is emptied, or the event is put on it, or neither.
LEMMA AnnounceFlow ==
  ASSUME OneRequest, FlowInv, DeleteTripEventStream \/ Announce \/ FinalizeFails
  PROVE  FlowInv'
<1> USE DEF FlowInv
<1>1. UNCHANGED <<mode, status, place, pins, count, name, conn>>
  BY DEF DeleteTripEventStream, Announce, FinalizeFails, tripVars
<1>2. PICK from \in {"setReview", "deleteStream", "announce"}, to \in {"announce", "ack"} :
        /\ Finalizing(from, to)
        /\ to = "announce" => from = "deleteStream"
        /\ from = "setReview" => UNCHANGED streamVars
        /\ Announce => from = "announce"
  <2>1. DeleteTripEventStream => Finalizing("deleteStream", "announce")
    BY DEF DeleteTripEventStream
  <2>2. Announce => Finalizing("announce", "ack")
    BY DEF Announce
  <2>3. FinalizeFails => /\ Finalizing("setReview", "ack") \/ Finalizing("announce", "ack")
                         /\ UNCHANGED streamVars
    BY DEF FinalizeFails
  <2>4. QED
    BY <2>1, <2>2, <2>3
<1>3. log' \in Seq(Reviews) /\ base' \in Nat /\ faults' \in Nat
  <2>1. Target["PROCESSING"] \in Reviews
    BY DEF Target, Processing, Reviews
  <2>2. Announce => FinalStatus \in Reviews
    <3>1. con.pc = "announce" => con.target \in Reviews
      BY DEF Types, Delivery, Announced
    <3>2. Announce => con.pc # "setReview"
      BY DEF Announce, Finalizing, Asked, Works, At, Announced, NothingAsked, NoDelivery
    <3>3. QED
      BY <2>1, <3>1, <3>2 DEF FinalStatus
  <2>3. log \in Seq(Reviews) /\ base \in Nat /\ faults \in Nat
    BY DEF Types
  <2>4. CASE DeleteTripEventStream
    BY <2>3, <2>4 DEF DeleteTripEventStream
  <2>5. CASE Announce
    BY <2>2, <2>3, <2>5 DEF Announce
  <2>6. CASE FinalizeFails
    BY <2>3, <2>6 DEF FinalizeFails, Fault, streamVars
  <2>7. QED
    BY <2>4, <2>5, <2>6
<1>4. CASE con.pc = from /\ con' = [con EXCEPT !.pc = to] /\ UNCHANGED <<req, tasks, results>>
  <2>1. /\ con' \in Delivery /\ con'.pc = to /\ con'.target = con.target /\ con'.todo = {}
    BY <1>2, <1>4 DEF Types, Delivery, Asked
  <2>2. Types'
    BY <1>1, <1>3, <1>4, <2>1 DEF Types
  <2>3. mode = "ml" /\ status \notin {"DRAFT", "DRAFT_GROUPING_REVIEW"}
        /\ \A h \in Handler : ~At(h, "publishTask")
    BY <1>2, <1>4, ConsumerAlone DEF At, NoDelivery
  <2>4. Asked'
    BY <1>1, <1>2, <1>4, <2>1, <2>3 DEF Asked, At
  <2>5. Announced'
    BY <1>1, <1>2, <1>4, <2>1 DEF Announced, Late, streamVars
  <2>6. QED
    BY <1>1, <1>4, <2>2, <2>4, <2>5, OtherStep
<1>5. ASSUME NEW h \in Handler, At(h, from), Goto(h, to), UNCHANGED mlVars
      PROVE  FlowInv'
  <2>1. req' \in [Handler -> Requests] /\ req'[h].pc = to
    BY <1>2, <1>5, GotoMoves DEF Steps
  <2>2. Types'
    BY <1>1, <1>3, <1>5, <2>1 DEF Types, mlVars
  <2>3. Works(req[h])' /\ Grouping(h)' /\ ~At(h, "publishTask")'
    BY <1>1, <1>2, <1>5, <2>1 DEF Works, Grouping, At
  <2>4. Late \/ UNCHANGED streamVars
    <3>1. from # "setReview" => status = "DRAFT_FINAL_REVIEW"
      BY <1>2, <1>5 DEF Works, At
    <3>2. QED
      BY <1>2, <3>1 DEF Late, Early
  <2>5. QED
    BY <1>1, <1>5, <2>2, <2>3, <2>4, HandlerStep DEF Late
<1>6. QED
  BY <1>2, <1>4, <1>5 DEF Finalizing

\* The add-media flow takes a finished trip through processing again.
LEMMA AddMediaFlow ==
  ASSUME FlowInv, AddMediaApply \/ AddMediaConfirm
  PROVE  FlowInv'
<1> USE DEF FlowInv
<1>1. /\ UNCHANGED <<mode, place, pins, count, name, req, results, con, log, base, conn, faults>>
      /\ status \in {"READY", "ADD_MEDIA_DRAFT_FINAL_REVIEW"}
      /\ status' = "ADD_MEDIA_PROCESSING" \/ status' = "READY"
      /\ tasks' = tasks \/ tasks' = Append(tasks, {})
      /\ tasks' # tasks => mode = "ml"
      /\ status' = "ADD_MEDIA_PROCESSING" => mode = "ml"
  BY DEF AddMediaApply, AddMediaConfirm, SetStatus, mlVars, streamVars
<1>2. Types'
  <2>1. status' \in Statuses
    BY DEF AddMediaApply, AddMediaConfirm, SetStatus, Statuses
  <2>2. tasks' \in Seq(SUBSET Pin)
    <3>1. tasks \in Seq(SUBSET Pin) /\ {} \in SUBSET Pin
      BY DEF Types
    <3>2. Append(tasks, {}) \in Seq(SUBSET Pin)
      BY <3>1
    <3>3. QED
      BY <1>1, <3>1, <3>2
  <2>3. QED
    BY <1>1, <2>1, <2>2 DEF Types
<1>3. \A h \in Handler : ~At(h, "publishTask")
  BY <1>1 DEF Works, At
<1>4. Asked'
  BY <1>1, <1>3 DEF Asked, At, NothingAsked
<1>5. Announced'
  BY <1>1 DEF Announced, Late, Early, Processing
<1>6. QED
  BY <1>1, <1>2, <1>4, <1>5, OtherStep DEF Early

\* The gateway reads what was announced, and a client hears nothing else.
LEMMA SocketFlow ==
  ASSUME FlowInv,
         \/ \E c \in Client : Connect(c) \/ Read(c) \/ Disconnect(c)
         \/ StreamExpires
  PROVE  FlowInv'
<1> USE DEF FlowInv
<1>1. UNCHANGED <<mode, status, place, pins, count, name, req, tasks, results, con, log, faults>>
  BY DEF Connect, Read, Disconnect, StreamExpires, tripVars, mlVars, streamVars
<1>2. base' \in Nat
  BY DEF Connect, Read, Disconnect, StreamExpires, streamVars, Types
<1>3. /\ conn' \in [Client -> Socket]
      /\ \A c \in Client : conn'[c].got \in {conn[c].got, "none"} \cup {log[i] : i \in 1..Len(log)}
  <2>1. ASSUME NEW c \in Client, NEW s, s \in Socket, conn' = [conn EXCEPT ![c] = s],
               s.got \in {conn[c].got, "none"} \cup {log[i] : i \in 1..Len(log)}
        PROVE  <1>3
    BY <2>1 DEF Types
  <2>2. ASSUME NEW c \in Client, Connect(c)
        PROVE  <1>3
    <3> DEFINE s == [NoSocket EXCEPT !.on = TRUE]
    <3>1. s \in Socket /\ s.got = "none" /\ conn' = [conn EXCEPT ![c] = s]
      BY <2>2 DEF Connect, NoSocket, Socket
    <3> HIDE DEF s
    <3>2. QED
      BY <2>1, <3>1
  <2>3. ASSUME NEW c \in Client, Read(c)
        PROVE  <1>3
    <3>1. PICK i \in 1..Len(log) : conn' = [conn EXCEPT ![c].pos = i, ![c].got = log[i]]
      BY <2>3 DEF Read, Unread
    <3> DEFINE s == [conn[c] EXCEPT !.pos = i, !.got = log[i]]
    <3>2. i \in Nat /\ log[i] \in Reviews
      BY DEF Types
    <3>3. s \in Socket /\ s.got = log[i]
      BY <3>2 DEF Types, Socket
    <3>4. conn' = [conn EXCEPT ![c] = s]
      BY <3>1 DEF Types
    <3> HIDE DEF s
    <3>5. QED
      BY <2>1, <3>3, <3>4
  <2>4. ASSUME NEW c \in Client, Disconnect(c)
        PROVE  <1>3
    <3>1. NoSocket \in Socket /\ NoSocket.got = "none" /\ conn' = [conn EXCEPT ![c] = NoSocket]
      BY <2>4 DEF Disconnect, NoSocket, Socket
    <3>2. QED
      BY <2>1, <3>1
  <2>5. CASE StreamExpires
    BY <2>5 DEF StreamExpires, Types
  <2>6. QED
    BY <2>2, <2>3, <2>4, <2>5
<1>4. Types'
  BY <1>1, <1>2, <1>3 DEF Types
<1>5. Asked'
  BY <1>1 DEF Asked, NothingAsked, At
<1>6. Announced'
  BY <1>1, <1>3 DEF Announced, Late
<1>7. QED
  BY <1>1, <1>4, <1>5, <1>6, OtherStep

\* Whatever happens, the flow goes on as the client expects.
LEMMA FlowKept ==
  ASSUME OneRequest, FlowInv, [Next]_vars
  PROVE  FlowInv'
<1>1. CASE UNCHANGED vars
  BY <1>1 DEF vars, tripVars, mlVars, streamVars, FlowInv, Types, Asked, Announced, Works, Grouping,
              NothingAsked, Late, At, Rows
<1>2. ASSUME NEW h \in Handler, Request(h) \/ Step(h) \/ PublishTaskFails(h) \/ HandlerFails(h)
      PROVE  FlowInv'
  BY <1>2, RequestFlow, CreateBatchFlow, SetGroupingFlow, RejectMediaFlow, AssignMediaFlow,
     SetProcessingFlow, PublishTaskFlow, ReviewFlow, CreatePinFlow, EndFlow DEF Step
<1>3. QED
  BY <1>1, <1>2, MLAnswersFlow, ConsumeFlow, SetReviewFlow, AnnounceFlow, AddMediaFlow, SocketFlow
     DEF Next, FinalizeProcessing

------------------------------------------------------------------------------
(* What is reviewed, as long as nothing fails                               *)

\* Which steps write the status, the places of media, the names, the pins and the
\* number of faults.
LEMMA Writers ==
  ASSUME [Next]_vars
  PROVE  /\ status' = status \/ SetReview \/ AddMediaApply \/ AddMediaConfirm
              \/ \E h \in Handler : SetGrouping(h) \/ SetProcessing(h) \/ SetReady(h)
         /\ place' = place
              \/ \E h \in Handler : CreateBatch(h) \/ RejectMedia(h) \/ AssignMedia(h) \/ DeleteMedia(h)
         /\ name' = name \/ (\E p \in Pin : ApplySuggestion(p))
              \/ \E h \in Handler, p \in Pin : CreatePin(h, p) \/ RenamePin(h, p)
         /\ pins' = pins \/ \E h \in Handler, p \in Pin : CreatePin(h, p)
         /\ faults' = faults \/ Fault
<1> DEFINE W == <<status, place, name, pins, faults>>
<1>1. ASSUME NEW h \in Handler, Request(h)
      PROVE  UNCHANGED W
  BY <1>1 DEF Request, ProcessMediaGrouping, ApplyGroups, FinalizeTrip, tripVars
<1>2. ASSUME NEW h \in Handler, PublishTaskFails(h) \/ HandlerFails(h)
      PROVE  UNCHANGED <<status, place, name, pins>> /\ Fault
  BY <1>2 DEF PublishTaskFails, HandlerFails, tripVars
<1>3. \A h \in Handler : CreateBatch(h) \/ RejectMedia(h) \/ AssignMedia(h) \/ DeleteMedia(h)
        => UNCHANGED <<status, name, pins, faults>>
  BY DEF CreateBatch, RejectMedia, AssignMedia, DeleteMedia
<1>4. \A h \in Handler : PublishTask(h) \/ Answer(h) => UNCHANGED W
  BY DEF PublishTask, Answer, tripVars
<1>5. \A h \in Handler : SetGrouping(h) \/ SetProcessing(h) \/ SetReady(h)
        => UNCHANGED <<place, name, pins, faults>>
  BY DEF SetGrouping, SetProcessing, SetReady
<1>6. \A h \in Handler, p \in Pin :
        /\ CreatePin(h, p) => UNCHANGED <<status, place, faults>>
        /\ RenamePin(h, p) => UNCHANGED <<status, place, pins, faults>>
  BY DEF CreatePin, RenamePin
<1>7. MLAnswers \/ Deliver \/ ReadStatus \/ Ack => UNCHANGED W
  BY DEF MLAnswers, Deliver, ReadStatus, Ack, tripVars
<1>8. \A p \in Pin : ApplySuggestion(p) => UNCHANGED <<status, place, pins, faults>>
  BY DEF ApplySuggestion
<1>9. SetReview => UNCHANGED <<place, name, pins, faults>>
  BY DEF SetReview
<1>10. DeleteTripEventStream \/ Announce => UNCHANGED W
  BY DEF DeleteTripEventStream, Announce, tripVars
<1>11. FinalizeFails \/ ConsumerCrashes => UNCHANGED <<status, place, name, pins>> /\ Fault
  BY DEF FinalizeFails, ConsumerCrashes, tripVars
<1>12. AddMediaApply \/ AddMediaConfirm => UNCHANGED <<place, name, pins, faults>>
  BY DEF AddMediaApply, AddMediaConfirm
<1>13. StreamExpires \/ UNCHANGED vars => UNCHANGED W
  BY DEF StreamExpires, vars, tripVars
<1>14. \A c \in Client : Connect(c) \/ Read(c) \/ Disconnect(c) => UNCHANGED W
  BY DEF Connect, Read, Disconnect, tripVars
<1>15. ASSUME NEW h \in Handler, Step(h)
       PROVE  \/ UNCHANGED W
              \/ CreateBatch(h) \/ RejectMedia(h) \/ AssignMedia(h) \/ DeleteMedia(h)
              \/ SetGrouping(h) \/ SetProcessing(h) \/ SetReady(h)
              \/ \E p \in Pin : CreatePin(h, p) \/ RenamePin(h, p)
  BY <1>4, <1>15 DEF Step
<1>16. CASE \E h \in Handler : Request(h) \/ Step(h) \/ PublishTaskFails(h) \/ HandlerFails(h)
  BY <1>1, <1>2, <1>3, <1>5, <1>6, <1>15, <1>16
<1>17. CASE MLAnswers \/ Consume \/ FinalizeProcessing
  BY <1>7, <1>8, <1>9, <1>10, <1>17 DEF Consume, FinalizeProcessing
<1>18. CASE FinalizeFails \/ ConsumerCrashes \/ AddMediaApply \/ AddMediaConfirm
  BY <1>11, <1>12, <1>18
<1>19. CASE StreamExpires \/ UNCHANGED vars \/ \E c \in Client : Connect(c) \/ Read(c) \/ Disconnect(c)
  BY <1>13, <1>14, <1>19
<1>20. QED
  BY <1>16, <1>17, <1>18, <1>19 DEF Next

\* Only an announcement, and nothing that writes a status, is put on the stream.
LEMMA Loggers ==
  ASSUME [Next]_vars, ~SetReview, ~Announce
  PROVE  log' = log
<1>1. ASSUME NEW h \in Handler, Request(h) \/ PublishTaskFails(h) \/ HandlerFails(h)
      PROVE  log' = log
  BY <1>1 DEF Request, ProcessMediaGrouping, ApplyGroups, FinalizeTrip, PublishTaskFails, HandlerFails,
              streamVars
<1>2. ASSUME NEW h \in Handler, Step(h)
      PROVE  log' = log
  BY <1>2 DEF Step, CreateBatch, SetGrouping, RejectMedia, AssignMedia, SetProcessing, PublishTask, Answer,
              DeleteMedia, SetReady, CreatePin, RenamePin, streamVars
<1>3. MLAnswers \/ Consume \/ ConsumerCrashes \/ FinalizeFails => log' = log
  BY DEF MLAnswers, Consume, Deliver, ReadStatus, Ack, ApplySuggestion, ConsumerCrashes, FinalizeFails,
         streamVars
<1>4. DeleteTripEventStream \/ AddMediaApply \/ AddMediaConfirm \/ StreamExpires \/ UNCHANGED vars
        => log' = log
  BY DEF DeleteTripEventStream, AddMediaApply, AddMediaConfirm, StreamExpires, vars, streamVars
<1>5. \A c \in Client : Connect(c) \/ Read(c) \/ Disconnect(c) => log' = log
  BY DEF Connect, Read, Disconnect, streamVars
<1>6. QED
  BY <1>1, <1>2, <1>3, <1>4, <1>5 DEF Next, FinalizeProcessing

\* Failures, crashes and lost publications are counted, and nothing else is.
LEMMA Faultless ==
  ASSUME FlowInv, [Next]_vars, faults' = 0
  PROVE  faults = 0 /\ ~Fault
<1>1. faults \in Nat
  BY DEF FlowInv, Types
<1>2. QED
  BY <1>1, Writers DEF Fault

\* A step that leaves media and pins alone leaves the pins as full as they were.
LEMMA FullnessStays ==
  ASSUME Fullness, UNCHANGED <<place, pins, count>>,
         \A h \in Handler :
           req'[h].pc \notin {"reject", "createPin", "assign"} \/ req'[h] = req[h],
         status' \in {"DRAFT", "DRAFT_GROUPING_REVIEW"}
           /\ (\A h \in Handler : req'[h].pc \notin {"createPin", "assign"}) =>
             /\ status \in {"DRAFT", "DRAFT_GROUPING_REVIEW"}
             /\ \A h \in Handler : req[h].pc \notin {"createPin", "assign"},
         Fresh' => Fresh,
         status' \notin {"DRAFT", "DRAFT_GROUPING_REVIEW"} =>
           status \notin {"DRAFT", "DRAFT_GROUPING_REVIEW"}
  PROVE  Fullness'
<1>1. /\ \A p : InPin(p)' = InPin(p)
      /\ \A p : Full(p)' = Full(p) /\ Rest(p)' = Rest(p)
      /\ Rows' = Rows
  BY DEF InPin, Full, Rest, Rows
<1>2. \A h \in Handler : req'[h] = req[h] =>
        \A p : Given(h, p)' = Given(h, p) /\ Due(h, p)' = Due(h, p)
  BY <1>1 DEF Given, Due, Asks
<1>3. \A h \in Handler :
        /\ At(h, "reject")' => \A m \in req'[h].media : req'[h].group[m] = NoPin
        /\ req'[h].pc \in {"reject", "createPin", "assign"} =>
             \A m \in Media : req'[h].group[m] # NoPin => m \in Rows'
        /\ At(h, "createPin")' => \A p \in pins' : Given(h, p)'
        /\ At(h, "assign")' => \E p \in pins' : Due(h, p)' /\ \A q \in pins' \ {p} : Given(h, q)'
  BY <1>1, <1>2 DEF Fullness, At
<1>4. QED
  BY <1>1, <1>3 DEF Fullness

\* New rows are in no pin.
LEMMA CreateBatchFull ==
  ASSUME OneRequest, FlowInv, Fullness, NEW h \in Handler, CreateBatch(h)
  PROVE  Fullness'
<1>1. /\ status = "DRAFT" /\ status' = status /\ pins' = pins /\ At(h, "insert")
  BY DEF CreateBatch, FlowInv, Works, At
<1>2. req'[h].pc = "setGrouping" /\ \A g \in Handler : g = h
  BY GotoMoves DEF CreateBatch, FlowInv, OneRequest, Steps
<1>3. pins' = {}
  BY <1>1, <1>2 DEF Fullness, At
<1>4. QED
  BY <1>1, <1>2, <1>3 DEF Fullness, At

\* What the client rejects is in none of its groups.
LEMMA ApplyGroupsFull ==
  ASSUME OneRequest, FlowInv, Fullness, NEW h \in Handler, NEW ms \in SUBSET Media,
         NEW g \in [Media -> Pin \cup {NoPin}], ApplyGroups(h, g, ms)
  PROVE  Fullness'
<1>1. /\ status = "DRAFT_GROUPING_REVIEW" /\ UNCHANGED <<status, place, pins, count>> /\ Idle(h)
      /\ \A m \in Media : m \in ms \/ g[m] # NoPin => m \in Rows
      /\ \A m \in ms : g[m] = NoPin
  BY DEF ApplyGroups, tripVars
<1>2. req'[h].pc = "reject" /\ req'[h].media = ms /\ req'[h].group = g
  BY DEF ApplyGroups, FlowInv, Types, Requests
<1>3. Rows' = Rows /\ \A f \in Handler : f = h
  BY <1>1 DEF Rows, OneRequest
<1>4. QED
  BY <1>1, <1>2, <1>3 DEF Fullness, At, Idle

\* A rejected media was to be in no pin.
LEMMA RejectMediaFull ==
  ASSUME OneRequest, FlowInv, Fullness, NEW h \in Handler, RejectMedia(h)
  PROVE  Fullness'
<1>1. /\ status = "DRAFT_GROUPING_REVIEW" /\ UNCHANGED <<status, pins, count>> /\ At(h, "reject")
      /\ \A f \in Handler : f = h
  BY DEF RejectMedia, FlowInv, Works, At, OneRequest
<1>2. /\ req'[h].pc = "createPin" /\ req'[h].group = req[h].group
  BY GotoMoves DEF RejectMedia, FlowInv, Steps
<1>3. pins = {}
  BY <1>1 DEF Fullness, At
<1>4. \A m \in Media : req[h].group[m] # NoPin => m \in Rows'
  <2>1. \A m \in Media : req[h].group[m] # NoPin => m \in Rows /\ m \notin req[h].media
    BY <1>1 DEF Fullness, At
  <2>2. \A m \in Media : m \notin req[h].media => place'[m] = place[m]
    BY DEF RejectMedia
  <2>3. QED
    BY <2>1, <2>2 DEF Rows
<1>5. QED
  BY <1>1, <1>2, <1>3, <1>4 DEF Fullness, At

\* A new pin is empty and knows what it is to get.
LEMMA CreatePinFull ==
  ASSUME OneRequest, FlowInv, Fullness, NEW h \in Handler, NEW p \in Pin, CreatePin(h, p)
  PROVE  Fullness'
<1>1. /\ status = "DRAFT_GROUPING_REVIEW" /\ UNCHANGED <<status, place>> /\ At(h, "createPin")
      /\ p \notin pins /\ Asks(h, p) # {} /\ pins' = pins \cup {p}
      /\ count'[p] = Cardinality(Asks(h, p)) /\ \A q \in Pin \ {p} : count'[q] = count[q]
      /\ \A f \in Handler : f = h
  BY DEF CreatePin, ToCreate, FlowInv, Types, Works, At, OneRequest, Asks
<1>2. /\ req'[h].pc = "assign" /\ req'[h].group = req[h].group
  BY GotoMoves DEF CreatePin, FlowInv, Steps
<1>3. /\ Rows' = Rows /\ \A q : InPin(q)' = InPin(q) /\ Asks(h, q)' = Asks(h, q)
  BY <1>1, <1>2 DEF Rows, InPin, Asks
<1>4. Due(h, p)'
  <2>1. InPin(p) = {}
    BY <1>1 DEF InPin, FlowInv, Types
  <2>2. QED
    BY <1>1, <1>3, <2>1 DEF Due
<1>5. \A q \in pins' \ {p} : Given(h, q)'
  <2>1. \A q \in pins : Given(h, q) /\ q \in Pin
    BY <1>1 DEF Fullness, FlowInv, Types
  <2>2. QED
    BY <1>1, <1>3, <2>1 DEF Given
<1>6. \A m \in Media : req[h].group[m] # NoPin => m \in Rows
  BY <1>1 DEF Fullness, At
<1>7. QED
  BY <1>1, <1>2, <1>3, <1>4, <1>5, <1>6 DEF Fullness, Fresh, At

\* Exactly the media the request named are put in the pin.
LEMMA AssignMediaFull ==
  ASSUME OneRequest, FlowInv, Fullness, NEW h \in Handler, AssignMedia(h)
  PROVE  Fullness'
<1>1. /\ status = "DRAFT_GROUPING_REVIEW" /\ UNCHANGED <<status, pins, count>> /\ At(h, "assign")
      /\ \A f \in Handler : f = h
  BY DEF AssignMedia, FlowInv, Works, At, OneRequest
<1>2. /\ req'[h].pc = "createPin" /\ req'[h].group = req[h].group
  BY GotoMoves DEF AssignMedia, FlowInv, Steps
<1>3. /\ \A q : Asks(h, q)' = Asks(h, q)
      /\ \A m \in Media : req[h].group[m] # NoPin => m \in Rows
      /\ pins \subseteq Pin /\ NoPin \notin pins
  BY <1>1, <1>2, NullsAssumption DEF Asks, Fullness, At, FlowInv, Types
<1>4. \A m \in Media : place'[m] = IF req[h].group[m] \in pins THEN req[h].group[m] ELSE place[m]
  BY <1>3 DEF AssignMedia
<1>5. PICK p \in pins : Due(h, p) /\ \A q \in pins \ {p} : Given(h, q)
  BY <1>1 DEF Fullness
<1>6. Given(h, p)'
  <2>1. InPin(p)' = Asks(h, p)
    BY <1>4, <1>5 DEF InPin, Asks, Due
  <2>2. QED
    BY <1>1, <1>3, <1>5, <2>1 DEF Given, Due
<1>7. \A q \in pins \ {p} : Given(h, q)'
  <2>1. \A q \in pins \ {p} : InPin(q)' = Asks(h, q)
    BY <1>4, <1>5 DEF InPin, Asks, Given
  <2>2. QED
    BY <1>1, <1>3, <1>5, <2>1 DEF Given
<1>8. \A m \in Media : req[h].group[m] # NoPin => m \in Rows'
  BY <1>3, <1>4 DEF Rows
<1>9. QED
  BY <1>1, <1>2, <1>6, <1>7, <1>8 DEF Fullness, Fresh, At

\* When there is nothing left to create, every pin has what it was to get.
LEMMA SetProcessingFull ==
  ASSUME OneRequest, FlowInv, Fullness, NEW h \in Handler, SetProcessing(h)
  PROVE  Fullness'
<1>1. /\ status' = "PROCESSING" /\ UNCHANGED <<place, pins, count>> /\ At(h, "createPin")
      /\ \A f \in Handler : f = h
  BY DEF SetProcessing, SetStatus, OneRequest
<1>2. req'[h].pc \in {"publishTask", "setReview"}
  BY GotoMoves DEF SetProcessing, FlowInv, Steps
<1>3. \A p \in pins : Full(p)'
  <2>1. \A p \in pins : Given(h, p)
    BY <1>1 DEF Fullness
  <2>2. \A p \in pins : Full(p)
    BY <2>1 DEF Given, Full
  <2>3. QED
    BY <1>1, <2>2 DEF Full, InPin
<1>4. \A p \in pins : Rest(p)'
  BY <1>3 DEF Rest
<1>5. QED
  BY <1>1, <1>2, <1>3, <1>4 DEF Fullness, At

\* Deleted media leave a pin with fewer than its number says.
LEMMA DeleteMediaFull ==
  ASSUME OneRequest, FlowInv, Fullness, NEW h \in Handler, DeleteMedia(h), req[h].media \subseteq Rows
  PROVE  Fullness'
<1>1. /\ status \in {"PROCESSING", "DRAFT_FINAL_REVIEW"} /\ UNCHANGED <<status, pins, count>>
      /\ \A g \in Handler : g = h
  BY DEF DeleteMedia, FlowInv, Works, At, OneRequest
<1>2. req'[h].pc = "setReady"
  BY GotoMoves DEF DeleteMedia, FlowInv, Steps
<1>3. ASSUME NEW p \in pins
      PROVE  Rest(p)'
  <2>1. \A m \in Media : place'[m] = place[m] \/ place'[m] = "DELETED"
    BY DEF DeleteMedia
  <2>2. InPin(p)' \subseteq InPin(p) /\ IsFiniteSet(InPin(p))
    <3>1. p # "DELETED" /\ InPin(p) \subseteq Media
      BY PlacesAssumption DEF FlowInv, Types, InPin
    <3>2. QED
      BY <2>1, <3>1, MediaAssumption, FS_Subset DEF InPin
  <2>3. Rest(p) /\ count'[p] = count[p] /\ count[p] \in Nat
    BY <1>1 DEF Fullness, FlowInv, Types
  <2>4. CASE InPin(p)' = InPin(p)
    BY <2>3, <2>4 DEF Rest, Full
  <2>5. CASE InPin(p)' # InPin(p)
    <3>1. /\ Cardinality(InPin(p)') < Cardinality(InPin(p))
          /\ Cardinality(InPin(p)) \in Nat /\ Cardinality(InPin(p)') \in Nat
      BY <2>2, <2>5, FS_Subset, FS_CardinalityType
    <3>2. Cardinality(InPin(p)) <= count[p]
      BY <2>3, <3>1 DEF Rest, Full
    <3>3. QED
      BY <2>3, <3>1, <3>2 DEF Rest
  <2>6. QED
    BY <2>4, <2>5
<1>4. QED
  BY <1>1, <1>2, <1>3 DEF Fullness, Fresh, At

\* Nothing else touches a pin that is under review.
LEMMA FullnessKept ==
  ASSUME OneRequest, FlowInv, Fullness, Next, faults' = 0
  PROVE  Fullness'
<1> USE DEF At, Fresh
<1>1. ~Fault /\ \A g, h \in Handler : g = h
  BY Faultless DEF OneRequest
<1>2. ASSUME NEW h \in Handler, Request(h)
      PROVE  Fullness'
  <2>1. ASSUME NEW ms \in SUBSET Media, ProcessMediaGrouping(h, ms)
        PROVE  Fullness'
    <3>1. /\ UNCHANGED <<mode, status, place, pins, count>> /\ Idle(h) /\ status = "DRAFT"
      BY <2>1 DEF ProcessMediaGrouping, tripVars
    <3>2. req'[h].pc = "insert"
      BY <2>1 DEF ProcessMediaGrouping, FlowInv, Types, Requests
    <3>3. QED
      BY <1>1, <3>1, <3>2, FullnessStays DEF Idle
  <2>2. ASSUME NEW ms \in SUBSET Media, NEW renamed \in SUBSET Pin, FinalizeTrip(h, renamed, ms)
        PROVE  Fullness'
    <3>1. /\ UNCHANGED <<mode, status, place, pins, count>> /\ Idle(h)
          /\ status \in {"DRAFT_FINAL_REVIEW", "PROCESSING"}
      BY <2>2 DEF FinalizeTrip, tripVars
    <3>2. req'[h].pc = "rename"
      BY <2>2 DEF FinalizeTrip, FlowInv, Types, Requests
    <3>3. QED
      BY <1>1, <3>1, <3>2, FullnessStays DEF Idle
  <2>3. QED
    BY <1>2, <2>1, <2>2, ApplyGroupsFull DEF Request
<1>3. ASSUME NEW h \in Handler, SetGrouping(h) \/ PublishTask(h) \/ Answer(h)
      PROVE  Fullness'
  <2>1. /\ UNCHANGED <<mode, place, pins, count>> /\ req'[h].pc = "idle"
        /\ req[h].pc \in {"setGrouping", "publishTask", "ack"}
        /\ status' = status \/ (status = "DRAFT" /\ status' = "DRAFT_GROUPING_REVIEW")
    BY <1>3, FinishMoves, NoRequestType
       DEF SetGrouping, SetStatus, PublishTask, Answer, tripVars, FlowInv, Works
  <2>2. QED
    BY <1>1, <2>1, FullnessStays
<1>4. ASSUME NEW h \in Handler, DeleteMedia(h) \/ SetReady(h)
      PROVE  Fullness'
  <2>1. UNCHANGED <<mode, pins, count>> /\ status \in {"PROCESSING", "DRAFT_FINAL_REVIEW"}
    <3>1. UNCHANGED <<mode, pins, count>> /\ req[h].pc \in {"rename", "setReady"}
      BY <1>4 DEF DeleteMedia, SetReady
    <3>2. QED
      BY <3>1 DEF FlowInv, Works
  <2>2. CASE DeleteMedia(h) /\ req[h].media \subseteq Rows
    BY <2>2, DeleteMediaFull
  <2>3. CASE DeleteMedia(h) /\ ~(req[h].media \subseteq Rows)
    <3>1. UNCHANGED <<place, status>> /\ req[h].pc = "rename" /\ req'[h].pc = "idle"
      BY <2>3, FinishMoves, NoRequestType DEF DeleteMedia, FlowInv
    <3>2. QED
      BY <1>1, <2>1, <3>1, FullnessStays
  <2>4. CASE SetReady(h)
    <3>1. UNCHANGED place /\ req'[h].pc = "idle" /\ status' = "READY"
      BY <2>4, FinishMoves, NoRequestType DEF SetReady, SetStatus, FlowInv
    <3>2. QED
      BY <1>1, <2>1, <3>1, FullnessStays
  <2>5. QED
    BY <1>4, <2>2, <2>3, <2>4
<1>5. ASSUME NEW h \in Handler, NEW p \in Pin, RenamePin(h, p)
      PROVE  Fullness'
  <2>1. UNCHANGED <<mode, status, place, pins, count>> /\ req[h].pc = "rename"
    BY <1>5 DEF RenamePin
  <2>2. req'[h].pc = "rename"
    BY <1>5, <2>1 DEF RenamePin, FlowInv, Types, Requests
  <2>3. status \in {"PROCESSING", "DRAFT_FINAL_REVIEW"}
    BY <2>1 DEF FlowInv, Works
  <2>4. QED
    BY <1>1, <2>1, <2>2, <2>3, FullnessStays
<1>6. ASSUME NEW h \in Handler, Step(h)
      PROVE  Fullness'
  BY <1>3, <1>4, <1>5, <1>6, CreateBatchFull, RejectMediaFull, CreatePinFull, AssignMediaFull,
     SetProcessingFull DEF Step
<1>7. CASE FinalizeProcessing
  <2>1. UNCHANGED <<mode, place, pins, count>>
    BY <1>7 DEF FinalizeProcessing, SetReview, DeleteTripEventStream, Announce, tripVars
  <2>2. \A h \in Handler : \/ req'[h] = req[h]
                            \/ /\ req[h].pc \in {"setReview", "deleteStream", "announce"}
                               /\ req'[h].pc \in {"deleteStream", "announce", "ack"}
    <3>1. PICK from \in {"setReview", "deleteStream", "announce"},
               to \in {"deleteStream", "announce", "ack"} : Finalizing(from, to)
      BY <1>7 DEF FinalizeProcessing, SetReview, DeleteTripEventStream, Announce
    <3>2. ASSUME NEW h \in Handler, At(h, from), Goto(h, to)
          PROVE  req'[h].pc = to
      BY <3>2, GotoMoves DEF FlowInv, Steps
    <3>3. QED
      BY <1>1, <3>1, <3>2 DEF Finalizing
  <2>3. CASE SetReview
    <3>1. \/ status = "PROCESSING" /\ status' = "DRAFT_FINAL_REVIEW"
          \/ Overtaken /\ status = "READY"
          \/ status = "ADD_MEDIA_PROCESSING"
      BY <2>3, SetReviewFlow
    <3>2. /\ status' \in {"DRAFT_FINAL_REVIEW", "ADD_MEDIA_DRAFT_FINAL_REVIEW"}
          /\ status \notin {"DRAFT", "DRAFT_GROUPING_REVIEW"}
      BY <2>3, SetReviewFlow
    <3>3. con.pc = "setReview" => mode = "ml"
      BY ConsumerAlone DEF NoDelivery
    <3>4. status # "PROCESSING" /\ status' = "DRAFT_FINAL_REVIEW" => mode = "ml"
      BY <2>3, <3>3, SetReviewFlow DEF Overtaken
    <3>5. Fresh' => Fresh
      BY <2>1, <2>2, <3>1, <3>2, <3>4
    <3>6. QED
      BY <2>1, <2>2, <3>2, <3>5, FullnessStays
  <2>4. CASE DeleteTripEventStream \/ Announce
    <3>1. status' = status
      BY <2>4 DEF DeleteTripEventStream, Announce, tripVars
    <3>2. QED
      BY <2>1, <2>2, <3>1, FullnessStays
  <2>5. QED
    BY <1>7, <2>3, <2>4 DEF FinalizeProcessing
<1>8. CASE MLAnswers \/ Consume \/ AddMediaApply \/ AddMediaConfirm \/ StreamExpires
           \/ \E c \in Client : Connect(c) \/ Read(c) \/ Disconnect(c)
  <2>1. /\ UNCHANGED <<mode, place, pins, count, req>>
        /\ \/ status' = status
           \/ /\ status' \in {"ADD_MEDIA_PROCESSING", "READY"}
              /\ status \in {"ADD_MEDIA_DRAFT_FINAL_REVIEW", "READY"}
    <3>1. CASE MLAnswers \/ Consume
      BY <3>1 DEF MLAnswers, Consume, Deliver, ReadStatus, Ack, ApplySuggestion, tripVars
    <3>2. CASE AddMediaApply \/ AddMediaConfirm
      BY <3>2 DEF AddMediaApply, AddMediaConfirm, SetStatus
    <3>3. CASE StreamExpires \/ \E c \in Client : Connect(c) \/ Read(c) \/ Disconnect(c)
      BY <3>3 DEF Connect, Read, Disconnect, StreamExpires, tripVars
    <3>4. QED
      BY <1>8, <3>1, <3>2, <3>3
  <2>2. QED
    BY <2>1, FullnessStays
<1>9. QED
  BY <1>1, <1>2, <1>6, <1>7, <1>8
     DEF Next, PublishTaskFails, HandlerFails, FinalizeFails, ConsumerCrashes

------------------------------------------------------------------------------
(* Names                                                                    *)

\* How the consumer comes to bring a review, and goes on with it.
LEMMA ConsumerMoves ==
  ASSUME FlowInv, [Next]_vars, con'.pc \in {"setReview", "deleteStream", "announce"}
  PROVE  \/ con' = con
         \/ /\ ReadStatus /\ status \in Processing
            /\ con'.pc = "setReview" /\ con'.target = Target[status]
         \/ /\ con.pc \in {"setReview", "deleteStream"} /\ con'.pc # "setReview"
            /\ con'.target = con.target
<1>1. con \in Delivery
  BY DEF FlowInv, Types
<1>2. CASE UNCHANGED vars \/ MLAnswers \/ AddMediaApply \/ AddMediaConfirm \/ StreamExpires
           \/ \E c \in Client : Connect(c) \/ Read(c) \/ Disconnect(c)
  BY <1>2 DEF vars, mlVars, MLAnswers, AddMediaApply, AddMediaConfirm, StreamExpires, Connect, Read,
              Disconnect
<1>3. ASSUME NEW h \in Handler, Request(h) \/ Step(h) \/ PublishTaskFails(h) \/ HandlerFails(h)
      PROVE  con' = con
  <2>1. CASE Request(h) \/ PublishTaskFails(h) \/ HandlerFails(h)
    BY <2>1 DEF Request, ProcessMediaGrouping, ApplyGroups, FinalizeTrip, PublishTaskFails, HandlerFails,
                mlVars
  <2>2. CASE CreateBatch(h) \/ SetGrouping(h) \/ RejectMedia(h) \/ AssignMedia(h) \/ SetProcessing(h)
    BY <2>2 DEF CreateBatch, SetGrouping, RejectMedia, AssignMedia, SetProcessing, mlVars
  <2>3. CASE PublishTask(h) \/ Answer(h) \/ DeleteMedia(h) \/ SetReady(h)
    BY <2>3 DEF PublishTask, Answer, DeleteMedia, SetReady, mlVars
  <2>4. ASSUME NEW p \in Pin, CreatePin(h, p) \/ RenamePin(h, p)
        PROVE  con' = con
    BY <2>4 DEF CreatePin, RenamePin, mlVars
  <2>5. QED
    BY <1>3, <2>1, <2>2, <2>3, <2>4 DEF Step
<1>4. CASE Consume \/ ConsumerCrashes
  <2>1. ~Deliver /\ ~Ack /\ ~ConsumerCrashes
    <3>1. Deliver => con'.pc = "suggest"
      BY DEF Deliver, NoDelivery
    <3>2. Ack \/ ConsumerCrashes => con'.pc = "idle"
      BY DEF Ack, ConsumerCrashes, NoDelivery
    <3>3. QED
      BY <3>1, <3>2
  <2>2. ASSUME NEW p \in Pin, ApplySuggestion(p)
        PROVE  FALSE
    BY <1>1, <2>2 DEF ApplySuggestion, Delivery
  <2>3. ReadStatus
    BY <1>4, <2>1, <2>2 DEF Consume
  <2>4. CASE status \in Processing
    BY <1>1, <2>3, <2>4 DEF ReadStatus, Delivery
  <2>5. CASE status \notin Processing
    BY <1>1, <2>3, <2>5 DEF ReadStatus, Delivery
  <2>6. QED
    BY <2>4, <2>5
<1>5. CASE FinalizeProcessing \/ FinalizeFails
  <2>1. \/ Finalizing("setReview", "deleteStream") \/ Finalizing("deleteStream", "announce")
        \/ Finalizing("announce", "ack") \/ Finalizing("setReview", "ack")
    BY <1>5 DEF FinalizeProcessing, FinalizeFails, SetReview, DeleteTripEventStream, Announce
  <2>2. QED
    BY <1>1, <2>1 DEF Finalizing, Delivery, mlVars
<1>6. QED
  BY <1>2, <1>3, <1>4, <1>5 DEF Next

\* While suggestions are spent the consumer renames nothing.
LEMMA NameKept ==
  ASSUME FlowInv, Names, Reviewed, [Next]_vars, NEW p \in Pin, name[p] = "user"
  PROVE  name'[p] = "user"
<1>1. name \in [Pin -> {"default", "user", "ml"}] /\ p \in pins /\ con.todo = {}
  BY DEF FlowInv, Types, Names, Spent
<1>2. ASSUME NEW h \in Handler, NEW q \in Pin, CreatePin(h, q)
      PROVE  name'[p] = "user"
  BY <1>1, <1>2 DEF CreatePin, ToCreate
<1>3. ASSUME NEW h \in Handler, NEW q \in Pin, RenamePin(h, q)
      PROVE  name'[p] = "user"
  BY <1>1, <1>3 DEF RenamePin
<1>4. ASSUME NEW q \in Pin, ApplySuggestion(q)
      PROVE  FALSE
  BY <1>1, <1>4 DEF ApplySuggestion
<1>5. QED
  BY <1>2, <1>3, <1>4, Writers

\* With the one result of a new trip applied, nothing is left to suggest.
LEMMA SpentWhenRead ==
  ASSUME FlowInv, ReadStatus, status = "PROCESSING"
  PROVE  Spent'
<1>1. /\ tasks \in Seq(SUBSET Pin) /\ results \in Seq(SUBSET Pin) /\ con \in Delivery
      /\ results # <<>> /\ Len(tasks) + Len(results) <= 1 /\ con.todo = {}
  BY DEF FlowInv, Types, Asked, ReadStatus
<1>2. Len(tasks) = 0 /\ Len(results) = 1
  <2>1. Len(results) # 0 /\ Len(results) \in Nat /\ Len(tasks) \in Nat
    BY <1>1
  <2>2. \A a, b \in Nat : a + b <= 1 /\ b # 0 => a = 0 /\ b = 1
    OBVIOUS
  <2>3. QED
    BY <1>1, <2>1, <2>2
<1>3. con'.todo = {} /\ con'.pc # "idle" /\ UNCHANGED <<tasks, results>>
  BY <1>1 DEF ReadStatus, Delivery, Processing
<1>4. Len(tasks') = 0 /\ Len(results') = 1
  BY <1>2, <1>3
<1>5. /\ \A i \in 1..Len(tasks') : tasks'[i] = {}
      /\ \A i \in 1..Len(results') : i = 1
  BY <1>4
<1>6. QED
  BY <1>3, <1>5 DEF Spent

\* A trip whose review has come is asked about again only with nothing to suggest.
LEMMA SpentStays ==
  ASSUME FlowInv, Reviewed \/ Bringing, Spent, Next, ~Fault
  PROVE  Spent'
<1>1. tasks \in Seq(SUBSET Pin) /\ results \in Seq(SUBSET Pin) /\ con \in Delivery
  BY DEF FlowInv, Types
<1>2. UNCHANGED mlVars => Spent'
  BY DEF mlVars, Spent
<1>3. ASSUME NEW h \in Handler, Request(h) \/ PublishTaskFails(h) \/ HandlerFails(h)
      PROVE  UNCHANGED mlVars
  BY <1>3 DEF Request, ProcessMediaGrouping, ApplyGroups, FinalizeTrip, PublishTaskFails, HandlerFails
<1>4. ASSUME NEW h \in Handler, Step(h)
      PROVE  UNCHANGED mlVars
  <2>1. ~PublishTask(h)
    <3>1. SUFFICES ASSUME At(h, "publishTask")
                   PROVE  FALSE
      BY DEF PublishTask
    <3>2. status = "PROCESSING" /\ ~Late
      BY <3>1 DEF FlowInv, Works, At, Late, Early
    <3>3. ~Reviewed
      BY <3>2 DEF FlowInv, Announced, Reviewed
    <3>4. con = NoDelivery
      BY <3>1 DEF FlowInv, Asked, NothingAsked
    <3>5. QED
      BY <3>3, <3>4 DEF Bringing, NoDelivery
  <2>2. CreateBatch(h) \/ SetGrouping(h) \/ RejectMedia(h) \/ AssignMedia(h) \/ SetProcessing(h)
          => UNCHANGED mlVars
    BY DEF CreateBatch, SetGrouping, RejectMedia, AssignMedia, SetProcessing
  <2>3. Answer(h) \/ DeleteMedia(h) \/ SetReady(h) => UNCHANGED mlVars
    BY DEF Answer, DeleteMedia, SetReady
  <2>4. \A p \in Pin : CreatePin(h, p) \/ RenamePin(h, p) => UNCHANGED mlVars
    BY DEF CreatePin, RenamePin
  <2>5. QED
    BY <1>4, <2>1, <2>2, <2>3, <2>4 DEF Step
<1>5. CASE MLAnswers
  <2>1. /\ tasks # <<>> /\ tasks' = Tail(tasks) /\ results' = Append(results, Head(tasks))
        /\ con' = con
    BY <1>5 DEF MLAnswers
  <2>2. Head(tasks) = {}
    BY <1>1, <2>1 DEF Spent
  <2>3. \A i \in 1..Len(tasks') : tasks'[i] = {}
    BY <1>1, <2>1 DEF Spent
  <2>4. \A i \in 1..Len(results') : results'[i] = {} \/ (i = 1 /\ con'.pc # "idle")
    <3>1. Len(results') = Len(results) + 1 /\ Len(results) \in Nat
      BY <1>1, <2>1, <2>2
    <3>2. \A i \in 1..Len(results) : results'[i] = results[i]
      BY <1>1, <2>1, <2>2
    <3>3. results'[Len(results) + 1] = {}
      BY <1>1, <2>1, <2>2
    <3>4. QED
      BY <2>1, <3>1, <3>2, <3>3 DEF Spent
  <2>5. QED
    BY <2>1, <2>3, <2>4 DEF Spent
<1>6. CASE Deliver
  <2>1. UNCHANGED <<tasks, results>> /\ con.pc = "idle" /\ results # <<>>
    BY <1>6 DEF Deliver
  <2>2. Head(results) = {}
    BY <1>1, <2>1 DEF Spent
  <2>3. con'.todo = {}
    BY <1>6, <2>2 DEF Deliver, NoDelivery
  <2>4. QED
    BY <2>1, <2>3 DEF Spent
<1>7. CASE ReadStatus \/ FinalizeProcessing
  <2>1. UNCHANGED <<tasks, results>>
    BY <1>7 DEF ReadStatus, FinalizeProcessing, SetReview, DeleteTripEventStream, Announce,
                Finalizing, mlVars
  <2>2. con' = con \/ (con'.todo = con.todo /\ con'.pc # "idle")
    BY <1>1, <1>7 DEF ReadStatus, FinalizeProcessing, SetReview, DeleteTripEventStream, Announce,
                Finalizing, mlVars, Delivery
  <2>3. QED
    BY <2>1, <2>2 DEF Spent
<1>8. CASE Ack
  <2>1. results # <<>>
    BY <1>8 DEF Ack, FlowInv, Asked
  <2>2. tasks' = tasks /\ results' = Tail(results) /\ con' = NoDelivery
    BY <1>8 DEF Ack
  <2>3. \A i \in 1..Len(results') : results'[i] = {}
    <3>1. \A i \in 1..Len(results') : results'[i] = results[i + 1] /\ i + 1 \in 1..Len(results) /\ i + 1 # 1
      BY <1>1, <2>1, <2>2
    <3>2. QED
      BY <3>1 DEF Spent
  <2>4. QED
    BY <2>2, <2>3 DEF Spent, NoDelivery
<1>9. ASSUME NEW p \in Pin, ApplySuggestion(p)
      PROVE  FALSE
  BY <1>9 DEF ApplySuggestion, Spent
<1>10. CASE AddMediaApply
  <2>1. tasks' = Append(tasks, {}) /\ results' = results /\ con' = con
    BY <1>10 DEF AddMediaApply
  <2>2. \A i \in 1..Len(tasks') : tasks'[i] = {}
    <3>1. {} \in SUBSET Pin
      OBVIOUS
    <3>2. /\ Len(tasks') = Len(tasks) + 1 /\ Len(tasks) \in Nat /\ tasks'[Len(tasks) + 1] = {}
          /\ \A i \in 1..Len(tasks) : tasks'[i] = tasks[i]
      BY <1>1, <2>1, <3>1
    <3>3. QED
      BY <3>2 DEF Spent
  <2>3. QED
    BY <2>1, <2>2 DEF Spent
<1>11. AddMediaConfirm \/ StreamExpires => UNCHANGED mlVars
  BY DEF AddMediaConfirm, StreamExpires
<1>12. ASSUME NEW c \in Client, Connect(c) \/ Read(c) \/ Disconnect(c)
      PROVE  UNCHANGED mlVars
  BY <1>12 DEF Connect, Read, Disconnect
<1>13. QED
  BY <1>2, <1>3, <1>4, <1>5, <1>6, <1>7, <1>8, <1>9, <1>10, <1>11, <1>12
     DEF Next, Consume, FinalizeFails, ConsumerCrashes

\* The review comes with the suggestions spent, and names are those of pins.
LEMMA NamesKept ==
  ASSUME OneRequest, FlowInv, FlowInv', Names, Next, ~Fault
  PROVE  Names'
<1>1. Reviewed' \/ Bringing' => Spent'
  <2>1. CASE Reviewed \/ Bringing
    BY <2>1, SpentStays DEF Names
  <2>2. CASE mode' # "ml"
    BY <2>2 DEF FlowInv, Asked, NothingAsked, NoDelivery, Spent
  <2>3. CASE ~Reviewed /\ ~Bringing /\ mode' = "ml" /\ Bringing'
    <3>1. ReadStatus /\ status \in Processing /\ con'.target = Target[status]
      BY <2>3, ConsumerMoves DEF Bringing
    <3>2. status = "PROCESSING"
      BY <2>3, <3>1 DEF Bringing, Target, Processing
    <3>3. QED
      BY <3>1, <3>2, SpentWhenRead
  <2>4. CASE ~Reviewed /\ ~Bringing /\ mode' = "ml" /\ ~Bringing' /\ Reviewed'
    <3>1. ~SetReview
      <4>1. SUFFICES ASSUME SetReview
                     PROVE  FALSE
        OBVIOUS
      <4>2. mode' = mode /\ log' = log
        BY <4>1 DEF SetReview, streamVars
      <4>3. con.pc = "setReview" /\ status' = con.target
        BY <2>4, <4>1, <4>2, SetReviewFlow
      <4>4. status' = "DRAFT_FINAL_REVIEW"
        BY <2>4, <4>2 DEF Reviewed
      <4>5. QED
        BY <2>4, <4>3, <4>4 DEF Bringing
    <3>2. ~Announce
      <4>1. SUFFICES ASSUME Announce
                     PROVE  FALSE
        OBVIOUS
      <4>2. UNCHANGED <<mode, status>> /\ log' = Append(log, FinalStatus)
        BY <4>1 DEF Announce, tripVars
      <4>3. con.pc = "announce" /\ con.target \in Reviews
        <5>1. \A h \in Handler : ~At(h, "announce")
          BY <2>4, <4>2 DEF FlowInv, Works, At
        <5>2. con.pc = "announce"
          BY <4>1, <5>1 DEF Announce, Finalizing
        <5>3. QED
          BY <5>2 DEF FlowInv, Announced, Types, Delivery
      <4>4. log \in Seq(Reviews) /\ log' = Append(log, con.target) /\ con.target # "DRAFT_FINAL_REVIEW"
        BY <2>4, <4>2, <4>3 DEF FlowInv, Types, FinalStatus, Bringing
      <4>5. \A i \in 1..Len(log') : log'[i] # "DRAFT_FINAL_REVIEW"
        <5>1. \A i \in 1..Len(log) : log[i] # "DRAFT_FINAL_REVIEW"
          BY <2>4 DEF Reviewed
        <5>2. /\ Len(log') = Len(log) + 1 /\ Len(log) \in Nat
              /\ log'[Len(log) + 1] = con.target /\ \A i \in 1..Len(log) : log'[i] = log[i]
          BY <4>3, <4>4
        <5>3. QED
          BY <4>4, <5>1, <5>2
      <4>6. QED
        BY <2>4, <4>2, <4>5 DEF Reviewed
    <3>3. status' = status \/ status' # "DRAFT_FINAL_REVIEW"
      BY <3>1, Writers DEF AddMediaApply, AddMediaConfirm, SetGrouping, SetProcessing, SetReady, SetStatus
    <3>4. log' = log
      BY <3>1, <3>2, Loggers
    <3>5. QED
      BY <2>4, <3>3, <3>4 DEF Reviewed
  <2>5. QED
    BY <2>1, <2>2, <2>3, <2>4
<1>2. \A p \in Pin : name'[p] = "user" => p \in pins'
  <2>1. pins \subseteq pins'
    BY Writers DEF CreatePin
  <2>2. ASSUME NEW p \in Pin, name[p] # "user", name'[p] = "user"
        PROVE  p \in pins
    <3>1. PICK h \in Handler, q \in Pin : RenamePin(h, q)
      <4>1. ASSUME NEW h \in Handler, NEW q \in Pin, CreatePin(h, q)
            PROVE  name'[p] # "user"
        BY <2>2, <4>1 DEF CreatePin, FlowInv, Types
      <4>2. ASSUME NEW q \in Pin, ApplySuggestion(q)
            PROVE  name'[p] # "user"
        BY <2>2, <4>2 DEF ApplySuggestion, FlowInv, Types
      <4>3. QED
        BY <2>2, <4>1, <4>2, Writers
    <3>2. q \in pins
      BY <3>1 DEF RenamePin, FlowInv, Works, At
    <3>3. p = q
      BY <2>2, <3>1 DEF RenamePin, FlowInv, Types
    <3>4. QED
      BY <3>2, <3>3
  <2>3. QED
    BY <2>1, <2>2 DEF Names
<1>3. QED
  BY <1>1, <1>2 DEF Names

------------------------------------------------------------------------------
(* The theorems                                                             *)

\* A new trip is as the invariant says.
LEMMA CreationInit ==
  ASSUME Init
  PROVE  CreationInv
<1>1. /\ \A h \in Handler : req[h] = NoRequest
      /\ NoRequest \in Requests /\ NoRequest.pc = "idle"
  BY NoRequestType DEF Init
<1>2. NoDelivery \in Delivery /\ NoDelivery.pc = "idle" /\ NoDelivery.todo = {}
  BY DEF NoDelivery, Delivery
<1>3. NoSocket \in Socket /\ NoSocket.got = "none"
  BY DEF NoSocket, Socket
<1>4. Types
  BY <1>1, <1>2, <1>3, PlacesAssumption DEF Init, Types, Statuses, Early
<1>5. Asked
  BY <1>1, <1>2 DEF Init, Asked, NothingAsked, At
<1>6. Announced
  BY <1>2, <1>3 DEF Init, Announced
<1>7. \A h \in Handler : Works(req[h]) /\ Grouping(h)
  BY <1>1 DEF Works, Grouping, At
<1>8. Fullness
  BY <1>1 DEF Init, Fullness, At
<1>9. Names
  BY <1>2 DEF Init, Names, Reviewed, Bringing
<1>10. QED
  BY <1>4, <1>5, <1>6, <1>7, <1>8, <1>9 DEF CreationInv, FlowInv

\* The invariant is kept.
LEMMA CreationStep ==
  ASSUME OneRequest, CreationInv, [Next]_vars
  PROVE  CreationInv'
<1>1. FlowInv'
  BY FlowKept DEF CreationInv
<1>2. CASE UNCHANGED vars
  <2>1. UNCHANGED <<mode, status, place, pins, count, name, req, tasks, results, con, log, faults>>
    BY <1>2 DEF vars, tripVars, mlVars, streamVars
  <2>2. Fullness => Fullness'
    BY <2>1, FullnessStays DEF Fresh
  <2>3. Names => Names'
    BY <2>1 DEF Names, Spent, Reviewed, Bringing
  <2>4. QED
    BY <1>1, <2>1, <2>2, <2>3 DEF CreationInv
<1>3. CASE Next
  <2>1. ASSUME faults' = 0
        PROVE  Fullness' /\ Names'
    BY <1>1, <1>3, <2>1, Faultless, FullnessKept, NamesKept DEF CreationInv
  <2>2. QED
    BY <1>1, <2>1 DEF CreationInv
<1>4. QED
  BY <1>2, <1>3

\* One request after the other, whatever fails: the trip, its media, the one ML
\* task and the event stream stay in step.
THEOREM CreationInvariant ==
  ASSUME OneRequest
  PROVE  Spec => []CreationInv
<1>1. Init => CreationInv
  BY CreationInit
<1>2. CreationInv /\ [Next]_vars => CreationInv'
  BY CreationStep
<1>3. QED
  BY <1>1, <1>2, PTL DEF Spec

\* A trip under review shows the pins the client asked for, each with its media
\* and their number, however many media, pins, suggestions and websockets.
THEOREM ReviewShowsTheGroups ==
  ASSUME OneRequest
  PROVE  Spec => []ReviewedPinsAreFull
<1>1. CreationInv => ReviewedPinsAreFull
  BY DEF CreationInv, Fullness, Fresh, Full, Rest, ReviewedPinsAreFull, Quiet, Idle
<1>2. QED
  BY <1>1, CreationInvariant, PTL

\* Once the review has come, no suggestion of the ML service replaces a name the
\* client gave, in the review or before it.
THEOREM NamesAreTheClients ==
  ASSUME OneRequest
  PROVE  Spec => UserNameKept
<1>1. CreationInv /\ [Next]_vars =>
        [\A p \in Pin : Reviewed /\ faults = 0 /\ name[p] = "user" => name'[p] = "user"]_vars
  BY NameKept DEF CreationInv
<1>2. QED
  BY <1>1, CreationInvariant, PTL DEF Spec, UserNameKept

\* A client that is told that a new trip is processed is told the truth.
THEOREM CompletionIsTrue ==
  ASSUME OneRequest
  PROVE  Spec => CompletedIsTrue
<1>1. ASSUME CreationInv, [Next]_vars, NEW c \in Client, conn'[c].pos > conn[c].pos,
             status = "PROCESSING"
      PROVE  conn'[c].got # Target[status]
  <2>1. conn \in [Client -> Socket] /\ FlowInv' /\ ~Late
    BY <1>1, FlowKept DEF CreationInv, FlowInv, Types, Late, Early
  <2>2. Target[status] = "DRAFT_FINAL_REVIEW"
    BY <1>1 DEF Target, Processing
  <2>3. CASE Late'
    <3>1. \/ SetReview \/ AddMediaApply \/ AddMediaConfirm
          \/ \E h \in Handler : SetGrouping(h) \/ SetProcessing(h) \/ SetReady(h)
      BY <1>1, <2>1, <2>3, Writers DEF Late
    <3>2. conn' = conn
      BY <3>1 DEF SetReview, AddMediaApply, AddMediaConfirm, SetGrouping, SetProcessing, SetReady
    <3>3. conn[c].pos \in Nat
      BY <2>1 DEF Socket
    <3>4. QED
      BY <1>1, <3>2, <3>3
  <2>4. CASE ~Late'
    BY <2>1, <2>2, <2>4 DEF FlowInv, Announced
  <2>5. QED
    BY <2>3, <2>4
<1>2. CreationInv /\ [Next]_vars =>
        [\A c \in Client : conn'[c].pos > conn[c].pos /\ status = "PROCESSING"
           => conn'[c].got # Target[status]]_vars
  BY <1>1
<1>3. QED
  BY <1>2, CreationInvariant, PTL DEF Spec, CompletedIsTrue

------------------------------------------------------------------------------
(* The refinement                                                           *)

\* The stage a status stands for.
LEMMA StageOf ==
  /\ status = "DRAFT" => Stage = "collecting"
  /\ status = "DRAFT_GROUPING_REVIEW" => Stage = "grouping"
  /\ status = "PROCESSING" => Stage = "processing"
  /\ status = "DRAFT_FINAL_REVIEW" => Stage = "review"
  /\ status \notin Early \cup {"DRAFT_FINAL_REVIEW"} =>
       Stage = IF Overtaken THEN "overtaken" ELSE "ready"
BY DEF Stage, Early

\* No trip is overtaken but by a result that found it in PROCESSING.
LEMMA OvertakenBefore ==
  ASSUME FlowInv, [Next]_vars, Overtaken'
  PROVE  Overtaken \/ status = "PROCESSING"
BY ConsumerMoves DEF Overtaken, Target, Processing

\* Every step that writes the status takes the next stage of a new trip, or none.
LEMMA StatusRefines ==
  ASSUME OneRequest, FlowInv, [Next]_vars, status' # status
  PROVE  Flow!LifecycleNext \/ UNCHANGED Flow!lifecycleVars
<1>1. UNCHANGED place /\ Types /\ Types'
  <2>1. UNCHANGED place
    BY Writers DEF SetReview, AddMediaApply, AddMediaConfirm, SetGrouping, SetProcessing, SetReady
  <2>2. QED
    BY <2>1, FlowKept DEF FlowInv
<1>2. /\ UNCHANGED Rows
      /\ UNCHANGED [m \in Media |-> IF place[m] \in Pin THEN place[m] ELSE NoPin]
  BY <1>1 DEF Rows
<1>3. /\ status' = "DRAFT" => Stage' = "collecting"
      /\ status' = "DRAFT_GROUPING_REVIEW" => Stage' = "grouping"
      /\ status' = "PROCESSING" => Stage' = "processing"
      /\ status' = "DRAFT_FINAL_REVIEW" => Stage' = "review"
      /\ status' \notin Early \cup {"DRAFT_FINAL_REVIEW"} =>
           Stage' = IF Overtaken' THEN "overtaken" ELSE "ready"
  BY DEF Stage, Early
<1>4. ASSUME NEW h \in Handler, SetGrouping(h)
      PROVE  Flow!Advance("collecting", "grouping")
  BY <1>2, <1>3, <1>4, <1>1, StageOf DEF SetGrouping, SetStatus, FlowInv, Works, At, Flow!Advance
<1>5. ASSUME NEW h \in Handler, SetProcessing(h)
      PROVE  Flow!Advance("grouping", "processing")
  BY <1>2, <1>3, <1>5, <1>1, StageOf DEF SetProcessing, SetStatus, FlowInv, Works, At, Flow!Advance
<1>6. ASSUME NEW h \in Handler, SetReady(h)
      PROVE  \/ Flow!Advance("review", "ready")
             \/ Flow!Advance("processing", "ready") \/ Flow!Advance("processing", "overtaken")
  <2>1. status \in {"PROCESSING", "DRAFT_FINAL_REVIEW"} /\ status' = "READY" /\ Overtaken' = Overtaken
    BY <1>6 DEF SetReady, SetStatus, FlowInv, Works, At, mlVars, Overtaken
  <2>2. status = "DRAFT_FINAL_REVIEW" => ~Overtaken
    BY DEF FlowInv, Announced, Overtaken
  <2>3. Stage = IF status = "PROCESSING" THEN "processing" ELSE "review"
    BY <2>1, StageOf
  <2>4. Stage' = IF Overtaken THEN "overtaken" ELSE "ready"
    BY <2>1, <1>3 DEF Early
  <2>5. QED
    BY <1>2, <2>1, <2>2, <2>3, <2>4 DEF Flow!Advance
<1>7. ASSUME SetReview
      PROVE  \/ Flow!Advance("processing", "review") \/ Flow!Advance("overtaken", "review")
             \/ UNCHANGED Flow!lifecycleVars
  <2>1. CASE status = "PROCESSING" /\ status' = "DRAFT_FINAL_REVIEW"
    BY <1>2, <1>3, <2>1, StageOf DEF Flow!Advance
  <2>2. CASE Overtaken /\ status \in {"READY", "ADD_MEDIA_PROCESSING"} /\ status' = "DRAFT_FINAL_REVIEW"
    <3>1. Stage = "overtaken" /\ Stage' = "review"
      BY <1>3, <2>2, StageOf DEF Early
    <3>2. QED
      BY <1>2, <3>1 DEF Flow!Advance
  <2>3. CASE status = "ADD_MEDIA_PROCESSING" /\ status' = "ADD_MEDIA_DRAFT_FINAL_REVIEW" /\ ~Overtaken
    <3>1. Stage = "ready" /\ Stage' = "ready"
      BY <1>3, <1>7, <2>3, StageOf, SetReviewFlow DEF Early
    <3>2. QED
      BY <1>2, <3>1 DEF Flow!lifecycleVars
  <2>4. QED
    BY <1>7, <2>1, <2>2, <2>3, SetReviewFlow
<1>8. ASSUME AddMediaApply \/ AddMediaConfirm
      PROVE  UNCHANGED Flow!lifecycleVars
  <2>1. /\ status \in {"READY", "ADD_MEDIA_DRAFT_FINAL_REVIEW"}
        /\ status' \in {"READY", "ADD_MEDIA_PROCESSING"} /\ Overtaken' = Overtaken
    BY <1>8 DEF AddMediaApply, AddMediaConfirm, SetStatus, mlVars, Overtaken
  <2>2. Stage' = Stage
    BY <1>3, <2>1, StageOf DEF Early
  <2>3. QED
    BY <1>2, <2>2 DEF Flow!lifecycleVars
<1>9. QED
  BY <1>4, <1>5, <1>6, <1>7, <1>8, Writers DEF Flow!LifecycleNext

\* Every step that moves media collects, drops or attaches photos.
LEMMA PlaceRefines ==
  ASSUME OneRequest, FlowInv, [Next]_vars, status' = status, place' # place
  PROVE  Flow!LifecycleNext
<1> DEFINE PinOf == [m \in Media |-> IF place[m] \in Pin THEN place[m] ELSE NoPin]
<1>1. Types /\ UNCHANGED Stage
  <2>1. con' = con
    BY Writers DEF CreateBatch, RejectMedia, AssignMedia, DeleteMedia, mlVars
  <2>2. QED
    BY <2>1 DEF FlowInv, Stage, Overtaken
<1>2. ASSUME NEW h \in Handler, CreateBatch(h)
      PROVE  Flow!Collect
  <2>1. status = "DRAFT"
    BY <1>2 DEF CreateBatch, FlowInv, Works, At
  <2>2. \A m \in Media : place'[m] = place[m] \/ (place[m] = "UNUSED" /\ place'[m] = NoPin)
    BY <1>2 DEF CreateBatch
  <2>3. Rows \subseteq Rows' /\ UNCHANGED PinOf
    BY <2>2, NullsAssumption, PlacesAssumption DEF Rows
  <2>4. QED
    BY <1>1, <2>1, <2>3, StageOf DEF Flow!Collect
<1>3. ASSUME NEW h \in Handler, RejectMedia(h) \/ DeleteMedia(h)
      PROVE  Flow!Drop
  <2>1. Stage \in {"grouping", "processing", "review"}
    BY <1>1, <1>3, StageOf DEF RejectMedia, DeleteMedia, FlowInv, Works, At
  <2>2. \A m \in Media : place'[m] = place[m] \/ place'[m] = "DELETED"
    BY <1>3 DEF RejectMedia, DeleteMedia
  <2>3. Rows' \subseteq Rows
    BY <2>2, PlacesAssumption DEF Rows
  <2>4. PinOf' = [m \in Media |-> IF m \in Rows' THEN PinOf[m] ELSE NoPin]
    BY <2>2, PlacesAssumption DEF Rows
  <2>5. QED
    BY <1>1, <2>1, <2>3, <2>4 DEF Flow!Drop
<1>4. ASSUME NEW h \in Handler, AssignMedia(h)
      PROVE  \E p \in Pin : Flow!Attach(p)
  <2>1. At(h, "assign") /\ Stage = "grouping" /\ pins \subseteq Pin
    BY <1>1, <1>4, StageOf DEF AssignMedia, FlowInv, Works, At, Types
  <2>2. PICK p \in Pin : \A m \in Rows : req[h].group[m] \in pins \ {p} => place[m] = req[h].group[m]
    BY <2>1 DEF FlowInv, Grouping
  <2>3. \A m \in Media : place'[m] = IF req[h].group[m] \in pins /\ m \in Rows
                                     THEN req[h].group[m] ELSE place[m]
    BY <1>4 DEF AssignMedia
  <2> DEFINE ms == {m \in Rows : req[h].group[m] \in pins /\ req[h].group[m] = p}
  <2>4. Rows' = Rows
    BY <2>1, <2>3 DEF Rows
  <2>5. PinOf' = [m \in Media |-> IF m \in ms THEN p ELSE PinOf[m]]
    BY <2>1, <2>2, <2>3
  <2>6. ms \in SUBSET Rows
    OBVIOUS
  <2>7. Flow!Attach(p)
    BY <1>1, <2>1, <2>4, <2>5, <2>6 DEF Flow!Attach
  <2>8. QED
    BY <2>7
<1>5. QED
  BY <1>2, <1>3, <1>4, Writers DEF Flow!LifecycleNext

\* However often requests fail half-way and results are delivered again, no stage
\* of the creation is gone back to, photos move between pins only while they are
\* grouped, and a trip that is ready is left alone, but for one that was finalized
\* after its result had found it in PROCESSING.
THEOREM CreationLifecycle ==
  ASSUME OneRequest
  PROVE  Spec => ImplementsLifecycle
<1>1. Init => Flow!LifecycleInit
  BY NullsAssumption, PlacesAssumption DEF Init, Flow!LifecycleInit, Stage, Rows
<1>2. CreationInv /\ [Next]_vars => [Flow!LifecycleNext]_Flow!lifecycleVars
  <2> SUFFICES ASSUME CreationInv, [Next]_vars
               PROVE  Flow!LifecycleNext \/ UNCHANGED Flow!lifecycleVars
    OBVIOUS
  <2>1. CASE status' = status /\ place' = place
    <3>1. /\ UNCHANGED Rows
          /\ UNCHANGED [m \in Media |-> IF place[m] \in Pin THEN place[m] ELSE NoPin]
      BY <2>1 DEF Rows
    <3>2. Stage' = Stage \/ (Stage = "overtaken" /\ Stage' = "ready")
      <4>1. CASE status \in Early \cup {"DRAFT_FINAL_REVIEW"}
        BY <2>1, <4>1 DEF Stage, Early
      <4>2. CASE status \notin Early \cup {"DRAFT_FINAL_REVIEW"}
        <5>1. Overtaken' => Overtaken
          BY <4>2, OvertakenBefore DEF CreationInv, Early
        <5>2. /\ Stage = IF Overtaken THEN "overtaken" ELSE "ready"
              /\ Stage' = IF Overtaken' THEN "overtaken" ELSE "ready"
          BY <2>1, <4>2 DEF Stage, Early
        <5>3. QED
          BY <5>1, <5>2
      <4>3. QED
        BY <4>1, <4>2
    <3>3. QED
      BY <3>1, <3>2 DEF Flow!lifecycleVars, Flow!LifecycleNext, Flow!Advance
  <2>2. QED
    BY <2>1, StatusRefines, PlaceRefines DEF CreationInv
<1>3. QED
  BY <1>1, <1>2, CreationInvariant, PTL DEF Spec, ImplementsLifecycle, Flow!Lifecycle
=============================================================================
