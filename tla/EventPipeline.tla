--------------------------- MODULE EventPipeline ---------------------------
(***************************************************************************)
(* What trip-service and statistics-service tell each other over two Redis *)
(* streams.  Reactions and photo battles change counters of the trip in a  *)
(* database and are published on pinz:stats:events, whose consumer counts  *)
(* them again for each user.  Requests to locate pins go over the same     *)
(* stream; the consumer records which locations the trip visits and        *)
(* answers on pinz:trip:geo_events, from which trip-service copies the     *)
(* locations and the names of the places.  Both consumers read with ">":   *)
(* a message is delivered once, so the event logs, asked before a message  *)
(* is applied, never know it, and what an error or a crash leaves          *)
(* unacknowledged is not read again.  One published trip.                  *)
(***************************************************************************)
EXTENDS Naturals, Sequences, FiniteSets, SequencesExt

CONSTANTS User,      \* users who react, battle and edit
          Handler,   \* requests in flight at once
          Pin, Media, Battle,
          City, Country, CountryOf,
          NoUser, NoPlace, NoBattle, NoMedia,
          Mixes,     \* the sets of requests clients may issue, one per behaviour
          MaxEvents, \* bound on the length of the stats stream
          MaxFaults  \* bound on errors, crashes and lost publications

ASSUME PlaceAssumption == /\ City \cap Country = {} /\ CountryOf \in [City -> Country]
                          /\ NoPlace \notin City \cup Country
ASSUME NullsAssumption == NoUser \notin User /\ NoBattle \notin Battle /\ NoMedia \notin Media
ASSUME LimitAssumption == {MaxEvents, MaxFaults} \subseteq Nat

VARIABLES
  ops,       \* the requests clients issue in this behaviour
  live,      \* the row of trips exists
  reaction,  \* social: per user none, like or dislike
  likes, dislikes, \* trips.likes_count and dislikes_count
  battle,    \* media_battles: whose it is and whether it is finished
  rating,    \* media.battle_rating
  place,     \* the coordinates of each pin, as what they resolve to
  name,      \* pins.location_name, as the place it names
  mirror,    \* geo_registry of trip-service
  located,   \* trip_locations of trip-service
  req,       \* the requests in flight
  stream,    \* pinz:stats:events, what is not read yet
  batch,     \* what the statistics consumer has read, first the message at hand
  found,     \* the pins of that message it has resolved
  stats,     \* user_stats
  visited,   \* trip_locations of statistics-service
  geo,       \* pinz:trip:geo_events, first the message at hand
  gpc,       \* where trip-service's consumer is with it
  faults

socialVars == <<reaction, likes, dislikes>>
battleVars == <<battle, rating>>
pinVars    == <<place, name>>
copyVars   == <<mirror, located>>
tripVars   == <<ops, live, socialVars, battleVars, pinVars, copyVars>>
statVars   == <<batch, found, stats, visited>>
geoVars    == <<geo, gpc>>
vars == <<tripVars, req, stream, statVars, geoVars, faults>>

------------------------------------------------------------------------------

Place == City \cup Country

\* EnsureByName: a city comes with its country.
LocationsOf(pl) == IF pl \in City THEN {pl, CountryOf[pl]} ELSE {pl}

Fault == faults < MaxFaults /\ faults' = faults + 1

NoPins == [p \in Pin |-> NoPlace]
Message(type, u, at) == [type |-> type, user |-> u, at |-> at]
About(u, types) == [i \in 1..Len(types) |-> Message(types[i], u, NoPins)]
GeoRequest(at)  == Message("PIN_LOCATIONS_REQUESTED", NoUser, at)
AllLocations(at) == UNION {LocationsOf(at[p]) : p \in {q \in Pin : at[q] # NoPlace}}

NoRequest == [pc |-> "idle", by |-> NoUser, old |-> "none", new |-> "none", out |-> <<>>,
              battle |-> NoBattle, media |-> NoMedia, at |-> NoPins, edit |-> FALSE]
Idle(h)   == req[h].pc = "idle"
At(h, pc) == req[h].pc = pc
Finish(h) == req' = [req EXCEPT ![h] = NoRequest]
\* On to the events still to be published, if any.
Publish(h, out) ==
  req' = [req EXCEPT ![h] = IF out = <<>> THEN NoRequest
                            ELSE [NoRequest EXCEPT !.pc = "publish", !.by = req[h].by,
                                              !.edit = req[h].edit, !.out = out]]

\* A user waits for the answer before the next request, unless "twice".
Free(u)  == "twice" \in ops \/ \A h \in Handler : req[h].by # u
\* The trip is edited, processed and deleted by one request at a time, unless "race".
Alone    == "race" \in ops \/ \A h \in Handler : ~req[h].edit
\* Bound: a request starts when the streams have room for its events.
RoomLeft == Len(stream) + Len(batch) + Len(geo)
              + 2 * Cardinality({h \in Handler : ~Idle(h)}) < MaxEvents

Begin(h, op, u) == op \in ops /\ Idle(h) /\ live /\ Free(u) /\ RoomLeft
Edit(h, op, u)  == Begin(h, op, u) /\ Alone

------------------------------------------------------------------------------
(* LikeTrip and DislikeTrip.  SetReaction is a transaction that reads       *)
(* without a lock; its writes become visible together, when it commits.     *)

SetReaction(h, u, r) ==
  /\ Begin(h, "react", u)
  /\ req' = [req EXCEPT ![h] = [NoRequest EXCEPT !.pc = "commit", !.by = u,
                                                 !.old = reaction[u], !.new = r]]
  /\ UNCHANGED <<tripVars, stream, statVars, geoVars, faults>>

\* mutant: the same reaction again counts again
CountedAlways(n, r, old, new) ==
  IF new = r THEN n + 1 ELSE IF old = r /\ n > 0 THEN n - 1 ELSE n
\* likes_count or dislikes_count after a reaction.
Counted(n, r, old, new) ==
  IF old = new THEN n
  ELSE IF new = r THEN n + 1 ELSE IF old = r /\ n > 0 THEN n - 1 ELSE n

Event == [like    |-> [added |-> "LIKE_ADDED",    removed |-> "LIKE_REMOVED"],
          dislike |-> [added |-> "DISLIKE_ADDED", removed |-> "DISLIKE_REMOVED"]]

\* mutant: the reaction that is replaced is not taken back
AddedOnly(old, new) == IF old = new THEN <<>> ELSE <<Event[new].added>>
\* The events of LikeTrip and DislikeTrip.
ReactionEvents(old, new) ==
  IF old = new THEN <<>>
  ELSE (IF old = "none" THEN <<>> ELSE <<Event[old].removed>>) \o <<Event[new].added>>

CommitReaction(h) ==
  LET r == req[h] IN
  /\ At(h, "commit")
  /\ IF live
       THEN /\ reaction' = [reaction EXCEPT ![r.by] = r.new]
            /\ likes' = Counted(likes, "like", r.old, r.new)
            /\ dislikes' = Counted(dislikes, "dislike", r.old, r.new)
            /\ Publish(h, About(r.by, ReactionEvents(r.old, r.new)))
       ELSE Finish(h) /\ UNCHANGED socialVars
  /\ UNCHANGED <<ops, live, battleVars, pinVars, copyVars, stream, statVars, geoVars, faults>>

(* StartBattle, and SubmitBattleResult: compare-and-set of the winner, the  *)
(* rating, the event.                                                       *)
StartBattle(u, b) ==
  /\ "battle" \in ops /\ live /\ battle[b].state = "UNUSED"
  /\ battle' = [battle EXCEPT ![b] = [state |-> "OPEN", by |-> u]]
  /\ UNCHANGED <<ops, live, socialVars, rating, pinVars, copyVars, req, stream, statVars, geoVars, faults>>

\* The owner may send the result twice at once.
SubmitBattleResult(h, b, m) ==
  /\ "battle" \in ops /\ Idle(h) /\ live /\ RoomLeft
  /\ battle[b].state = "OPEN"
  /\ req' = [req EXCEPT ![h] = [NoRequest EXCEPT !.pc = "setWinner", !.by = battle[b].by,
                                                 !.battle = b, !.media = m]]
  /\ UNCHANGED <<tripVars, stream, statVars, geoVars, faults>>

\* mutant: the UPDATE forgets finished_at IS NULL
WinnerAnyTime(b) == battle[b].state # "GONE"
CanSetWinner(b) == battle[b].state = "OPEN"

SetWinner(h) ==
  LET b == req[h].battle IN
  /\ At(h, "setWinner")
  /\ IF CanSetWinner(b)
       THEN /\ battle' = [battle EXCEPT ![b].state = "DONE"]
            /\ req' = [req EXCEPT ![h] = [NoRequest EXCEPT !.pc = "rate", !.by = req[h].by,
                                                           !.media = req[h].media]]
       ELSE UNCHANGED battle /\ Finish(h)
  /\ UNCHANGED <<ops, live, socialVars, rating, pinVars, copyVars, stream, statVars, geoVars, faults>>

IncrementBattleRating(h) ==
  /\ At(h, "rate")
  /\ IF live
       THEN /\ rating' = [rating EXCEPT ![req[h].media] = @ + 1]
            /\ Publish(h, About(req[h].by, <<"BATTLE_FINISHED">>))
       ELSE UNCHANGED rating /\ Finish(h)
  /\ UNCHANGED <<ops, live, socialVars, battle, pinVars, copyVars, stream, statVars, geoVars, faults>>

(* UpdatePin and the finalizations of a pin upload save one pin and ask     *)
(* where it is; the end of a processing asks about all pins of the trip.    *)
UpdatePin(h, u, p, pl) ==
  /\ Edit(h, "pin", u) /\ pl # place[p]
  /\ req' = [req EXCEPT ![h] = [NoRequest EXCEPT !.pc = "savePin", !.by = u, !.edit = TRUE,
                                                 !.at = [NoPins EXCEPT ![p] = pl]]]
  /\ UNCHANGED <<tripVars, stream, statVars, geoVars, faults>>

SavePin(h) ==
  LET at == req[h].at IN
  /\ At(h, "savePin")
  /\ IF live
       THEN /\ place' = [p \in Pin |-> IF at[p] = NoPlace THEN place[p] ELSE at[p]]
            /\ Publish(h, <<GeoRequest(at)>>)
       ELSE UNCHANGED place /\ Finish(h)
  /\ UNCHANGED <<ops, live, socialVars, battleVars, name, copyVars, stream, statVars, geoVars, faults>>

PublishGeoRequestForTrip(h, u) ==
  /\ Edit(h, "trip", u) /\ place # NoPins
  /\ req' = [req EXCEPT ![h] = [NoRequest EXCEPT !.pc = "publish", !.by = u, !.edit = TRUE,
                                                 !.out = <<GeoRequest(place)>>]]
  /\ UNCHANGED <<tripVars, stream, statVars, geoVars, faults>>

(* DeleteTrip, of a trip with one participant: the row with what it         *)
(* cascades to, then the event.  LeaveTrip, of the last participant: the    *)
(* row only.                                                                *)
RemoveTrip(h, op, u, out) ==
  /\ Edit(h, op, u)
  /\ req' = [req EXCEPT ![h] = [NoRequest EXCEPT !.pc = "deleteTrip", !.by = u, !.edit = TRUE,
                                                 !.out = out]]
  /\ UNCHANGED <<tripVars, stream, statVars, geoVars, faults>>

DeleteTrip(h, u) == RemoveTrip(h, "delete", u, <<Message("TRIP_DELETED", NoUser, NoPins)>>)
LeaveTrip(h, u)  == RemoveTrip(h, "leave", u, <<>>)

\* Who removes the participant second finds no row.
DeleteTripRow(h) ==
  /\ At(h, "deleteTrip")
  /\ live' = FALSE
  /\ IF live
       THEN /\ reaction' = [u \in User |-> "none"] /\ likes' = 0 /\ dislikes' = 0
            /\ battle' = [b \in Battle |-> [state |-> "GONE", by |-> NoUser]]
            /\ rating' = [m \in Media |-> 0]
            /\ place' = NoPins /\ name' = NoPins
            /\ located' = {}
            /\ Publish(h, req[h].out)
       ELSE /\ UNCHANGED <<socialVars, battleVars, pinVars, located>>
            /\ Finish(h)
  /\ UNCHANGED <<ops, mirror, stream, statVars, geoVars, faults>>

\* XADD of the next event; if it fails the handler goes on.
PublishEvent(h) ==
  LET out == req[h].out IN
  /\ At(h, "publish")
  /\ Publish(h, Tail(out))
  /\ \/ stream' = Append(stream, Head(out)) /\ UNCHANGED faults
     \/ Fault /\ UNCHANGED stream
  /\ UNCHANGED <<tripVars, statVars, geoVars>>

\* An error, a cancelled context or a crash.
HandlerFails(h) ==
  /\ ~Idle(h) /\ Fault
  /\ Finish(h)
  /\ UNCHANGED <<tripVars, stream, statVars, geoVars>>

------------------------------------------------------------------------------
(* The statistics consumer.                                                 *)

ReadStats ==
  /\ batch = <<>> /\ stream # <<>>
  /\ batch' = stream /\ stream' = <<>>
  /\ UNCHANGED <<tripVars, req, found, stats, visited, geoVars, faults>>

Handling(type) == batch # <<>> /\ Head(batch).type = type

Counter == [LIKE_ADDED |-> "likes", LIKE_REMOVED |-> "likes",
            DISLIKE_ADDED |-> "dislikes", DISLIKE_REMOVED |-> "dislikes",
            BATTLE_FINISHED |-> "battles"]
\* GREATEST(n + delta, 0)
Stepped(n, type) == IF type \in {"LIKE_REMOVED", "DISLIKE_REMOVED"}
                      THEN IF n = 0 THEN 0 ELSE n - 1
                      ELSE n + 1

\* Increment
Increment ==
  /\ batch # <<>> /\ Head(batch).type \in DOMAIN Counter
  /\ stats' = [stats EXCEPT ![Head(batch).user][Counter[Head(batch).type]] =
                              Stepped(@, Head(batch).type)]
  /\ batch' = Tail(batch)
  /\ UNCHANGED <<tripVars, req, stream, found, visited, geoVars, faults>>

\* mutant: the locations of a deleted trip are kept
KeepLocations ==
  /\ Handling("TRIP_DELETED")
  /\ batch' = Tail(batch)
  /\ UNCHANGED <<tripVars, req, stream, found, stats, visited, geoVars, faults>>
DeleteByTripID ==
  /\ Handling("TRIP_DELETED")
  /\ visited' = {}
  /\ batch' = Tail(batch)
  /\ UNCHANGED <<tripVars, req, stream, found, stats, geoVars, faults>>

\* mutant: a pin at a place the trip already visits is left out
ResolveNewPlaces(p) ==
  LET pl == Head(batch).at[p] IN
  /\ Handling("PIN_LOCATIONS_REQUESTED") /\ pl # NoPlace
  /\ batch' = [batch EXCEPT ![1].at[p] = NoPlace]
  /\ found' = [found EXCEPT ![p] = IF LocationsOf(pl) \subseteq visited THEN NoPlace ELSE pl]
  /\ visited' = visited \cup LocationsOf(pl)
  /\ UNCHANGED <<tripVars, req, stream, stats, geoVars, faults>>
\* One pin of a request: the geocoder, the registry, the locations; a pin the
\* geocoder does not find is left out.
ResolvePin(p) ==
  LET pl == Head(batch).at[p] IN
  /\ Handling("PIN_LOCATIONS_REQUESTED") /\ pl # NoPlace
  /\ batch' = [batch EXCEPT ![1].at[p] = NoPlace]
  /\ \/ /\ found' = [found EXCEPT ![p] = pl]
        /\ visited' = visited \cup LocationsOf(pl)
        /\ UNCHANGED faults
     \/ Fault /\ UNCHANGED <<found, visited>>
  /\ UNCHANGED <<tripVars, req, stream, stats, geoVars>>

\* The answer lists the rows of a Go map: in any order.
PublishGeoEvent ==
  /\ Handling("PIN_LOCATIONS_REQUESTED") /\ Head(batch).at = NoPins
  /\ IF found = NoPins THEN UNCHANGED geo
     ELSE \E rows \in SetToSeqs(AllLocations(found)) :
            geo' = Append(geo, [rows |-> rows, at |-> found])
  /\ batch' = Tail(batch) /\ found' = NoPins
  /\ UNCHANGED <<tripVars, req, stream, stats, visited, gpc, faults>>

\* An error ends the message at hand, a crash what was read with it.
StatsFails ==
  /\ batch # <<>> /\ Fault
  /\ batch' \in {Tail(batch), <<>>} /\ found' = NoPins
  /\ UNCHANGED <<tripVars, req, stream, stats, visited, geoVars>>

------------------------------------------------------------------------------
(* trip-service's consumer: its failures inside a message are only logged.  *)

\* MirrorByID of each row, in order: a city needs its country (parent_id).
MirrorRows ==
  LET rows == Head(geo).rows
      HasParent(i) == \/ rows[i] \in Country
                      \/ {rows[i], CountryOf[rows[i]]} \cap mirror # {}
                      \/ \E j \in 1..(i - 1) : rows[j] = CountryOf[rows[i]] IN
  /\ geo # <<>> /\ gpc = "mirror"
  /\ mirror' = mirror \cup {rows[i] : i \in {j \in 1..Len(rows) : HasParent(j)}}
  /\ gpc' = "names"
  /\ UNCHANGED <<ops, live, socialVars, battleVars, pinVars, located, req, stream, statVars, geo, faults>>

UpdateLocationNames ==
  LET at == Head(geo).at IN
  /\ geo # <<>> /\ gpc = "names"
  /\ name' = [p \in Pin |-> IF live /\ at[p] # NoPlace THEN at[p] ELSE name[p]]
  /\ gpc' = "locations"
  /\ UNCHANGED <<ops, live, socialVars, battleVars, place, copyVars, req, stream, statVars, geo, faults>>

\* UpsertTripLocations goes through another Go map and stops at the first error.
UpsertTripLocations ==
  LET all == AllLocations(Head(geo).at) IN
  /\ geo # <<>> /\ gpc = "locations"
  /\ \E done \in SUBSET (all \cap mirror) :
       /\ all \subseteq mirror => done = all
       /\ located' = IF live THEN located \cup done ELSE located
  /\ geo' = Tail(geo) /\ gpc' = "mirror"
  /\ UNCHANGED <<ops, live, socialVars, battleVars, pinVars, mirror, req, stream, statVars, faults>>

GeoFails ==
  /\ geo # <<>> /\ Fault
  /\ \E i \in 2..(Len(geo) + 1) : geo' = SubSeq(geo, i, Len(geo))
  /\ gpc' = "mirror"
  /\ UNCHANGED <<tripVars, req, stream, statVars>>

------------------------------------------------------------------------------

Init ==
  /\ ops \in Mixes
  /\ live = TRUE
  /\ reaction = [u \in User |-> "none"] /\ likes = 0 /\ dislikes = 0
  /\ battle = [b \in Battle |-> [state |-> "UNUSED", by |-> NoUser]]
  /\ rating = [m \in Media |-> 0]
  /\ place = NoPins /\ name = NoPins
  /\ mirror = {} /\ located = {}
  /\ req = [h \in Handler |-> NoRequest]
  /\ stream = <<>> /\ batch = <<>> /\ found = NoPins
  /\ stats = [u \in User |-> [likes |-> 0, dislikes |-> 0, battles |-> 0]]
  /\ visited = {}
  /\ geo = <<>> /\ gpc = "mirror"
  /\ faults = 0

Request(h) ==
  \/ \E b \in Battle, m \in Media : SubmitBattleResult(h, b, m)
  \/ \E u \in User :
       \/ \E r \in DOMAIN Event : SetReaction(h, u, r)
       \/ \E p \in Pin, pl \in Place : UpdatePin(h, u, p, pl)
       \/ PublishGeoRequestForTrip(h, u)
       \/ DeleteTrip(h, u) \/ LeaveTrip(h, u)

Step(h) ==
  \/ CommitReaction(h) \/ SetWinner(h) \/ IncrementBattleRating(h)
  \/ SavePin(h) \/ DeleteTripRow(h) \/ PublishEvent(h)

ConsumeStats ==
  \/ ReadStats \/ Increment \/ DeleteByTripID
  \/ PublishGeoEvent
  \/ \E p \in Pin : ResolvePin(p)
ConsumeGeo == MirrorRows \/ UpdateLocationNames \/ UpsertTripLocations

Next ==
  \/ \E h \in Handler : Request(h) \/ Step(h) \/ HandlerFails(h)
  \/ \E u \in User, b \in Battle : StartBattle(u, b)
  \/ ConsumeStats \/ StatsFails
  \/ ConsumeGeo \/ GeoFails

Spec == Init /\ [][Next]_vars

\* Requests run to their end and the consumers keep reading; no client has to
\* do anything.
Fairness == /\ \A h \in Handler : WF_vars(Step(h))
            /\ WF_vars(ConsumeStats) /\ WF_vars(ConsumeGeo)
FairSpec == Spec /\ Fairness

------------------------------------------------------------------------------
(* Properties                                                               *)

Quiet == /\ \A h \in Handler : Idle(h)
         /\ stream = <<>> /\ batch = <<>> /\ geo = <<>>

Fans(r) == {u \in User : reaction[u] = r}
Done(u) == {b \in Battle : battle[b] = [state |-> "DONE", by |-> u]}
\* The points of all media, as many of each as its rating.
Points  == UNION {{m} \X (1..rating[m]) : m \in Media}

\* The counters of the trip are the numbers of its reactions, at every moment
\* and also when requests fail, as long as no user sends two at once.
CountsMatch == likes = Cardinality(Fans("like")) /\ dislikes = Cardinality(Fans("dislike"))

\* Once both streams are drained and nothing failed, statistics-service has
\* counted for each user what trip-service has: no reaction twice, none left
\* standing after it was replaced, no battle twice.
StatsSettle ==
  Quiet /\ faults = 0 /\ live =>
    \A u \in User : stats[u] = [likes    |-> IF reaction[u] = "like" THEN 1 ELSE 0,
                                dislikes |-> IF reaction[u] = "dislike" THEN 1 ELSE 0,
                                battles  |-> Cardinality(Done(u))]

\* However often the result of a battle is sent and whatever fails, a battle gives
\* one point at most (SubmitBattleResult's comment: a second +1 is impossible),
\* and its owner's statistics never count more battles than were finished.
BattleCountedOnce ==
  live => /\ Cardinality(Points) <= Cardinality(UNION {Done(u) : u \in User})
          /\ \A u \in User : stats[u].battles <= Cardinality(Done(u))

Locating(m)    == m.type = "PIN_LOCATIONS_REQUESTED"
Locates(seq)   == \E i \in 1..Len(seq) : Locating(seq[i])
EndsClean(seq) == \E i \in 1..Len(seq) :
                    /\ seq[i].type = "TRIP_DELETED"
                    /\ \A j \in 1..Len(seq) : j > i => ~Locating(seq[j])
\* The trip is gone, its TRIP_DELETED is queued behind every request to locate its
\* pins, and no such request is still to be published.
DeletionLast == /\ ~live /\ \A h \in Handler : ~Locates(req[h].out)
                /\ EndsClean(stream) \/ (~Locates(stream) /\ EndsClean(batch))

\* Once TRIP_DELETED is the last word about the trip, the trip is never counted as
\* a visit again when the streams are drained, whichever requests about its pins
\* raced with the deletion and wherever they are in the queue, as long as nothing
\* fails (DeleteByTripID against what ResolvePin records).
DeletionForgets ==
  [](DeletionLast /\ faults = 0 => [](Quiet /\ faults = 0 => visited = {}))

\* What does not hold: that no deleted trip is counted as a visit.  A request about
\* a pin published behind TRIP_DELETED brings the locations back (GhostVisit.cfg),
\* and the last participant who leaves publishes nothing (LeftTripVisited.cfg).
DeletedTripNotVisited == Quiet /\ faults = 0 /\ ~live => visited = {}

\* A pin with coordinates gets the name of its place, unless it moves again, its
\* trip is deleted or something fails.  Two requests that move it at once may ask
\* in the other order than they wrote: not with "race".
NamesArrive ==
  \A p \in Pin, pl \in Place :
    (place[p] = pl /\ faults = 0 /\ "race" \notin ops) ~> (name[p] = pl \/ place[p] # pl \/ faults > 0)

\* Once the streams are drained and nothing failed, trip-service has a copy of
\* the locations statistics-service knows of the trip (the comment of
\* georegistry_repository.go: the consumer mirrors the rows of the answer).
ReplicaComplete == Quiet /\ faults = 0 /\ live => located = visited
=============================================================================
