------------------------- MODULE EventPipelineProofs -------------------------
(***************************************************************************)
(* What the two databases say of each other, for every number of users,    *)
(* requests in flight, messages and failures: the reaction counters of the *)
(* trip are the reactions it has; a trip that was removed is not visited;  *)
(* statistics-service counts what trip-service has.  The last two follow   *)
(* what is on its way: in a request, in the stream, in the batch that is   *)
(* being consumed.                                                         *)
(***************************************************************************)
EXTENDS EventPipeline, FiniteSetTheorems, SequenceTheorems, TLAPS

\* No user sends two reactions at once, which is what counting relies on.
OneAtATime == \A mix \in Mixes : "twice" \notin mix

Reactions == DOMAIN Event
LEMMA ReactionsAre == Reactions = {"like", "dislike"}
BY DEF Reactions, Event

\* A transaction about to commit is its user's only one, and has read the
\* reaction the user still has.
Committing(h) == req[h].pc = "commit"
CommitsOK ==
  /\ req = [h \in Handler |-> req[h]]
  /\ \A h \in Handler : Committing(h) =>
       /\ req[h].by \in User /\ req[h].new \in Reactions
       /\ live => req[h].old = reaction[req[h].by]
  /\ \A g, h \in Handler : Committing(g) /\ Committing(h) /\ req[g].by = req[h].by => g = h

CountInv ==
  /\ ops \in Mixes
  /\ reaction \in [User -> Reactions \cup {"none"}]
  /\ CommitsOK
  /\ CountsMatch

LEMMA CountInit == ASSUME IsFiniteSet(User), Init PROVE CountInv
<1>1. CommitsOK
  BY DEF Init, CommitsOK, Committing, NoRequest
<1>2. reaction \in [User -> Reactions \cup {"none"}] /\ \A u \in User : reaction[u] = "none"
  BY DEF Init
<1>3. Fans("like") = {} /\ Fans("dislike") = {}
  BY <1>2 DEF Fans
<1>4. CountsMatch
  BY <1>3, FS_EmptySet DEF Init, CountsMatch
<1>5. QED
  BY <1>1, <1>2, <1>4 DEF Init, CountInv

------------------------------------------------------------------------------
(* Requests                                                                 *)

\* What a request does short of a reaction keeps the invariant.
LEMMA OtherRequest ==
  ASSUME CountInv, NEW h \in Handler, NEW r, req' = [req EXCEPT ![h] = r], r.pc # "commit",
         UNCHANGED <<ops, live, reaction, likes, dislikes>>
  PROVE  CountInv'
<1>1. /\ req' = [x \in Handler |-> req'[x]] /\ req'[h] = r
      /\ \A x \in Handler \ {h} : req'[x] = req[x]
  BY DEF CountInv, CommitsOK
<1>2. \A x \in Handler : Committing(x)' => x # h /\ Committing(x)
  BY <1>1 DEF Committing
<1>3. CommitsOK'
  BY <1>1, <1>2 DEF CountInv, CommitsOK
<1>4. CountsMatch'
  BY DEF CountInv, CountsMatch, Fans
<1>5. QED
  BY <1>3, <1>4 DEF CountInv

LEMMA NoRequestStill ==
  ASSUME CountInv, UNCHANGED <<ops, live, reaction, likes, dislikes, req>>
  PROVE  CountInv'
BY DEF CountInv, CommitsOK, Committing, CountsMatch, Fans

\* A request that goes on to publish, or ends, commits nothing.
LEMMA PublishesNext ==
  ASSUME NEW h \in Handler, NEW out, Publish(h, out) \/ Finish(h)
  PROVE  \E r : req' = [req EXCEPT ![h] = r] /\ r.pc # "commit"
<1>1. NoRequest.pc # "commit"
  BY DEF NoRequest
<1>2. CASE Finish(h)
  BY <1>1, <1>2 DEF Finish
<1>3. CASE Publish(h, out)
  <2> DEFINE r == [NoRequest EXCEPT !.pc = "publish", !.by = req[h].by, !.edit = req[h].edit, !.out = out]
  <2>1. r.pc # "commit"
    BY DEF NoRequest
  <2>2. req' = [req EXCEPT ![h] = IF out = <<>> THEN NoRequest ELSE r]
    BY <1>3 DEF Publish
  <2> HIDE DEF r
  <2>3. QED
    BY <1>1, <2>1, <2>2
<1>4. QED
  BY <1>2, <1>3

------------------------------------------------------------------------------
(* Reactions                                                                *)

LEMMA StartReaction ==
  ASSUME CountInv, OneAtATime, NEW h \in Handler, NEW u \in User, NEW r \in Reactions,
         SetReaction(h, u, r)
  PROVE  CountInv'
<1> DEFINE new == [NoRequest EXCEPT !.pc = "commit", !.by = u, !.old = reaction[u], !.new = r]
<1>1. \A x \in Handler : req[x].by # u
  BY DEF SetReaction, Begin, Free, OneAtATime, CountInv
<1>2. /\ new.pc = "commit" /\ new.by = u /\ new.old = reaction[u] /\ new.new = r
      /\ req' = [req EXCEPT ![h] = new]
  BY DEF NoRequest, SetReaction
<1> HIDE DEF new
<1>3. /\ req' = [x \in Handler |-> req'[x]] /\ req'[h] = new
      /\ \A x \in Handler \ {h} : req'[x] = req[x]
  BY <1>2 DEF CountInv, CommitsOK
<1>4. UNCHANGED <<ops, live, reaction, likes, dislikes>>
  BY DEF SetReaction, tripVars, socialVars
<1>5. CommitsOK'
  BY <1>1, <1>2, <1>3, <1>4 DEF CountInv, CommitsOK, Committing
<1>6. QED
  BY <1>4, <1>5 DEF CountInv, CountsMatch, Fans

\* The counter of r after one user's reaction went from old to new.
LEMMA CountedRight ==
  ASSUME IsFiniteSet(User), NEW f \in [User -> Reactions \cup {"none"}],
         NEW u \in User, NEW new \in Reactions, NEW r \in Reactions
  PROVE  LET fans(g) == {x \in User : g[x] = r}
             g == [f EXCEPT ![u] = new]
         IN  Counted(Cardinality(fans(f)), r, f[u], new) = Cardinality(fans(g))
<1> DEFINE F == {x \in User : f[x] = r}
           g == [f EXCEPT ![u] = new]
           G == {x \in User : g[x] = r}
<1>1. IsFiniteSet(F) /\ Cardinality(F) \in Nat
  BY FS_Subset, FS_CardinalityType
<1>2. \A x \in User : g[x] = IF x = u THEN new ELSE f[x]
  OBVIOUS
<1>3. CASE f[u] = new
  <2>1. G = F
    BY <1>2, <1>3
  <2>2. QED
    BY <1>3, <2>1 DEF Counted
<1>4. CASE f[u] # new /\ new = r
  <2>1. G = F \cup {u} /\ u \notin F
    BY <1>2, <1>4
  <2>2. Cardinality(G) = Cardinality(F) + 1
    BY <1>1, <2>1, FS_AddElement
  <2>3. QED
    BY <1>4, <2>2 DEF Counted
<1>5. CASE f[u] # new /\ new # r /\ f[u] = r
  <2>1. G = F \ {u} /\ u \in F
    BY <1>2, <1>5
  <2>2. Cardinality(G) = Cardinality(F) - 1
    BY <1>1, <2>1, FS_RemoveElement
  <2>3. Cardinality(F) > 0
    BY <1>1, <2>1, FS_EmptySet
  <2>4. QED
    BY <1>5, <2>2, <2>3 DEF Counted
<1>6. CASE f[u] # new /\ new # r /\ f[u] # r
  <2>1. G = F
    BY <1>2, <1>6
  <2>2. QED
    BY <1>6, <2>1 DEF Counted
<1>7. QED
  BY <1>3, <1>4, <1>5, <1>6

LEMMA ReactionCommits ==
  ASSUME IsFiniteSet(User), CountInv, NEW h \in Handler, CommitReaction(h)
  PROVE  CountInv'
<1> DEFINE u == req[h].by
           new == req[h].new
<1>1. PICK r : req' = [req EXCEPT ![h] = r] /\ r.pc # "commit"
  BY PublishesNext DEF CommitReaction
<1>2. /\ req' = [x \in Handler |-> req'[x]] /\ req'[h] = r
      /\ \A x \in Handler \ {h} : req'[x] = req[x]
  BY <1>1 DEF CountInv, CommitsOK
<1>3. /\ u \in User /\ new \in Reactions /\ (live => req[h].old = reaction[u])
      /\ \A x \in Handler \ {h} : Committing(x) => req[x].by # u
  BY DEF CommitReaction, At, CountInv, CommitsOK, Committing
<1>4. UNCHANGED <<ops, live>>
  BY DEF CommitReaction
<1>5. CASE live
  <2>1. /\ reaction' = [reaction EXCEPT ![u] = new]
        /\ likes' = Counted(likes, "like", reaction[u], new)
        /\ dislikes' = Counted(dislikes, "dislike", reaction[u], new)
    BY <1>3, <1>5 DEF CommitReaction
  <2>2. CommitsOK'
    <3>1. \A x \in Handler : Committing(x)' => x # h /\ Committing(x)
      BY <1>1, <1>2 DEF Committing
    <3>2. \A x \in Handler : Committing(x)' => reaction'[req[x].by] = reaction[req[x].by]
      BY <1>3, <2>1, <3>1 DEF CountInv, CommitsOK
    <3>3. QED
      BY <1>2, <1>4, <3>1, <3>2 DEF CountInv, CommitsOK
  <2>3. /\ likes = Cardinality({x \in User : reaction[x] = "like"})
        /\ dislikes = Cardinality({x \in User : reaction[x] = "dislike"})
        /\ reaction \in [User -> Reactions \cup {"none"}]
    BY DEF CountInv, CountsMatch, Fans
  <2>4. \A k \in Reactions :
          Counted(Cardinality({x \in User : reaction[x] = k}), k, reaction[u], new)
            = Cardinality({x \in User : reaction'[x] = k})
    BY <1>3, <2>1, <2>3, CountedRight
  <2>5. /\ likes' = Cardinality({x \in User : reaction'[x] = "like"})
        /\ dislikes' = Cardinality({x \in User : reaction'[x] = "dislike"})
    BY <2>1, <2>3, <2>4, ReactionsAre
  <2>6. CountsMatch'
    BY <2>5 DEF CountsMatch, Fans
  <2>7. QED
    BY <1>3, <1>4, <2>1, <2>2, <2>3, <2>6 DEF CountInv
<1>6. CASE ~live
  BY <1>1, <1>4, <1>6, OtherRequest DEF CommitReaction, socialVars
<1>7. QED
  BY <1>5, <1>6

\* The row goes, with the reactions; what is still about to commit will fail.
LEMMA RowDeleted ==
  ASSUME IsFiniteSet(User), CountInv, NEW h \in Handler, DeleteTripRow(h)
  PROVE  CountInv'
<1>1. PICK r : req' = [req EXCEPT ![h] = r] /\ r.pc # "commit"
  BY PublishesNext DEF DeleteTripRow
<1>2. /\ req' = [x \in Handler |-> req'[x]] /\ req'[h] = r
      /\ \A x \in Handler \ {h} : req'[x] = req[x]
  BY <1>1 DEF CountInv, CommitsOK
<1>3. CommitsOK'
  <2>1. \A x \in Handler : Committing(x)' => x # h /\ Committing(x)
    BY <1>1, <1>2 DEF Committing
  <2>2. ~live'
    BY DEF DeleteTripRow
  <2>3. QED
    BY <1>2, <2>1, <2>2 DEF CountInv, CommitsOK
<1>4. CASE live
  <2>1. /\ reaction' = [u \in User |-> "none"] /\ likes' = 0 /\ dislikes' = 0 /\ UNCHANGED ops
    BY <1>4 DEF DeleteTripRow
  <2>2. Fans("like")' = {} /\ Fans("dislike")' = {}
    BY <2>1 DEF Fans
  <2>3. QED
    BY <1>3, <2>1, <2>2, FS_EmptySet DEF CountInv, CountsMatch
<1>5. CASE ~live
  <2>1. UNCHANGED <<ops, reaction, likes, dislikes>>
    BY <1>5 DEF DeleteTripRow, socialVars
  <2>2. CountsMatch'
    BY <2>1 DEF CountInv, CountsMatch, Fans
  <2>3. QED
    BY <1>3, <2>1, <2>2 DEF CountInv
<1>6. QED
  BY <1>4, <1>5

------------------------------------------------------------------------------
(* Every step                                                               *)

LEMMA RequestCounts ==
  ASSUME CountInv, OneAtATime, NEW h \in Handler, Request(h)
  PROVE  CountInv'
<1>1. ASSUME NEW b \in Battle, NEW m \in Media, SubmitBattleResult(h, b, m)
      PROVE  CountInv'
  <2> DEFINE r == [NoRequest EXCEPT !.pc = "setWinner", !.by = battle[b].by, !.battle = b, !.media = m]
  <2>1. r.pc # "commit"
    BY DEF NoRequest
  <2>2. req' = [req EXCEPT ![h] = r] /\ UNCHANGED <<ops, live, reaction, likes, dislikes>>
    BY <1>1 DEF SubmitBattleResult, tripVars, socialVars
  <2> HIDE DEF r
  <2>3. QED
    BY <2>1, <2>2, OtherRequest
<1>2. ASSUME NEW u \in User, NEW p \in Pin, NEW pl \in Place, UpdatePin(h, u, p, pl)
      PROVE  CountInv'
  <2> DEFINE r == [NoRequest EXCEPT !.pc = "savePin", !.by = u, !.edit = TRUE, !.at = [NoPins EXCEPT ![p] = pl]]
  <2>1. r.pc # "commit"
    BY DEF NoRequest
  <2>2. req' = [req EXCEPT ![h] = r] /\ UNCHANGED <<ops, live, reaction, likes, dislikes>>
    BY <1>2 DEF UpdatePin, tripVars, socialVars
  <2> HIDE DEF r
  <2>3. QED
    BY <2>1, <2>2, OtherRequest
<1>3. ASSUME NEW u \in User, PublishGeoRequestForTrip(h, u)
      PROVE  CountInv'
  <2> DEFINE r == [NoRequest EXCEPT !.pc = "publish", !.by = u, !.edit = TRUE, !.out = <<GeoRequest(place)>>]
  <2>1. r.pc # "commit"
    BY DEF NoRequest
  <2>2. req' = [req EXCEPT ![h] = r] /\ UNCHANGED <<ops, live, reaction, likes, dislikes>>
    BY <1>3 DEF PublishGeoRequestForTrip, tripVars, socialVars
  <2> HIDE DEF r
  <2>3. QED
    BY <2>1, <2>2, OtherRequest
<1>4. ASSUME NEW op, NEW u \in User, NEW out, RemoveTrip(h, op, u, out)
      PROVE  CountInv'
  <2> DEFINE r == [NoRequest EXCEPT !.pc = "deleteTrip", !.by = u, !.edit = TRUE, !.out = out]
  <2>1. r.pc # "commit"
    BY DEF NoRequest
  <2>2. req' = [req EXCEPT ![h] = r] /\ UNCHANGED <<ops, live, reaction, likes, dislikes>>
    BY <1>4 DEF RemoveTrip, tripVars, socialVars
  <2> HIDE DEF r
  <2>3. QED
    BY <2>1, <2>2, OtherRequest
<1>5. QED
  BY <1>1, <1>2, <1>3, <1>4, StartReaction DEF Request, Reactions, DeleteTrip, LeaveTrip

LEMMA StepCounts ==
  ASSUME IsFiniteSet(User), CountInv, NEW h \in Handler, Step(h) \/ HandlerFails(h)
  PROVE  CountInv'
<1> USE OtherRequest, PublishesNext DEF tripVars, socialVars
<1>1. CASE SetWinner(h)
  <2> DEFINE r == [NoRequest EXCEPT !.pc = "rate", !.by = req[h].by, !.media = req[h].media]
  <2>1. r.pc # "commit"
    BY DEF NoRequest
  <2>2. req' = [req EXCEPT ![h] = r] \/ Finish(h)
    BY <1>1 DEF SetWinner
  <2> HIDE DEF r
  <2>3. QED
    BY <1>1, <2>1, <2>2 DEF SetWinner
<1>2. CASE IncrementBattleRating(h)
  BY <1>2 DEF IncrementBattleRating
<1>3. CASE SavePin(h)
  BY <1>3 DEF SavePin
<1>4. CASE PublishEvent(h) \/ HandlerFails(h)
  BY <1>4 DEF PublishEvent, HandlerFails
<1>5. QED
  BY <1>1, <1>2, <1>3, <1>4, ReactionCommits, RowDeleted DEF Step

LEMMA CountNext ==
  ASSUME IsFiniteSet(User), OneAtATime, CountInv, [Next]_vars
  PROVE  CountInv'
<1>1. ASSUME NEW h \in Handler, Request(h) \/ Step(h) \/ HandlerFails(h)
      PROVE  CountInv'
  BY <1>1, RequestCounts, StepCounts
<1>2. CASE \E u \in User, b \in Battle : StartBattle(u, b)
  BY <1>2, NoRequestStill DEF StartBattle, socialVars
<1>3. CASE ConsumeStats \/ StatsFails
  BY <1>3, NoRequestStill DEF ConsumeStats, ReadStats, Increment, DeleteByTripID, PublishGeoEvent,
     ResolvePin, StatsFails, tripVars, socialVars
<1>4. CASE ConsumeGeo \/ GeoFails
  BY <1>4, NoRequestStill DEF ConsumeGeo, MirrorRows, UpdateLocationNames, UpsertTripLocations,
     GeoFails, tripVars, socialVars
<1>5. CASE UNCHANGED vars
  BY <1>5, NoRequestStill DEF vars, tripVars, socialVars
<1>6. QED
  BY <1>1, <1>2, <1>3, <1>4, <1>5 DEF Next

\* As long as no user sends two reactions at once, the counters of the trip are
\* the numbers of its likes and dislikes in every reachable state, whatever else
\* is in flight and whatever fails: SetReaction reads without a lock, but only
\* its own user can change what it read.
THEOREM Counting ==
  ASSUME IsFiniteSet(User), OneAtATime
  PROVE  Spec => []CountsMatch
<1>1. Init => CountInv
  BY CountInit
<1>2. CountInv /\ [Next]_vars => CountInv'
  BY CountNext
<1>3. CountInv => CountsMatch
  BY DEF CountInv
<1>4. QED
  BY <1>1, <1>2, <1>3, PTL DEF Spec

------------------------------------------------------------------------------
(* Types of the requests and of the messages                                *)

Kinds    == DOMAIN Counter \cup {"PIN_LOCATIONS_REQUESTED", "TRIP_DELETED"}
Places   == [Pin -> Place \cup {NoPlace}]
Messages == [type : Kinds, user : User \cup {NoUser}, at : Places]
Pcs      == {"idle", "commit", "setWinner", "rate", "savePin", "deleteTrip", "publish"}
Opinions  == Reactions \cup {"none"}
Requests == [pc : Pcs, by : User \cup {NoUser}, old : Opinions, new : Opinions,
             out : Seq(Messages), battle : Battle \cup {NoBattle},
             media : Media \cup {NoMedia}, at : Places, edit : BOOLEAN]

\* A request has what its next step needs.
Armed(r) == /\ r.pc # "idle" => r.by \in User
            /\ r.pc = "commit" => r.new \in Reactions
            /\ r.pc = "setWinner" => r.battle \in Battle /\ r.media \in Media
            /\ r.pc = "publish" => r.out # <<>>

RequestsOK == req \in [Handler -> Requests] /\ \A h \in Handler : Armed(req[h])
BattlesOK  == /\ battle \in [Battle -> [state : {"UNUSED", "OPEN", "DONE", "GONE"},
                                       by : User \cup {NoUser}]]
              /\ \A b \in Battle : battle[b].state \in {"OPEN", "DONE"} => battle[b].by \in User
TripOK     == ops \in Mixes /\ live \in BOOLEAN /\ reaction \in [User -> Opinions] /\ place \in Places
QueuesOK   == stream \in Seq(Messages) /\ batch \in Seq(Messages) /\ found \in Places
StatsOK    == stats \in [User -> [likes : Nat, dislikes : Nat, battles : Nat]] /\ faults \in Nat

TypeInv == RequestsOK /\ BattlesOK /\ TripOK /\ QueuesOK /\ StatsOK

LEMMA KindsAre ==
  /\ DOMAIN Counter = {"LIKE_ADDED", "LIKE_REMOVED", "DISLIKE_ADDED", "DISLIKE_REMOVED",
                       "BATTLE_FINISHED"}
  /\ Event["like"].added = "LIKE_ADDED" /\ Event["like"].removed = "LIKE_REMOVED"
  /\ Event["dislike"].added = "DISLIKE_ADDED" /\ Event["dislike"].removed = "DISLIKE_REMOVED"
BY DEF Counter, Event

LEMMA NoRequestType == NoRequest \in Requests /\ Armed(NoRequest)
BY DEF NoRequest, Requests, Armed, Pcs, Opinions, Places, NoPins

\* A request is replaced by a well-formed one.
LEMMA RequestSet ==
  ASSUME RequestsOK, NEW h \in Handler, NEW r \in Requests, Armed(r), req' = [req EXCEPT ![h] = r]
  PROVE  RequestsOK'
BY DEF RequestsOK

\* A request that ends, or goes on to publish.
LEMMA PublishType ==
  ASSUME RequestsOK, NEW h \in Handler, ~Idle(h), NEW out \in Seq(Messages), Publish(h, out) \/ Finish(h)
  PROVE  RequestsOK'
<1> DEFINE r == [NoRequest EXCEPT !.pc = "publish", !.by = req[h].by, !.edit = req[h].edit, !.out = out]
<1>1. r \in Requests /\ (out # <<>> => Armed(r))
  <2>1. req[h] \in Requests /\ req[h].by \in User
    BY DEF RequestsOK, Armed, Idle
  <2>2. QED
    BY <2>1, NoRequestType DEF NoRequest, Requests, Armed, Pcs
<1>2. CASE Finish(h) \/ out = <<>>
  <2>1. req' = [req EXCEPT ![h] = NoRequest]
    BY <1>2 DEF Finish, Publish
  <2>2. QED
    BY <2>1, NoRequestType, RequestSet
<1>3. CASE Publish(h, out) /\ out # <<>>
  <2>1. req' = [req EXCEPT ![h] = r]
    BY <1>3 DEF Publish
  <2>2. QED
    BY <1>1, <1>3, <2>1, RequestSet
<1>4. QED
  BY <1>2, <1>3

LEMMA AboutOne == ASSUME NEW u, NEW x PROVE About(u, <<x>>) = <<Message(x, u, NoPins)>>
BY DEF About

LEMMA AboutTwo ==
  ASSUME NEW u, NEW x, NEW y
  PROVE  About(u, <<x, y>>) = <<Message(x, u, NoPins), Message(y, u, NoPins)>>
BY DEF About

LEMMA OneMessage == ASSUME NEW S, NEW x \in S PROVE <<x>> \in Seq(S)
OBVIOUS

LEMMA TwoMessages == ASSUME NEW x, NEW y PROVE <<x>> \o <<y>> = <<x, y>>
<1>1. <<x>> \in Seq({x, y}) /\ <<y>> \in Seq({x, y}) /\ <<x, y>> \in Seq({x, y})
  OBVIOUS
<1>2. PICK s, t, st : s = <<x>> /\ t = <<y>> /\ st = <<x, y>>
  OBVIOUS
<1>3. /\ s \in Seq({x, y}) /\ t \in Seq({x, y}) /\ st \in Seq({x, y})
      /\ Len(s) = 1 /\ Len(t) = 1 /\ Len(st) = 2 /\ s[1] = x /\ t[1] = y /\ st[1] = x /\ st[2] = y
  BY <1>1, <1>2
<1>4. /\ s \o t \in Seq({x, y}) /\ Len(s \o t) = 2
      /\ (s \o t)[1] = x /\ (s \o t)[2] = y
  BY <1>3, ConcatProperties
<1>5. \A i \in 1..Len(st) : st[i] = (s \o t)[i]
  BY <1>3, <1>4
<1>6. st = s \o t
  BY <1>3, <1>4, <1>5, SeqEqual
<1>7. QED
  BY <1>2, <1>6

\* The events of a reaction: those of the reactions it takes back and makes.
LEMMA ReactionOut ==
  ASSUME NEW u \in User, NEW old \in Opinions, NEW new \in Reactions,
         NEW out, out = About(u, ReactionEvents(old, new))
  PROVE  /\ out \in Seq(Messages)
         /\ \/ old = new /\ out = <<>>
            \/ old = "none" /\ out = <<Message(Event[new].added, u, NoPins)>>
            \/ /\ old \in Reactions \ {new}
               /\ out = <<Message(Event[old].removed, u, NoPins), Message(Event[new].added, u, NoPins)>>
<1>1. \A k \in Kinds : Message(k, u, NoPins) \in Messages
  BY DEF Message, Messages, Places, NoPins
<1>2. \A r \in Reactions : Event[r].added \in Kinds /\ Event[r].removed \in Kinds
  BY KindsAre, ReactionsAre DEF Kinds
<1>3. CASE old = new
  BY <1>3 DEF ReactionEvents, About
<1>4. CASE old = "none" /\ old # new
  <2>1. ReactionEvents(old, new) = <<Event[new].added>>
    BY <1>4 DEF ReactionEvents
  <2>2. out = <<Message(Event[new].added, u, NoPins)>>
    BY <2>1, AboutOne
  <2>3. Message(Event[new].added, u, NoPins) \in Messages
    BY <1>1, <1>2
  <2>4. QED
    BY <1>4, <2>2, <2>3, OneMessage
<1>5. CASE old \in Reactions \ {new}
  <2>1. old # "none" /\ old # new
    BY <1>5, ReactionsAre
  <2>2. ReactionEvents(old, new) = <<Event[old].removed, Event[new].added>>
    <3>1. ReactionEvents(old, new) = <<Event[old].removed>> \o <<Event[new].added>>
      BY <2>1 DEF ReactionEvents
    <3>2. QED
      BY <3>1, TwoMessages
  <2>3. out = <<Message(Event[old].removed, u, NoPins), Message(Event[new].added, u, NoPins)>>
    BY <2>2, AboutTwo
  <2>4. /\ Message(Event[old].removed, u, NoPins) \in Messages
        /\ Message(Event[new].added, u, NoPins) \in Messages
    BY <1>1, <1>2, <1>5
  <2>5. QED
    BY <1>5, <2>3, <2>4
<1>6. QED
  BY <1>3, <1>4, <1>5 DEF Opinions

\* The other messages.
LEMMA MessagesOut ==
  ASSUME NEW u \in User, NEW at \in Places
  PROVE  /\ <<GeoRequest(at)>> \in Seq(Messages)
         /\ <<Message("TRIP_DELETED", NoUser, NoPins)>> \in Seq(Messages)
         /\ About(u, <<"BATTLE_FINISHED">>) = <<Message("BATTLE_FINISHED", u, NoPins)>>
         /\ About(u, <<"BATTLE_FINISHED">>) \in Seq(Messages)
<1>1. NoPins \in Places
  BY DEF Places, NoPins
<1>2. /\ GeoRequest(at) \in Messages /\ Message("TRIP_DELETED", NoUser, NoPins) \in Messages
      /\ Message("BATTLE_FINISHED", u, NoPins) \in Messages
  BY <1>1, KindsAre DEF GeoRequest, Message, Messages, Kinds
<1>3. About(u, <<"BATTLE_FINISHED">>) = <<Message("BATTLE_FINISHED", u, NoPins)>>
  BY AboutOne
<1>4. QED
  BY <1>2, <1>3, OneMessage

------------------------------------------------------------------------------
(* Every step keeps the types                                               *)

LEMMA TypeInit == Init => TypeInv
<1> SUFFICES ASSUME Init PROVE TypeInv
  OBVIOUS
<1>1. RequestsOK
  BY NoRequestType DEF Init, RequestsOK
<1>2. BattlesOK /\ TripOK
  BY DEF Init, BattlesOK, TripOK, Opinions, Places, NoPins
<1>3. QueuesOK /\ StatsOK
  BY DEF Init, QueuesOK, StatsOK, Places, NoPins
<1>4. QED
  BY <1>1, <1>2, <1>3 DEF TypeInv

\* What a step leaves alone keeps its type.
LEMMA Kept ==
  ASSUME TypeInv
  PROVE  /\ UNCHANGED req => RequestsOK'
         /\ UNCHANGED battle => BattlesOK'
         /\ UNCHANGED <<ops, live, reaction, place>> => TripOK'
         /\ UNCHANGED <<stream, batch, found>> => QueuesOK'
         /\ UNCHANGED <<stats, faults>> => StatsOK'
BY DEF TypeInv, RequestsOK, BattlesOK, TripOK, QueuesOK, StatsOK

\* A request enters with a well-formed record.
LEMMA RequestType ==
  ASSUME TypeInv, NEW h \in Handler, Request(h)
  PROVE  TypeInv'
<1> USE DEF TypeInv
<1>1. UNCHANGED <<battle, ops, live, reaction, place, stream, batch, found, stats, faults>>
  BY DEF Request, SubmitBattleResult, SetReaction, UpdatePin, PublishGeoRequestForTrip, DeleteTrip,
     LeaveTrip, RemoveTrip, tripVars, statVars, socialVars, battleVars, pinVars
<1>2. NoRequest \in Requests
  BY NoRequestType
<1>3. ASSUME NEW b \in Battle, NEW m \in Media, SubmitBattleResult(h, b, m)
      PROVE  RequestsOK'
  <2> DEFINE r == [NoRequest EXCEPT !.pc = "setWinner", !.by = battle[b].by, !.battle = b, !.media = m]
  <2>1. battle[b].by \in User
    BY <1>3 DEF SubmitBattleResult, BattlesOK
  <2>2. r \in Requests /\ Armed(r)
    BY <1>2, <2>1 DEF Requests, Armed, Pcs, NoRequest
  <2>3. req' = [req EXCEPT ![h] = r]
    BY <1>3 DEF SubmitBattleResult
  <2>4. QED
    BY <2>2, <2>3, RequestSet
<1>4. ASSUME NEW u \in User, NEW k \in Reactions, SetReaction(h, u, k)
      PROVE  RequestsOK'
  <2> DEFINE r == [NoRequest EXCEPT !.pc = "commit", !.by = u, !.old = reaction[u], !.new = k]
  <2>1. reaction[u] \in Opinions /\ k \in Opinions
    BY DEF TripOK, Opinions
  <2>2. r \in Requests /\ Armed(r)
    BY <1>2, <2>1 DEF Requests, Armed, Pcs, NoRequest
  <2>3. req' = [req EXCEPT ![h] = r]
    BY <1>4 DEF SetReaction
  <2>4. QED
    BY <2>2, <2>3, RequestSet
<1>5. ASSUME NEW u \in User, NEW p \in Pin, NEW pl \in Place, UpdatePin(h, u, p, pl)
      PROVE  RequestsOK'
  <2> DEFINE r == [NoRequest EXCEPT !.pc = "savePin", !.by = u, !.edit = TRUE, !.at = [NoPins EXCEPT ![p] = pl]]
  <2>1. [NoPins EXCEPT ![p] = pl] \in Places
    BY DEF NoPins, Places
  <2>2. r \in Requests /\ Armed(r)
    BY <1>2, <2>1 DEF Requests, Armed, Pcs, NoRequest
  <2>3. req' = [req EXCEPT ![h] = r]
    BY <1>5 DEF UpdatePin
  <2>4. QED
    BY <2>2, <2>3, RequestSet
<1>6. ASSUME NEW u \in User, PublishGeoRequestForTrip(h, u)
      PROVE  RequestsOK'
  <2> DEFINE r == [NoRequest EXCEPT !.pc = "publish", !.by = u, !.edit = TRUE, !.out = <<GeoRequest(place)>>]
  <2>1. <<GeoRequest(place)>> \in Seq(Messages) /\ <<GeoRequest(place)>> # <<>>
    BY MessagesOut DEF TripOK
  <2>2. r \in Requests /\ Armed(r)
    BY <1>2, <2>1 DEF Requests, Armed, Pcs, NoRequest
  <2>3. req' = [req EXCEPT ![h] = r]
    BY <1>6 DEF PublishGeoRequestForTrip
  <2>4. QED
    BY <2>2, <2>3, RequestSet
<1>7. ASSUME NEW op, NEW u \in User, NEW out \in Seq(Messages), RemoveTrip(h, op, u, out)
      PROVE  RequestsOK'
  <2> DEFINE r == [NoRequest EXCEPT !.pc = "deleteTrip", !.by = u, !.edit = TRUE, !.out = out]
  <2>1. r \in Requests /\ Armed(r)
    BY <1>2 DEF Requests, Armed, Pcs, NoRequest
  <2>2. req' = [req EXCEPT ![h] = r]
    BY <1>7 DEF RemoveTrip
  <2>3. QED
    BY <2>1, <2>2, RequestSet
<1>8. RequestsOK'
  <2>1. ASSUME NEW u \in User, DeleteTrip(h, u) \/ LeaveTrip(h, u)
        PROVE  RequestsOK'
    <3>1. <<Message("TRIP_DELETED", NoUser, NoPins)>> \in Seq(Messages) /\ <<>> \in Seq(Messages)
      BY MessagesOut DEF TripOK
    <3>2. QED
      BY <1>7, <2>1, <3>1 DEF DeleteTrip, LeaveTrip
  <2>2. QED
    BY <1>3, <1>4, <1>5, <1>6, <2>1 DEF Request, Reactions
<1>9. QED
  BY <1>1, <1>8, Kept

\* A handler moves on, publishes or ends.
LEMMA StepType ==
  ASSUME TypeInv, NEW h \in Handler, Step(h) \/ HandlerFails(h)
  PROVE  TypeInv'
<1> USE DEF TypeInv
<1>1. /\ req[h] \in Requests /\ Armed(req[h]) /\ NoRequest \in Requests
      /\ <<>> \in Seq(Messages)
  BY NoRequestType DEF RequestsOK
<1>2. CASE CommitReaction(h)
  <2>1. ~Idle(h) /\ req[h].by \in User /\ req[h].old \in Opinions /\ req[h].new \in Reactions
    BY <1>1, <1>2 DEF CommitReaction, At, Idle, Armed, Requests
  <2>2. PICK out : out = About(req[h].by, ReactionEvents(req[h].old, req[h].new))
    OBVIOUS
  <2>3. out \in Seq(Messages)
    BY <2>1, <2>2, ReactionOut
  <2>4. RequestsOK'
    BY <1>1, <1>2, <2>1, <2>2, <2>3, PublishType DEF CommitReaction
  <2>5. TripOK'
    BY <1>2, <2>1 DEF CommitReaction, TripOK, Opinions, socialVars, pinVars
  <2>6. QED
    BY <1>2, <2>4, <2>5, Kept DEF CommitReaction, battleVars, statVars
<1>3. CASE SetWinner(h)
  <2> DEFINE r == [NoRequest EXCEPT !.pc = "rate", !.by = req[h].by, !.media = req[h].media]
  <2>1. req[h].battle \in Battle /\ req[h].media \in Media \cup {NoMedia} /\ req[h].by \in User /\ ~Idle(h)
    BY <1>1, <1>3 DEF SetWinner, At, Armed, Idle, Requests
  <2>2. r \in Requests /\ Armed(r)
    BY <1>1, <2>1 DEF Requests, Armed, Pcs, NoRequest
  <2>3. req' = [req EXCEPT ![h] = r] \/ Finish(h)
    BY <1>3 DEF SetWinner
  <2>4. RequestsOK'
    BY <1>1, <2>1, <2>2, <2>3, RequestSet, PublishType
  <2>5. BattlesOK'
    BY <1>3, <2>1 DEF SetWinner, CanSetWinner, BattlesOK
  <2>6. QED
    BY <1>3, <2>4, <2>5, Kept DEF SetWinner, socialVars, pinVars, statVars
<1>4. CASE IncrementBattleRating(h)
  <2>1. req[h].by \in User /\ ~Idle(h)
    BY <1>1, <1>4 DEF IncrementBattleRating, At, Armed, Idle
  <2>2. PICK out : out = About(req[h].by, <<"BATTLE_FINISHED">>)
    OBVIOUS
  <2>3. NoPins \in Places
    BY DEF Places, NoPins
  <2>4. out \in Seq(Messages)
    BY <2>1, <2>2, <2>3, MessagesOut
  <2>5. RequestsOK'
    BY <1>1, <1>4, <2>1, <2>2, <2>4, PublishType DEF IncrementBattleRating
  <2>6. QED
    BY <1>4, <2>5, Kept DEF IncrementBattleRating, socialVars, pinVars, statVars
<1>5. CASE SavePin(h)
  <2>1. req[h].by \in User /\ req[h].at \in Places /\ ~Idle(h)
    BY <1>1, <1>5 DEF SavePin, At, Armed, Idle, Requests
  <2>2. PICK out : out = <<GeoRequest(req[h].at)>>
    OBVIOUS
  <2>3. out \in Seq(Messages)
    BY <2>1, <2>2, MessagesOut
  <2>4. RequestsOK'
    BY <1>1, <1>5, <2>1, <2>2, <2>3, PublishType DEF SavePin
  <2>5. TripOK'
    BY <1>5, <2>1 DEF SavePin, TripOK, Places, socialVars
  <2>6. QED
    BY <1>5, <2>4, <2>5, Kept DEF SavePin, battleVars, statVars
<1>6. CASE DeleteTripRow(h)
  <2>1. req[h].out \in Seq(Messages) /\ ~Idle(h)
    BY <1>1, <1>6 DEF DeleteTripRow, At, Idle, Requests
  <2>2. RequestsOK'
    BY <1>6, <2>1, PublishType DEF DeleteTripRow
  <2>3. TripOK' /\ BattlesOK'
    <3>1. CASE live
      <4>1. TripOK'
        BY <1>6, <3>1 DEF DeleteTripRow, TripOK, Opinions, Places, NoPins
      <4>2. battle' = [b \in Battle |-> [state |-> "GONE", by |-> NoUser]]
        BY <1>6, <3>1 DEF DeleteTripRow
      <4>3. QED
        BY <4>1, <4>2 DEF BattlesOK
    <3>2. CASE ~live
      BY <1>6, <3>2 DEF DeleteTripRow, TripOK, BattlesOK, socialVars, battleVars, pinVars
    <3>3. QED
      BY <3>1, <3>2
  <2>4. QED
    BY <1>6, <2>2, <2>3, Kept DEF DeleteTripRow, statVars
<1>7. CASE PublishEvent(h)
  <2>1. /\ ~Idle(h) /\ Head(req[h].out) \in Messages /\ Tail(req[h].out) \in Seq(Messages)
    BY <1>1, <1>7 DEF PublishEvent, At, Idle, Armed, Requests
  <2>2. RequestsOK'
    BY <1>7, <2>1, PublishType DEF PublishEvent
  <2>3. QueuesOK' /\ StatsOK'
    <3>1. stream' \in Seq(Messages)
      BY <1>7, <2>1, AppendProperties DEF PublishEvent, QueuesOK
    <3>2. UNCHANGED <<batch, found, stats>>
      BY <1>7 DEF PublishEvent, statVars
    <3>3. faults' \in Nat
      BY <1>7 DEF PublishEvent, StatsOK, Fault
    <3>4. QED
      BY <3>1, <3>2, <3>3 DEF QueuesOK, StatsOK
  <2>4. QED
    BY <1>7, <2>2, <2>3, Kept DEF PublishEvent, tripVars, socialVars, battleVars, pinVars
<1>8. CASE HandlerFails(h)
  <2>1. RequestsOK'
    BY <1>1, <1>8, PublishType DEF HandlerFails
  <2>2. StatsOK'
    BY <1>8 DEF HandlerFails, Fault, StatsOK, statVars
  <2>3. QED
    BY <1>8, <2>1, <2>2, Kept DEF HandlerFails, tripVars, socialVars, battleVars, pinVars, statVars
<1>9. QED
  BY <1>2, <1>3, <1>4, <1>5, <1>6, <1>7, <1>8 DEF Step

\* The consumers take messages off and count.
LEMMA ConsumersType ==
  ASSUME TypeInv, ConsumeStats \/ StatsFails \/ ConsumeGeo \/ GeoFails
  PROVE  TypeInv'
<1> USE DEF TypeInv
<1>1. UNCHANGED <<req, battle, ops, live, reaction, place>>
  BY DEF ConsumeStats, ReadStats, Increment, DeleteByTripID, PublishGeoEvent, ResolvePin,
     StatsFails,
     ConsumeGeo, MirrorRows, UpdateLocationNames, UpsertTripLocations, GeoFails, tripVars,
     socialVars, battleVars, pinVars
<1>2. NoPins \in Places /\ <<>> \in Seq(Messages)
  BY DEF Places, NoPins
<1>3. QueuesOK'
  <2>1. ASSUME NEW p \in Pin, ResolvePin(p)
        PROVE  QueuesOK'
    <3>1. PICK m \in Messages : m = batch[1]
      BY <2>1 DEF ResolvePin, Handling, QueuesOK
    <3>2. [m EXCEPT !.at[p] = NoPlace] \in Messages
      BY <3>1 DEF Messages, Places
    <3>3. batch' = [batch EXCEPT ![1] = [m EXCEPT !.at[p] = NoPlace]]
      BY <2>1, <3>1 DEF ResolvePin, QueuesOK
    <3>4. batch' \in Seq(Messages)
      BY <3>2, <3>3, ExceptSeq, <2>1 DEF QueuesOK, ResolvePin, Handling
    <3>5. found' \in Places
      <4>1. Head(batch).at[p] \in Place \cup {NoPlace}
        BY <2>1, <3>1 DEF QueuesOK, ResolvePin, Handling, Messages, Places
      <4>2. QED
        BY <2>1, <4>1 DEF ResolvePin, QueuesOK, Places
    <3>6. QED
      BY <2>1, <3>4, <3>5 DEF ResolvePin, QueuesOK
  <2>2. CASE ReadStats \/ Increment \/ DeleteByTripID \/ PublishGeoEvent \/ StatsFails
    <3>1. stream' \in Seq(Messages) /\ found' \in Places
      BY <1>2, <2>2 DEF ReadStats, Increment, DeleteByTripID, PublishGeoEvent, StatsFails, QueuesOK
    <3>2. batch' \in {stream, <<>>} \/ (batch # <<>> /\ batch' = Tail(batch))
      BY <2>2 DEF ReadStats, Increment, DeleteByTripID, PublishGeoEvent, StatsFails, Handling
    <3>3. batch # <<>> => Tail(batch) \in Seq(Messages)
      BY DEF QueuesOK
    <3>4. QED
      BY <1>2, <3>1, <3>2, <3>3 DEF QueuesOK
  <2>3. CASE ConsumeGeo \/ GeoFails
    BY <2>3 DEF ConsumeGeo, MirrorRows, UpdateLocationNames, UpsertTripLocations, GeoFails,
       QueuesOK,
       statVars
  <2>4. QED
    BY <2>1, <2>2, <2>3 DEF ConsumeStats
<1>4. StatsOK'
  <2>1. CASE Increment
    <3>1. PICK m \in Messages : m = Head(batch) /\ m.type \in DOMAIN Counter
      BY <2>1 DEF Increment, QueuesOK
    <3>2. PICK c \in {"likes", "dislikes", "battles"} : c = Counter[m.type]
      BY <3>1 DEF Counter
    <3>3. /\ stats' = [stats EXCEPT ![m.user][c] = Stepped(@, m.type)] /\ UNCHANGED faults
      BY <2>1, <3>1, <3>2 DEF Increment
    <3>4. \A n \in Nat : Stepped(n, m.type) \in Nat
      BY DEF Stepped
    <3>5. QED
      BY <3>3, <3>4 DEF StatsOK
  <2>2. CASE UNCHANGED stats /\ (UNCHANGED faults \/ Fault)
    BY <2>2 DEF StatsOK, Fault
  <2>3. Increment \/ (UNCHANGED stats /\ (UNCHANGED faults \/ Fault))
    BY DEF ConsumeStats, ReadStats, DeleteByTripID, PublishGeoEvent, ResolvePin, StatsFails,
     ConsumeGeo, MirrorRows, UpdateLocationNames, UpsertTripLocations, GeoFails, statVars
  <2>4. QED
    BY <2>1, <2>2, <2>3
<1>5. QED
  BY <1>1, <1>3, <1>4, Kept

LEMMA TypeNext == TypeInv /\ [Next]_vars => TypeInv'
<1> SUFFICES ASSUME TypeInv, [Next]_vars PROVE TypeInv'
  OBVIOUS
<1>1. ASSUME NEW u \in User, NEW b \in Battle, StartBattle(u, b)
      PROVE  TypeInv'
  <2>1. BattlesOK'
    BY <1>1 DEF StartBattle, TypeInv, BattlesOK
  <2>2. QED
    BY <1>1, <2>1, Kept DEF StartBattle, TypeInv, socialVars, pinVars, statVars
<1>2. CASE UNCHANGED vars
  BY <1>2, Kept DEF TypeInv, vars, tripVars, socialVars, battleVars, pinVars, statVars
<1>3. QED
  BY <1>1, <1>2, RequestType, StepType, ConsumersType DEF Next

\* Requests, battles, messages and counters are well-typed.
LEMMA TypeInvariant == Spec => []TypeInv
BY TypeInit, TypeNext, PTL DEF Spec

------------------------------------------------------------------------------
(* A deletion that is the last word                                         *)

\* The deletion is ahead of the consumer with no request for locations behind it,
\* or the consumer is past it and the trip has no locations.
Past == /\ \A h \in Handler : ~Locates(req[h].out)
        /\ \/ EndsClean(stream)
           \/ ~Locates(stream) /\ EndsClean(batch)
           \/ ~Locates(stream) /\ ~Locates(batch) /\ visited = {}

ForgetInv == TypeInv /\ ~live /\ (faults = 0 => Past)

LEMMA NothingLocates == ~Locates(<<>>) /\ ~Locates(NoRequest.out) /\ ~EndsClean(<<>>)
BY DEF Locates, EndsClean, NoRequest

\* A message that does not ask for locations changes nothing behind the deletion.
LEMMA AppendClean ==
  ASSUME NEW seq \in Seq(Messages), NEW m \in Messages
  PROVE  /\ ~Locating(m) /\ ~Locates(seq) => ~Locates(Append(seq, m))
         /\ ~Locating(m) /\ EndsClean(seq) => EndsClean(Append(seq, m))
         /\ m.type = "TRIP_DELETED" => EndsClean(Append(seq, m))
<1>1. PICK new \in Seq(Messages) : new = Append(seq, m)
  BY AppendProperties
<1>2. /\ Len(seq) \in Nat /\ Len(new) = Len(seq) + 1 /\ new[Len(seq) + 1] = m
      /\ \A i \in 1..Len(seq) : new[i] = seq[i]
  BY <1>1, AppendProperties, LenProperties
<1>3. ~Locating(m) /\ ~Locates(seq) => ~Locates(new)
  BY <1>2 DEF Locates
<1>4. ~Locating(m) /\ EndsClean(seq) => EndsClean(new)
  <2> SUFFICES ASSUME ~Locating(m), EndsClean(seq) PROVE EndsClean(new)
    OBVIOUS
  <2>1. PICK i \in 1..Len(seq) : /\ seq[i].type = "TRIP_DELETED"
                                 /\ \A j \in 1..Len(seq) : j > i => ~Locating(seq[j])
    BY DEF EndsClean
  <2>2. i \in 1..Len(new) /\ new[i].type = "TRIP_DELETED"
    BY <1>2, <2>1
  <2>3. \A j \in 1..Len(new) : j > i => ~Locating(new[j])
    BY <1>2, <2>1
  <2>4. QED
    BY <2>2, <2>3 DEF EndsClean
<1>5. m.type = "TRIP_DELETED" => EndsClean(new)
  <2> SUFFICES ASSUME m.type = "TRIP_DELETED" PROVE EndsClean(new)
    OBVIOUS
  <2>1. /\ Len(new) \in 1..Len(new) /\ new[Len(new)].type = "TRIP_DELETED"
        /\ \A j \in 1..Len(new) : ~(j > Len(new))
    BY <1>2
  <2>2. QED
    BY <2>1 DEF EndsClean
<1>6. QED
  BY <1>1, <1>3, <1>4, <1>5

\* The message at hand is gone.
LEMMA TailClean ==
  ASSUME NEW seq \in Seq(Messages), seq # <<>>
  PROVE  /\ ~Locates(seq) => ~Locates(Tail(seq))
         /\ EndsClean(seq) => \/ EndsClean(Tail(seq))
                              \/ Head(seq).type = "TRIP_DELETED" /\ ~Locates(Tail(seq))
<1>1. PICK rest \in Seq(Messages) : rest = Tail(seq)
  BY HeadTailProperties
<1>2. /\ Len(seq) \in Nat /\ Len(rest) = Len(seq) - 1 /\ Head(seq) = seq[1]
      /\ \A i \in 1..Len(rest) : rest[i] = seq[i + 1] /\ i + 1 \in 1..Len(seq)
  BY <1>1, HeadTailProperties, LenProperties
<1>3. ~Locates(seq) => ~Locates(rest)
  BY <1>2 DEF Locates
<1>4. ASSUME EndsClean(seq)
      PROVE  EndsClean(rest) \/ (Head(seq).type = "TRIP_DELETED" /\ ~Locates(rest))
  <2>1. PICK i \in 1..Len(seq) : /\ seq[i].type = "TRIP_DELETED"
                                 /\ \A j \in 1..Len(seq) : j > i => ~Locating(seq[j])
    BY <1>4 DEF EndsClean
  <2>2. CASE i = 1
    <3>1. \A j \in 1..Len(rest) : ~Locating(rest[j])
      BY <1>2, <2>1, <2>2
    <3>2. QED
      BY <1>2, <2>1, <2>2, <3>1 DEF Locates
  <2>3. CASE i # 1
    <3>1. i - 1 \in 1..Len(rest) /\ rest[i - 1] = seq[i]
      BY <1>2, <2>1, <2>3
    <3>2. \A j \in 1..Len(rest) : j > i - 1 => ~Locating(rest[j])
      BY <1>2, <2>1
    <3>3. QED
      BY <2>1, <3>1, <3>2 DEF EndsClean
  <2>4. QED
    BY <2>2, <2>3
<1>5. QED
  BY <1>1, <1>3, <1>4

\* The resolution of a pin changes what a message asks for, not its type.
LEMMA SameTypes ==
  ASSUME NEW seq \in Seq(Messages), NEW new \in Seq(Messages), Len(new) = Len(seq),
         \A i \in 1..Len(seq) : new[i].type = seq[i].type
  PROVE  (Locates(new) <=> Locates(seq)) /\ (EndsClean(seq) => EndsClean(new))
BY DEF Locates, EndsClean, Locating

\* A step of a request that leaves it nothing to publish, and the streams alone.
LEMMA QuietStep ==
  ASSUME ForgetInv, TypeInv', NEW h \in Handler, ~Locates(req'[h].out),
         \A g \in Handler \ {h} : req'[g] = req[g],
         UNCHANGED <<live, stream, batch, visited, faults>>
  PROVE  ForgetInv'
<1>1. faults = 0 => Past'
  BY DEF ForgetInv, Past, Locates, EndsClean
<1>2. QED
  BY <1>1 DEF ForgetInv

\* Without the row a request that was under way has nothing more to tell.
LEMMA LateStep ==
  ASSUME ForgetInv, NEW h \in Handler,
         \/ CommitReaction(h) \/ SetWinner(h) \/ IncrementBattleRating(h)
         \/ SavePin(h) \/ DeleteTripRow(h)
  PROVE  ForgetInv'
<1>1. req \in [Handler -> Requests] /\ ~live /\ TypeInv'
  BY StepType DEF ForgetInv, TypeInv, RequestsOK, Step
<1>2. UNCHANGED <<live, stream, batch, visited, faults>>
  BY <1>1 DEF CommitReaction, SetWinner, IncrementBattleRating, SavePin, DeleteTripRow, statVars,
     ForgetInv, TypeInv, TripOK
<1>3. req' = [req EXCEPT ![h] = NoRequest] \/ SetWinner(h)
  BY <1>1 DEF CommitReaction, IncrementBattleRating, SavePin, DeleteTripRow, Finish
<1>4. /\ req'[h].out = NoRequest.out
      /\ \A g \in Handler \ {h} : req'[g] = req[g]
  <2>1. CASE req' = [req EXCEPT ![h] = NoRequest]
    BY <1>1, <2>1
  <2>2. CASE SetWinner(h)
    <3> DEFINE r == [NoRequest EXCEPT !.pc = "rate", !.by = req[h].by, !.media = req[h].media]
    <3>1. r.out = NoRequest.out
      BY DEF NoRequest
    <3>2. req' = [req EXCEPT ![h] = r] \/ req' = [req EXCEPT ![h] = NoRequest]
      BY <2>2 DEF SetWinner, Finish
    <3> HIDE DEF r
    <3>3. QED
      BY <1>1, <3>1, <3>2
  <2>3. QED
    BY <1>3, <2>1, <2>2
<1>5. ~Locates(req'[h].out)
  BY <1>4, NothingLocates
<1>6. QED
  BY <1>1, <1>2, <1>4, <1>5, QuietStep

LEMMA PublishRest ==
  ASSUME req \in [Handler -> Requests], NEW h \in Handler, NEW out, Publish(h, out)
  PROVE  /\ \A g \in Handler \ {h} : req'[g] = req[g]
         /\ req'[h].out = out \/ req'[h] = NoRequest
BY DEF Publish, NoRequest

\* What is still published asks for no locations.
LEMMA PublishForgets ==
  ASSUME ForgetInv, NEW h \in Handler, PublishEvent(h)
  PROVE  ForgetInv'
<1>1. /\ req \in [Handler -> Requests] /\ Armed(req[h]) /\ req[h].pc = "publish"
      /\ stream \in Seq(Messages) /\ faults \in Nat /\ TypeInv'
  BY StepType DEF ForgetInv, TypeInv, RequestsOK, QueuesOK, StatsOK, PublishEvent, At, Step
<1>2. UNCHANGED <<live, batch, visited>>
  BY DEF PublishEvent, tripVars, statVars
<1>3. PICK out \in Seq(Messages) : out = req[h].out /\ out # <<>>
  BY <1>1 DEF Armed, Requests
<1>4. /\ Publish(h, Tail(out)) /\ Head(out) \in Messages /\ Tail(out) \in Seq(Messages)
      /\ stream' = Append(stream, Head(out)) \/ faults' # 0
      /\ faults' = 0 => faults = 0
  BY <1>1, <1>3, HeadTailProperties DEF PublishEvent, Fault
<1>5. ASSUME faults' = 0
      PROVE  Past'
  <2>1. Past /\ stream' = Append(stream, Head(out))
    BY <1>4, <1>5 DEF ForgetInv
  <2>2. ~Locates(Tail(out)) /\ ~Locating(Head(out))
    <3>1. ~Locates(out) /\ 1 \in 1..Len(out) /\ Head(out) = out[1]
      BY <1>3, <2>1, HeadTailProperties DEF Past
    <3>2. QED
      BY <1>3, <3>1, TailClean DEF Locates
  <2>3. \A g \in Handler : ~Locates(req'[g].out)
    BY <1>1, <1>4, <2>1, <2>2, PublishRest, NothingLocates DEF Past
  <2>4. /\ ~Locates(stream) => ~Locates(stream')
        /\ EndsClean(stream) => EndsClean(stream')
    BY <1>1, <1>4, <2>1, <2>2, AppendClean
  <2>5. QED
    BY <1>2, <2>1, <2>3, <2>4 DEF Past, Locates, EndsClean
<1>6. QED
  BY <1>1, <1>2, <1>5 DEF ForgetInv

LEMMA HandlerForgets ==
  ASSUME ForgetInv, NEW h \in Handler, Request(h) \/ Step(h) \/ HandlerFails(h)
  PROVE  ForgetInv'
<1>1. CASE Request(h)
  <2>1. PICK b \in Battle, m \in Media : SubmitBattleResult(h, b, m)
    BY <1>1 DEF ForgetInv, Request, SetReaction, UpdatePin, PublishGeoRequestForTrip, DeleteTrip,
       LeaveTrip, RemoveTrip, Edit, Begin
  <2>2. QED
    BY <2>1 DEF ForgetInv, SubmitBattleResult
<1>2. CASE HandlerFails(h)
  <2>1. TypeInv' /\ UNCHANGED live /\ faults' # 0
    BY <1>2, StepType DEF ForgetInv, HandlerFails, Fault, tripVars, TypeInv, StatsOK
  <2>2. QED
    BY <2>1 DEF ForgetInv
<1>3. QED
  BY <1>1, <1>2, LateStep, PublishForgets DEF Step

\* The consumer takes the messages in their order.
LEMMA ConsumersForget ==
  ASSUME ForgetInv, ConsumeStats \/ StatsFails \/ ConsumeGeo \/ GeoFails
  PROVE  ForgetInv'
<1>1. /\ stream \in Seq(Messages) /\ batch \in Seq(Messages) /\ faults \in Nat
      /\ TypeInv' /\ ~live /\ (faults = 0 => Past)
  BY ConsumersType DEF ForgetInv, TypeInv, QueuesOK, StatsOK
<1>2. UNCHANGED <<live, req>>
  BY DEF ConsumeStats, ReadStats, Increment, DeleteByTripID, PublishGeoEvent, ResolvePin,
     StatsFails,
     ConsumeGeo, MirrorRows, UpdateLocationNames, UpsertTripLocations, GeoFails, tripVars
<1>3. ASSUME faults' = 0 => faults = 0 /\ (Past => Past')
      PROVE  ForgetInv'
  BY <1>1, <1>2, <1>3 DEF ForgetInv
<1>4. CASE ConsumeGeo \/ GeoFails
  <2>1. UNCHANGED <<stream, batch, visited>> /\ (faults' = 0 => faults = 0)
    BY <1>1, <1>4 DEF ConsumeGeo, MirrorRows, UpdateLocationNames, UpsertTripLocations,
       GeoFails, Fault, statVars
  <2>2. Past => Past'
    BY <1>2, <2>1 DEF Past, EndsClean, Locates
  <2>3. QED
    BY <1>3, <2>1, <2>2
<1>5. CASE ReadStats
  <2>1. batch' = stream /\ stream' = <<>> /\ batch = <<>> /\ UNCHANGED <<visited, faults>>
    BY <1>5 DEF ReadStats
  <2>2. Past => Past'
    BY <1>2, <2>1, NothingLocates DEF Past, EndsClean, Locates
  <2>3. QED
    BY <1>3, <2>1, <2>2
<1>6. CASE Increment \/ PublishGeoEvent \/ DeleteByTripID
  <2>1. /\ batch # <<>> /\ batch' = Tail(batch) /\ UNCHANGED <<stream, faults>>
        /\ UNCHANGED visited \/ visited' = {}
        /\ Head(batch).type = "TRIP_DELETED" => visited' = {}
    BY <1>6, KindsAre DEF Increment, PublishGeoEvent, DeleteByTripID, Handling
  <2>2. PICK rest : rest = Tail(batch)
    OBVIOUS
  <2>3. /\ ~Locates(batch) => ~Locates(rest)
        /\ EndsClean(batch) => EndsClean(rest) \/ (Head(batch).type = "TRIP_DELETED" /\ ~Locates(rest))
    BY <1>1, <2>1, <2>2, TailClean
  <2>4. Past => Past'
    BY <1>2, <2>1, <2>2, <2>3 DEF Past, EndsClean, Locates
  <2>5. QED
    BY <1>3, <2>1, <2>4
<1>7. ASSUME NEW p \in Pin, ResolvePin(p)
      PROVE  ForgetInv'
  <2>1. /\ Locates(batch) /\ UNCHANGED stream /\ (faults' = 0 => faults = 0)
        /\ batch' = [batch EXCEPT ![1].at[p] = NoPlace]
    BY <1>1, <1>7 DEF ResolvePin, Handling, Locates, Locating, Fault
  <2>2. \A i \in 1..Len(batch) : batch'[i].type = batch[i].type
    BY <1>1, <2>1 DEF Messages
  <2>3. Len(batch') = Len(batch) /\ batch' \in Seq(Messages)
    BY <1>1, <2>1 DEF TypeInv, QueuesOK
  <2>4. EndsClean(batch) => EndsClean(batch')
    BY <1>1, <2>2, <2>3, SameTypes
  <2>5. Past => Past'
    BY <1>2, <2>1, <2>4 DEF Past, EndsClean, Locates
  <2>6. QED
    BY <1>3, <2>1, <2>5
<1>8. CASE StatsFails
  BY <1>1, <1>3, <1>8 DEF StatsFails, Fault
<1>9. QED
  BY <1>4, <1>5, <1>6, <1>7, <1>8 DEF ConsumeStats

LEMMA ForgetNext == ForgetInv /\ [Next]_vars => ForgetInv'
<1> SUFFICES ASSUME ForgetInv, [Next]_vars PROVE ForgetInv'
  OBVIOUS
<1>1. CASE (\E u \in User, b \in Battle : StartBattle(u, b)) \/ UNCHANGED vars
  <2>1. TypeInv' /\ UNCHANGED <<live, req, stream, batch, visited, faults>>
    BY <1>1, TypeNext DEF ForgetInv, StartBattle, vars, tripVars, statVars
  <2>2. Past => Past'
    BY <2>1 DEF Past, EndsClean, Locates
  <2>3. QED
    BY <2>1, <2>2 DEF ForgetInv
<1>2. QED
  BY <1>1, HandlerForgets, ConsumersForget DEF Next

\* In every state where TRIP_DELETED is the last word about the trip, nothing is
\* left that could count it as a visit again: no request that is under way finds
\* the row any more, and the consumer keeps the order of the messages.
THEOREM VisitsEnd == Spec => DeletionForgets
<1>1. TypeInv /\ DeletionLast /\ faults = 0 => ForgetInv
  BY DEF DeletionLast, ForgetInv, Past
<1>2. ForgetInv /\ [Next]_vars => ForgetInv'
  BY ForgetNext
<1>3. ForgetInv => (Quiet /\ faults = 0 => visited = {})
  BY NothingLocates DEF ForgetInv, Past, Quiet
<1>4. Spec => []TypeInv
  BY TypeInvariant
<1>5. QED
  BY <1>1, <1>2, <1>3, <1>4, PTL DEF Spec, DeletionForgets

------------------------------------------------------------------------------
(* What the statistics will be when all that is on its way is counted       *)

Columns == {"likes", "dislikes", "battles"}
\* m is about counter c of user u.
Counts(m, u, c) == m.user = u /\ m.type \in DOMAIN Counter /\ Counter[m.type] = c
\* The counter of u is n before message m and k after it, and never below 0.
Move(n, m, k, u, c) ==
  IF ~Counts(m, u, c) THEN k = n
  ELSE IF m.type \in {"LIKE_REMOVED", "DISLIKE_REMOVED"} THEN n = k + 1
  ELSE k = n + 1
\* Its values before and after each message of seq; no message takes back a battle.
Path(f, a, seq, b, u, c) ==
  /\ f \in [0..Len(seq) -> Nat] /\ f[0] = a /\ f[Len(seq)] = b
  /\ \A i \in 1..Len(seq) : Move(f[i - 1], seq[i], f[i], u, c)
  /\ c = "battles" => \A i, j \in 0..Len(seq) : i <= j => f[i] <= f[j]
Walk(a, seq, b, u, c) == \E f \in [0..Len(seq) -> Nat] : Path(f, a, seq, b, u, c)
\* The counter will be k once the consumer has counted its batch and the stream.
Chain(u, c, k) == \E b \in Nat : Walk(stats[u][c], batch, b, u, c) /\ Walk(b, stream, k, u, c)

Column     == [like |-> "likes", dislike |-> "dislikes"]
OfReaction == {"LIKE_ADDED", "LIKE_REMOVED", "DISLIKE_ADDED", "DISLIKE_REMOVED"}
\* What a request publishes is about the reaction of its user, or about a battle of
\* theirs, or about no counter.
Shape(r) == r.pc = "publish" =>
  \/ \A i \in 1..Len(r.out) : r.out[i].type \in OfReaction /\ r.out[i].user = r.by
  \/ r.out = <<Message("BATTLE_FINISHED", r.by, NoPins)>>
  \/ Len(r.out) = 1 /\ r.out[1].type \notin DOMAIN Counter
\* A request has still to tell about the reaction, or the battle, of its user.
Tells(r)  == r.pc = "publish" /\ r.out[1].type \in OfReaction
Owes(r)   == r.pc = "rate" \/ (r.pc = "publish" /\ r.out[1].type = "BATTLE_FINISHED")
Owing(u)  == {h \in Handler : req[h].by = u /\ Owes(req[h])}
Reacts(r) == r.pc = "commit" \/ Tells(r)

\* No user sends two reactions at once.
Once == "twice" \notin ops
\* A user's reaction is changed by one request at a time, which knows the one they have.
Alternate == Once =>
  /\ \A g, h \in Handler : Reacts(req[g]) /\ Reacts(req[h]) /\ req[g].by = req[h].by => g = h
  /\ \A h \in Handler : req[h].pc = "commit" => req[h].old = reaction[req[h].by]
\* A result is about a battle of its sender.
ResultsOK == \A h \in Handler : req[h].pc = "setWinner" =>
  battle[req[h].battle].by = req[h].by /\ battle[req[h].battle].state \in {"OPEN", "DONE"}

Has(u, r) == IF reaction[u] = r THEN 1 ELSE 0
\* The counter of the reaction is on its way to what the user's reaction is.
ReactionOnWay(u, r) == \E k \in Nat :
  /\ Chain(u, Column[r], k)
  /\ \A h \in Handler : req[h].by = u /\ Tells(req[h]) =>
                          Walk(k, req[h].out, Has(u, r), u, Column[r])
  /\ (\A h \in Handler : ~(req[h].by = u /\ Tells(req[h]))) => k = Has(u, r)
\* The counter of battles is on its way to those finished; failures only lose some.
BattlesOnWay(u) == \E k \in Nat :
  /\ Chain(u, "battles", k)
  /\ k + Cardinality(Owing(u)) <= Cardinality(Done(u))
  /\ faults = 0 => k + Cardinality(Owing(u)) = Cardinality(Done(u))

OnWay ==
  /\ \A h \in Handler : Shape(req[h])
  /\ Alternate /\ ResultsOK
  /\ faults = 0 /\ Once => \A u \in User, r \in Reactions : ReactionOnWay(u, r)
  /\ \A u \in User : BattlesOnWay(u)
SettleInv == TypeInv /\ (live => OnWay)

\* Nothing on its way.
LEMMA WalkNone ==
  ASSUME NEW a \in Nat, NEW b, NEW u, NEW c
  PROVE  Walk(a, <<>>, b, u, c) <=> b = a
<1>1. Len(<<>>) = 0 /\ \A i \in 0..0 : i = 0
  OBVIOUS
<1>2. ASSUME Walk(a, <<>>, b, u, c) PROVE b = a
  BY <1>1, <1>2 DEF Walk, Path
<1>3. Walk(a, <<>>, a, u, c)
  <2>1. PICK f : f = [i \in 0..0 |-> a]
    OBVIOUS
  <2>2. f \in [0..Len(<<>>) -> Nat] /\ f[0] = a /\ f[Len(<<>>)] = a
    BY <1>1, <2>1
  <2>3. \A i, j \in 0..Len(<<>>) : i <= j => f[i] <= f[j]
    BY <1>1, <2>1
  <2>4. Path(f, a, <<>>, a, u, c)
    BY <1>1, <2>2, <2>3 DEF Path
  <2>5. QED
    BY <2>2, <2>4 DEF Walk
<1>4. QED
  BY <1>2, <1>3

\* A battle is only ever added.
LEMMA MoveBattles ==
  ASSUME NEW n \in Nat, NEW k \in Nat, NEW m, NEW u, Move(n, m, k, u, "battles")
  PROVE  n <= k /\ k <= n + 1
<1>1. m.type \in {"LIKE_REMOVED", "DISLIKE_REMOVED"} => ~Counts(m, u, "battles")
  BY DEF Counts, Counter
<1>2. QED
  BY <1>1 DEF Move

\* One more message at the end.
LEMMA WalkOn ==
  ASSUME NEW seq \in Seq(Messages), NEW m \in Messages, NEW a \in Nat, NEW b \in Nat, NEW k \in Nat,
         NEW u, NEW c, Walk(a, seq, b, u, c), Move(b, m, k, u, c)
  PROVE  Walk(a, Append(seq, m), k, u, c)
<1>1. PICK new \in Seq(Messages) : new = Append(seq, m)
  BY AppendProperties
<1>2. /\ Len(seq) \in Nat /\ Len(new) = Len(seq) + 1 /\ new[Len(seq) + 1] = m
      /\ \A i \in 1..Len(seq) : new[i] = seq[i]
  BY <1>1, AppendProperties, LenProperties
<1>3. PICK f \in [0..Len(seq) -> Nat] : Path(f, a, seq, b, u, c)
  BY DEF Walk
<1>4. PICK n \in Nat : n = Len(seq)
  BY <1>2
<1>5. PICK g : g = [i \in 0..n + 1 |-> IF i = n + 1 THEN k ELSE f[i]]
  OBVIOUS
<1>6. /\ g \in [0..n + 1 -> Nat] /\ g[n + 1] = k
      /\ \A i \in 0..n : g[i] = f[i]
  BY <1>3, <1>4, <1>5
<1>7. \A i \in 1..n + 1 : Move(g[i - 1], new[i], g[i], u, c)
  <2>1. ASSUME NEW i \in 1..n + 1 PROVE Move(g[i - 1], new[i], g[i], u, c)
    <3>1. CASE i = n + 1
      <4>1. g[i - 1] = b /\ new[i] = m /\ g[i] = k
        BY <1>2, <1>3, <1>4, <1>6, <3>1 DEF Path
      <4>2. QED
        BY <4>1
    <3>2. CASE i # n + 1
      <4>1. i \in 1..n /\ i - 1 \in 0..n /\ i \in 0..n
        BY <3>2
      <4>2. g[i - 1] = f[i - 1] /\ new[i] = seq[i] /\ g[i] = f[i]
        BY <1>2, <1>4, <1>6, <4>1
      <4>3. QED
        BY <1>3, <1>4, <4>1, <4>2 DEF Path
    <3>3. QED
      BY <3>1, <3>2
  <2>2. QED
    BY <2>1
<1>8. c = "battles" => \A i, j \in 0..n + 1 : i <= j => g[i] <= g[j]
  <2> SUFFICES ASSUME c = "battles", NEW i \in 0..n + 1, NEW j \in 0..n + 1, i <= j
               PROVE  g[i] <= g[j]
    OBVIOUS
  <2>1. b <= k
    BY MoveBattles
  <2>2. \A x, y \in 0..n : x <= y => f[x] <= f[y]
    BY <1>3, <1>4 DEF Path
  <2>3. f[n] = b /\ n \in 0..n
    BY <1>3, <1>4 DEF Path
  <2>4. CASE j # n + 1
    <3>1. i \in 0..n /\ j \in 0..n
      BY <2>4
    <3>2. QED
      BY <1>6, <2>2, <3>1
  <2>5. CASE j = n + 1 /\ i # n + 1
    <3>1. i \in 0..n /\ i <= n
      BY <2>5
    <3>2. f[i] <= b /\ f[i] \in Nat
      BY <1>3, <1>4, <2>2, <2>3, <3>1
    <3>3. QED
      BY <1>6, <2>1, <2>5, <3>1, <3>2
  <2>6. CASE j = n + 1 /\ i = n + 1
    BY <1>6, <2>6
  <2>7. QED
    BY <2>4, <2>5, <2>6
<1>9. g[0] = a /\ g[Len(new)] = k /\ g \in [0..Len(new) -> Nat]
  BY <1>2, <1>3, <1>4, <1>6 DEF Path
<1>10. Path(g, a, new, k, u, c)
  BY <1>2, <1>4, <1>7, <1>8, <1>9 DEF Path
<1>11. QED
  BY <1>1, <1>9, <1>10 DEF Walk

\* The message at hand is counted.
LEMMA WalkFrom ==
  ASSUME NEW seq \in Seq(Messages), seq # <<>>, NEW a \in Nat, NEW b \in Nat,
         NEW u, NEW c, Walk(a, seq, b, u, c)
  PROVE  \E k \in Nat : Move(a, Head(seq), k, u, c) /\ Walk(k, Tail(seq), b, u, c)
<1>1. PICK rest \in Seq(Messages) : rest = Tail(seq)
  BY HeadTailProperties
<1>2. /\ Len(seq) \in Nat /\ Len(rest) = Len(seq) - 1 /\ Head(seq) = seq[1]
      /\ \A i \in 1..Len(rest) : rest[i] = seq[i + 1]
  BY <1>1, HeadTailProperties, LenProperties
<1>3. PICK f \in [0..Len(seq) -> Nat] : Path(f, a, seq, b, u, c)
  BY DEF Walk
<1>4. PICK n \in Nat : n = Len(rest)
  BY <1>1, LenProperties
<1>5. Len(seq) = n + 1
  BY <1>2, <1>4
<1>6. PICK g : g = [i \in 0..n |-> f[i + 1]]
  OBVIOUS
<1>7. \A i \in 0..n : i + 1 \in 0..n + 1 /\ g[i] = f[i + 1]
  BY <1>6
<1>8. g \in [0..n -> Nat]
  BY <1>3, <1>6, <1>7, <1>5
<1>9. \A i \in 1..n : Move(g[i - 1], rest[i], g[i], u, c)
  <2>1. ASSUME NEW i \in 1..n PROVE Move(g[i - 1], rest[i], g[i], u, c)
    <3>1. i - 1 \in 0..n /\ i \in 0..n /\ i + 1 \in 1..n + 1 /\ (i - 1) + 1 = i /\ (i + 1) - 1 = i
      OBVIOUS
    <3>2. g[i - 1] = f[i] /\ g[i] = f[i + 1] /\ rest[i] = seq[i + 1]
      BY <1>2, <1>4, <1>7, <3>1
    <3>3. Move(f[(i + 1) - 1], seq[i + 1], f[i + 1], u, c)
      BY <1>3, <1>5, <3>1 DEF Path
    <3>4. QED
      BY <3>1, <3>2, <3>3
  <2>2. QED
    BY <2>1
<1>10. c = "battles" => \A i, j \in 0..n : i <= j => g[i] <= g[j]
  <2> SUFFICES ASSUME c = "battles", NEW i \in 0..n, NEW j \in 0..n, i <= j
               PROVE  g[i] <= g[j]
    OBVIOUS
  <2>1. \A x, y \in 0..n + 1 : x <= y => f[x] <= f[y]
    BY <1>3, <1>5 DEF Path
  <2>2. i + 1 \in 0..n + 1 /\ j + 1 \in 0..n + 1 /\ i + 1 <= j + 1
    OBVIOUS
  <2>3. QED
    BY <1>7, <2>1, <2>2
<1>11. f[1] \in Nat /\ Move(a, Head(seq), f[1], u, c)
  <2>1. 1 \in 1..Len(seq) /\ 1 \in 0..Len(seq) /\ 1 - 1 = 0
    BY <1>5
  <2>2. Move(f[1 - 1], seq[1], f[1], u, c) /\ f[0] = a
    BY <1>3, <2>1 DEF Path
  <2>3. QED
    BY <1>2, <1>3, <2>1, <2>2
<1>12. g[0] = f[1] /\ g[n] = b
  <2>1. 0 \in 0..n /\ n \in 0..n /\ 0 + 1 = 1
    OBVIOUS
  <2>2. QED
    BY <1>3, <1>7, <1>5, <2>1 DEF Path
<1>13. Path(g, f[1], rest, b, u, c)
  BY <1>4, <1>8, <1>9, <1>10, <1>12 DEF Path
<1>14. Walk(f[1], rest, b, u, c)
  BY <1>4, <1>8, <1>13 DEF Walk
<1>15. QED
  BY <1>1, <1>11, <1>14

\* Only who a message is about and its type matter.
LEMMA WalkSame ==
  ASSUME NEW seq \in Seq(Messages), NEW new \in Seq(Messages), Len(new) = Len(seq),
         \A i \in 1..Len(seq) : new[i].type = seq[i].type /\ new[i].user = seq[i].user,
         NEW a, NEW b, NEW u, NEW c, Walk(a, seq, b, u, c)
  PROVE  Walk(a, new, b, u, c)
<1>1. PICK f \in [0..Len(seq) -> Nat] : Path(f, a, seq, b, u, c)
  BY DEF Walk
<1>2. \A i \in 1..Len(seq) : Move(f[i - 1], new[i], f[i], u, c)
  <2>1. ASSUME NEW i \in 1..Len(seq) PROVE Move(f[i - 1], new[i], f[i], u, c)
    <3>1. Move(f[i - 1], seq[i], f[i], u, c)
      BY <1>1 DEF Path
    <3>2. new[i].type = seq[i].type /\ new[i].user = seq[i].user
      OBVIOUS
    <3>3. QED
      BY <3>1, <3>2 DEF Move, Counts
  <2>2. QED
    BY <2>1
<1>3. Path(f, a, new, b, u, c)
  BY <1>1, <1>2 DEF Path
<1>4. QED
  BY <1>1, <1>3 DEF Walk

\* Battles that were lost stay lost.
LEMMA WalkLess ==
  ASSUME NEW seq \in Seq(Messages), NEW a \in Nat, NEW b \in Nat, NEW u, NEW d \in Nat,
         Walk(a, seq, b, u, "battles"), d <= a
  PROVE  a <= b /\ Walk(a - d, seq, b - d, u, "battles")
<1>1. PICK f \in [0..Len(seq) -> Nat] : Path(f, a, seq, b, u, "battles")
  BY DEF Walk
<1>2. PICK n \in Nat : n = Len(seq)
  BY LenProperties
<1>3. /\ f[0] = a /\ f[n] = b /\ \A i, j \in 0..n : i <= j => f[i] <= f[j]
      /\ f \in [0..n -> Nat] /\ 0 \in 0..n /\ n \in 0..n
  BY <1>1, <1>2 DEF Path
<1>4. \A i \in 0..n : a <= f[i] /\ f[i] \in Nat
  BY <1>3
<1>5. PICK g : g = [i \in 0..n |-> f[i] - d]
  OBVIOUS
<1>6. \A i \in 0..n : f[i] - d \in Nat
  BY <1>4
<1>7. g \in [0..n -> Nat] /\ \A i \in 0..n : g[i] = f[i] - d
  BY <1>5, <1>6
<1>8. \A i, j \in 0..n : i <= j => g[i] <= g[j]
  BY <1>3, <1>4, <1>7
<1>9. \A i \in 1..n : Move(g[i - 1], seq[i], g[i], u, "battles")
  <2>1. ASSUME NEW i \in 1..n PROVE Move(g[i - 1], seq[i], g[i], u, "battles")
    <3>1. i - 1 \in 0..n /\ i \in 0..n
      OBVIOUS
    <3>2. g[i - 1] = f[i - 1] - d /\ g[i] = f[i] - d /\ f[i - 1] \in Nat /\ f[i] \in Nat
      BY <1>4, <1>7, <3>1
    <3>3. Move(f[i - 1], seq[i], f[i], u, "battles")
      BY <1>1, <1>2 DEF Path
    <3>4. QED
      BY <3>2, <3>3 DEF Move
  <2>2. QED
    BY <2>1
<1>10. Path(g, a - d, seq, b - d, u, "battles")
  BY <1>2, <1>3, <1>7, <1>8, <1>9 DEF Path
<1>11. QED
  BY <1>2, <1>3, <1>4, <1>7, <1>10 DEF Walk

------------------------------------------------------------------------------
(* The consumer counts                                                      *)

LEMMA ChainSame ==
  ASSUME NEW u, NEW c, NEW k, Chain(u, c, k), UNCHANGED <<stats, batch, stream>>
  PROVE  Chain(u, c, k)'
BY DEF Chain

\* An event is appended to the stream.
LEMMA ChainAppend ==
  ASSUME TypeInv, NEW u, NEW c, NEW k \in Nat, NEW l \in Nat, NEW m \in Messages, Chain(u, c, k),
         UNCHANGED <<stats, batch>>, stream' = Append(stream, m), Move(k, m, l, u, c)
  PROVE  Chain(u, c, l)'
<1>1. PICK b \in Nat : Walk(stats[u][c], batch, b, u, c) /\ Walk(b, stream, k, u, c)
  BY DEF Chain
<1>2. Walk(b, Append(stream, m), l, u, c)
  BY <1>1, WalkOn DEF TypeInv, QueuesOK
<1>3. QED
  BY <1>1, <1>2 DEF Chain

\* Increment counts the message at hand.
LEMMA ChainIncrement ==
  ASSUME TypeInv, Increment, NEW u \in User, NEW c \in Columns, NEW k \in Nat,
         Move(stats[u][c], Head(batch), k, u, c)
  PROVE  stats'[u][c] = k
<1>1. PICK v, t : v = Head(batch).user /\ t = Head(batch).type
  OBVIOUS
<1>2. /\ t \in DOMAIN Counter
      /\ stats' = [stats EXCEPT ![v][Counter[t]] = Stepped(@, t)]
  BY <1>1 DEF Increment
<1>3. stats \in [User -> [likes : Nat, dislikes : Nat, battles : Nat]]
  BY DEF TypeInv, StatsOK
<1>4. PICK d : d = Counter[t]
  OBVIOUS
<1>5. d \in Columns
  BY <1>2, <1>4 DEF Counter, Columns
<1>6. \A w \in User : stats[w] \in [likes : Nat, dislikes : Nat, battles : Nat]
  BY <1>3
<1>7. CASE v # u
  <2>1. stats'[u] = stats[u]
    BY <1>2, <1>3, <1>7
  <2>2. ~Counts(Head(batch), u, c)
    BY <1>1, <1>7 DEF Counts
  <2>3. QED
    BY <2>1, <2>2 DEF Move
<1>8. CASE v = u
  <2>1. stats'[u] = [stats[u] EXCEPT ![d] = Stepped(@, t)]
    BY <1>2, <1>3, <1>4, <1>8
  <2>2. CASE c # d
    <3>1. stats'[u][c] = stats[u][c]
      BY <1>5, <1>6, <2>1, <2>2 DEF Columns
    <3>2. ~Counts(Head(batch), u, c)
      BY <1>1, <1>4, <2>2 DEF Counts
    <3>3. QED
      BY <3>1, <3>2 DEF Move
  <2>3. CASE c = d
    <3>1. stats'[u][c] = Stepped(stats[u][c], t) /\ stats[u][c] \in Nat
      BY <1>5, <1>6, <2>1, <2>3 DEF Columns
    <3>2. Counts(Head(batch), u, c)
      BY <1>1, <1>2, <1>4, <1>8, <2>3 DEF Counts
    <3>3. CASE t \in {"LIKE_REMOVED", "DISLIKE_REMOVED"}
      <4>1. stats[u][c] = k + 1
        BY <1>1, <3>2, <3>3 DEF Move
      <4>2. QED
        BY <3>1, <3>3, <4>1 DEF Stepped
    <3>4. CASE t \notin {"LIKE_REMOVED", "DISLIKE_REMOVED"}
      <4>1. k = stats[u][c] + 1
        BY <1>1, <3>2, <3>4 DEF Move
      <4>2. QED
        BY <3>1, <3>4, <4>1 DEF Stepped
    <3>5. QED
      BY <3>3, <3>4
  <2>4. QED
    BY <2>2, <2>3
<1>9. QED
  BY <1>7, <1>8

LEMMA StatsAre ==
  ASSUME TypeInv
  PROVE  /\ \A u \in User, c \in Columns : stats[u][c] \in Nat
         /\ stream \in Seq(Messages) /\ batch \in Seq(Messages) /\ faults \in Nat
BY DEF TypeInv, StatsOK, QueuesOK, Columns

\* Whatever the consumer does short of failing, the counters will be what they would.
LEMMA ConsumedRight ==
  ASSUME TypeInv, ConsumeStats, NEW u \in User, NEW c \in Columns, NEW k \in Nat, Chain(u, c, k)
  PROVE  Chain(u, c, k)'
<1>1. PICK b \in Nat : Walk(stats[u][c], batch, b, u, c) /\ Walk(b, stream, k, u, c)
  BY DEF Chain
<1>2. stats[u][c] \in Nat /\ stream \in Seq(Messages) /\ batch \in Seq(Messages)
  BY StatsAre
<1>3. CASE ReadStats
  <2>1. batch = <<>> /\ batch' = stream /\ stream' = <<>> /\ stats' = stats
    BY <1>3 DEF ReadStats
  <2>2. b = stats[u][c]
    BY <1>1, <1>2, <2>1, WalkNone
  <2>3. Walk(k, <<>>, k, u, c)
    BY WalkNone
  <2>4. QED
    BY <1>1, <2>1, <2>2, <2>3 DEF Chain
<1>4. CASE Increment
  <2>1. batch # <<>> /\ batch' = Tail(batch) /\ stream' = stream
    BY <1>4 DEF Increment
  <2>2. PICK l \in Nat : Move(stats[u][c], Head(batch), l, u, c) /\ Walk(l, Tail(batch), b, u, c)
    BY <1>1, <1>2, <2>1, WalkFrom
  <2>3. stats'[u][c] = l
    BY <1>4, <2>2, ChainIncrement
  <2>4. QED
    BY <1>1, <2>1, <2>2, <2>3 DEF Chain
<1>5. CASE DeleteByTripID \/ PublishGeoEvent
  <2>1. /\ batch # <<>> /\ batch' = Tail(batch) /\ UNCHANGED <<stream, stats>>
        /\ Head(batch).type \notin DOMAIN Counter
    BY <1>5, KindsAre DEF DeleteByTripID, PublishGeoEvent, Handling
  <2>2. PICK l \in Nat : Move(stats[u][c], Head(batch), l, u, c) /\ Walk(l, Tail(batch), b, u, c)
    BY <1>1, <1>2, <2>1, WalkFrom
  <2>3. l = stats[u][c]
    BY <2>1, <2>2 DEF Move, Counts
  <2>4. QED
    BY <1>1, <2>1, <2>2, <2>3 DEF Chain
<1>6. CASE \E p \in Pin : ResolvePin(p)
  <2>1. PICK p \in Pin : ResolvePin(p)
    BY <1>6
  <2>2. batch # <<>> /\ batch' = [batch EXCEPT ![1].at[p] = NoPlace] /\ UNCHANGED <<stream, stats>>
    BY <2>1 DEF ResolvePin, Handling
  <2>3. batch' \in Seq(Messages) /\ Len(batch') = Len(batch)
    <3>1. TypeInv'
      BY TypeNext DEF Next
    <3>2. QED
      BY <1>2, <2>2, <3>1 DEF TypeInv, QueuesOK
  <2>4. \A i \in 1..Len(batch) : batch'[i].type = batch[i].type /\ batch'[i].user = batch[i].user
    BY <1>2, <2>2 DEF Messages
  <2>5. Walk(stats[u][c], batch', b, u, c)
    BY <1>1, <1>2, <2>3, <2>4, WalkSame
  <2>6. QED
    BY <1>1, <2>2, <2>5 DEF Chain
<1>7. QED
  BY <1>3, <1>4, <1>5, <1>6 DEF ConsumeStats

\* What the consumer loses is only battles not counted.
LEMMA ConsumedLess ==
  ASSUME TypeInv, StatsFails, NEW u \in User, NEW k \in Nat, Chain(u, "battles", k)
  PROVE  \E l \in Nat : l <= k /\ Chain(u, "battles", l)'
<1>1. PICK b \in Nat : Walk(stats[u]["battles"], batch, b, u, "battles") /\ Walk(b, stream, k, u, "battles")
  BY DEF Chain
<1>2. /\ stats[u]["battles"] \in Nat /\ stream \in Seq(Messages) /\ batch \in Seq(Messages)
  BY StatsAre DEF Columns
<1>3. PICK a \in Nat : a = stats[u]["battles"]
  BY <1>2
<1>4. batch # <<>> /\ batch' \in {Tail(batch), <<>>} /\ UNCHANGED <<stream, stats>>
  BY DEF StatsFails
<1>5. a <= b /\ b <= k
  <2>1. 0 \in Nat /\ 0 <= a /\ 0 <= b
    BY <1>3
  <2>2. QED
    BY <1>1, <1>2, <1>3, <2>1, WalkLess
<1>6. CASE batch' = Tail(batch)
  <2>1. PICK n \in Nat : Move(a, Head(batch), n, u, "battles") /\ Walk(n, Tail(batch), b, u, "battles")
    BY <1>1, <1>2, <1>3, <1>4, WalkFrom
  <2>2. a <= n /\ n <= a + 1
    BY <1>3, <2>1, MoveBattles
  <2>3. PICK d \in Nat : d = n - a
    BY <1>3, <2>1, <2>2
  <2>4. Tail(batch) \in Seq(Messages) /\ d <= n
    BY <1>2, <1>3, <1>4, <2>1, <2>3, HeadTailProperties
  <2>5. n <= b /\ Walk(n - d, Tail(batch), b - d, u, "battles")
    BY <1>3, <2>1, <2>2, <2>3, <2>4, WalkLess
  <2>6. d <= b
    BY <1>3, <1>5, <2>2, <2>3, <2>5
  <2>7. Walk(b - d, stream, k - d, u, "battles")
    BY <1>1, <1>2, <2>3, <2>6, WalkLess
  <2>8. n - d = a /\ b - d \in Nat /\ k - d \in Nat /\ k - d <= k
    BY <1>3, <1>5, <2>1, <2>2, <2>3, <2>6
  <2>9. Chain(u, "battles", k - d)'
    BY <1>3, <1>4, <1>6, <2>5, <2>7, <2>8 DEF Chain
  <2>10. QED
    BY <2>8, <2>9
<1>7. CASE batch' = <<>>
  <2>1. PICK d \in Nat : d = b - a
    BY <1>3, <1>5
  <2>2. d <= b
    BY <1>3, <2>1
  <2>3. Walk(b - d, stream, k - d, u, "battles")
    BY <1>1, <1>2, <2>1, <2>2, WalkLess
  <2>4. b - d = a /\ k - d \in Nat /\ k - d <= k
    BY <1>3, <1>5, <2>1, <2>2
  <2>5. Walk(a, <<>>, a, u, "battles")
    BY WalkNone
  <2>6. Chain(u, "battles", k - d)'
    BY <1>3, <1>4, <1>7, <2>3, <2>4, <2>5 DEF Chain
  <2>7. QED
    BY <2>4, <2>6
<1>8. QED
  BY <1>4, <1>6, <1>7

------------------------------------------------------------------------------
(* Requests and what they owe                                               *)

LEMMA NoRequestOwes ==
  ~Tells(NoRequest) /\ ~Owes(NoRequest) /\ ~Reacts(NoRequest) /\ Shape(NoRequest)
  /\ NoRequest.pc = "idle" /\ NoRequest.by = NoUser
BY DEF NoRequest, Tells, Owes, Reacts, Shape

\* Only h's request changes, to r.
Replaced(h, r) == req' = [req EXCEPT ![h] = r]
LEMMA ReplacedAt ==
  ASSUME TypeInv, NEW h \in Handler, NEW r, Replaced(h, r)
  PROVE  req'[h] = r /\ \A g \in Handler \ {h} : req'[g] = req[g]
BY DEF TypeInv, RequestsOK, Replaced

LEMMA OwingSame ==
  ASSUME TypeInv, NEW h \in Handler, NEW r, Replaced(h, r), Owes(req[h]) <=> Owes(r),
         Owes(r) => req[h].by = r.by
  PROVE  \A u : Owing(u)' = Owing(u)
BY ReplacedAt DEF Owing, Owes

\* One owes less, or the whole is lost.
LEMMA OwingLess ==
  ASSUME TypeInv, IsFiniteSet(Handler), NEW h \in Handler, NEW r, Replaced(h, r), Owes(req[h]), ~Owes(r)
  PROVE  \A u : /\ Cardinality(Owing(u)) \in Nat /\ Cardinality(Owing(u)') \in Nat
                /\ u = req[h].by => Cardinality(Owing(u)) = Cardinality(Owing(u)') + 1
                /\ u # req[h].by => Owing(u)' = Owing(u)
<1>1. ASSUME NEW u
      PROVE  /\ Cardinality(Owing(u)) \in Nat /\ Cardinality(Owing(u)') \in Nat
             /\ u = req[h].by => Cardinality(Owing(u)) = Cardinality(Owing(u)') + 1
             /\ u # req[h].by => Owing(u)' = Owing(u)
  <2>1. PICK S, T : S = Owing(u) /\ T = Owing(u)'
    OBVIOUS
  <2>2. T = S \ {h} /\ (h \in S <=> u = req[h].by) /\ S \subseteq Handler
    BY <2>1, ReplacedAt DEF Owing, Owes
  <2>3. IsFiniteSet(S) /\ IsFiniteSet(T)
    BY <2>2, FS_Subset
  <2>4. Cardinality(S) \in Nat /\ Cardinality(T) \in Nat
    BY <2>3, FS_CardinalityType
  <2>5. h \in S => Cardinality(T) = Cardinality(S) - 1
    BY <2>2, <2>3, FS_RemoveElement
  <2>6. h \notin S => T = S
    BY <2>2
  <2>7. QED
    BY <2>1, <2>2, <2>4, <2>5, <2>6
<1>2. QED
  BY <1>1

\* One owes more.
LEMMA OwingMore ==
  ASSUME TypeInv, IsFiniteSet(Handler), NEW h \in Handler, NEW r, Replaced(h, r), ~Owes(req[h]), Owes(r)
  PROVE  \A u : /\ Cardinality(Owing(u)) \in Nat /\ Cardinality(Owing(u)') \in Nat
                /\ u = r.by => Cardinality(Owing(u)') = Cardinality(Owing(u)) + 1
                /\ u # r.by => Owing(u)' = Owing(u)
<1>1. ASSUME NEW u
      PROVE  /\ Cardinality(Owing(u)) \in Nat /\ Cardinality(Owing(u)') \in Nat
             /\ u = r.by => Cardinality(Owing(u)') = Cardinality(Owing(u)) + 1
             /\ u # r.by => Owing(u)' = Owing(u)
  <2>1. PICK S, T : S = Owing(u) /\ T = Owing(u)'
    OBVIOUS
  <2>2. /\ h \notin S /\ S \subseteq Handler /\ T \subseteq Handler
        /\ T = IF u = r.by THEN S \cup {h} ELSE S
    BY <2>1, ReplacedAt DEF Owing, Owes
  <2>3. IsFiniteSet(S) /\ IsFiniteSet(T)
    BY <2>2, FS_Subset
  <2>4. Cardinality(S) \in Nat /\ Cardinality(T) \in Nat
    BY <2>3, FS_CardinalityType
  <2>5. u = r.by => Cardinality(T) = Cardinality(S) + 1
    BY <2>2, <2>3, FS_AddElement
  <2>6. QED
    BY <2>1, <2>2, <2>4, <2>5
<1>2. QED
  BY <1>1

\* A reaction is as much on its way as before, when the step was not about its user.
LEMMA ReactionsSame ==
  ASSUME TypeInv, NEW h \in Handler, NEW r, Replaced(h, r), NEW u, NEW c,
         ~(req[h].by = u /\ Tells(req[h])), ~(r.by = u /\ Tells(r)),
         ReactionOnWay(u, c), reaction'[u] = reaction[u],
         \A k \in Nat : Chain(u, Column[c], k) => Chain(u, Column[c], k)'
  PROVE  ReactionOnWay(u, c)'
<1>1. PICK k \in Nat :
        /\ Chain(u, Column[c], k)
        /\ \A g \in Handler : req[g].by = u /\ Tells(req[g]) =>
                                Walk(k, req[g].out, Has(u, c), u, Column[c])
        /\ (\A g \in Handler : ~(req[g].by = u /\ Tells(req[g]))) => k = Has(u, c)
  BY DEF ReactionOnWay
<1>2. Chain(u, Column[c], k)' /\ Has(u, c)' = Has(u, c)
  BY <1>1 DEF Has
<1>3. \A g \in Handler : req'[g].by = u /\ Tells(req'[g]) => req'[g] = req[g]
  BY ReplacedAt
<1>4. \A g \in Handler : req[g].by = u /\ Tells(req[g]) => req'[g] = req[g]
  BY ReplacedAt
<1>5. \A g \in Handler : req'[g].by = u /\ Tells(req'[g]) =>
                           Walk(k, req'[g].out, Has(u, c), u, Column[c])
  BY <1>1, <1>3
<1>6. (\A g \in Handler : ~(req'[g].by = u /\ Tells(req'[g]))) => k = Has(u, c)
  BY <1>1, <1>4
<1>7. QED
  BY <1>2, <1>5, <1>6 DEF ReactionOnWay, Tells

\* Nor when no request took a step.
LEMMA ReactionsStill ==
  ASSUME NEW u, NEW c, ReactionOnWay(u, c), UNCHANGED <<req, reaction>>,
         \A k \in Nat : Chain(u, Column[c], k) => Chain(u, Column[c], k)'
  PROVE  ReactionOnWay(u, c)'
<1>1. PICK k \in Nat :
        /\ Chain(u, Column[c], k)
        /\ \A g \in Handler : req[g].by = u /\ Tells(req[g]) =>
                                Walk(k, req[g].out, Has(u, c), u, Column[c])
        /\ (\A g \in Handler : ~(req[g].by = u /\ Tells(req[g]))) => k = Has(u, c)
  BY DEF ReactionOnWay
<1>2. Chain(u, Column[c], k)' /\ Has(u, c)' = Has(u, c)
  BY <1>1 DEF Has
<1>3. QED
  BY <1>1, <1>2 DEF ReactionOnWay, Tells

\* The battles too, when as many are finished and owed.
LEMMA BattlesSame ==
  ASSUME NEW u, BattlesOnWay(u), Owing(u)' = Owing(u), Done(u)' = Done(u), faults' = 0 => faults = 0,
         \A k \in Nat : Chain(u, "battles", k) => Chain(u, "battles", k)'
  PROVE  BattlesOnWay(u)'
<1>1. PICK k \in Nat : /\ Chain(u, "battles", k)
                       /\ k + Cardinality(Owing(u)) <= Cardinality(Done(u))
                       /\ faults = 0 => k + Cardinality(Owing(u)) = Cardinality(Done(u))
  BY DEF BattlesOnWay
<1>2. Chain(u, "battles", k)'
  BY <1>1
<1>3. QED
  BY <1>1, <1>2 DEF BattlesOnWay

\* The shapes and the alternation of requests, one of which changes.
LEMMA RequestOnWay ==
  ASSUME TypeInv, OnWay, NEW h \in Handler, NEW r, Replaced(h, r), UNCHANGED ops, Shape(r),
         Once => /\ \A g \in Handler \ {h} :
                      req[g].pc = "commit" => reaction'[req[g].by] = reaction[req[g].by]
                 /\ Reacts(r) => \/ Reacts(req[h]) /\ r.by = req[h].by
                                 \/ \A g \in Handler \ {h} : req[g].by # r.by,
         r.pc = "commit" => r.old = reaction'[r.by]
  PROVE  (\A g \in Handler : Shape(req'[g])) /\ Alternate'
<1>1. req'[h] = r /\ \A g \in Handler \ {h} : req'[g] = req[g]
  BY ReplacedAt
<1>2. \A g \in Handler : Shape(req'[g])
  BY <1>1 DEF OnWay
<1>3. Once => \A g \in Handler : req'[g].pc = "commit" => req'[g].old = reaction'[req'[g].by]
  BY <1>1 DEF OnWay, Alternate
<1>4. Once => \A g, i \in Handler :
                Reacts(req'[g]) /\ Reacts(req'[i]) /\ req'[g].by = req'[i].by => g = i
  <2>1. Once => \A g \in Handler \ {h} : Reacts(req'[g]) /\ Reacts(r) => req'[g].by # r.by
    BY <1>1 DEF OnWay, Alternate
  <2>2. QED
    BY <1>1, <2>1 DEF OnWay, Alternate
<1>5. QED
  BY <1>2, <1>3, <1>4 DEF Alternate, Once, Reacts, Tells

\* A result is still about a battle of its sender.
LEMMA ResultsSame ==
  ASSUME TypeInv, OnWay, NEW h \in Handler, NEW r, Replaced(h, r), UNCHANGED battle,
         r.pc = "setWinner" => battle[r.battle].by = r.by /\ battle[r.battle].state \in {"OPEN", "DONE"}
  PROVE  ResultsOK'
BY ReplacedAt DEF OnWay, ResultsOK

\* A step of a request that neither tells nor hides anything.
LEMMA NeutralRequest ==
  ASSUME TypeInv, OnWay, NEW h \in Handler, NEW r, Replaced(h, r),
         UNCHANGED <<ops, stats, batch, stream, reaction, battle, faults>>,
         Shape(r), ~Tells(req[h]), ~Tells(r),
         Owes(req[h]) <=> Owes(r), Owes(r) => req[h].by = r.by,
         r.pc = "commit" => /\ r.old = reaction[r.by]
                            /\ Once => \A g \in Handler \ {h} : req[g].by # r.by,
         r.pc = "setWinner" => battle[r.battle].by = r.by /\ battle[r.battle].state \in {"OPEN", "DONE"}
  PROVE  OnWay'
<1>1. (\A g \in Handler : Shape(req'[g])) /\ Alternate' /\ ResultsOK'
  BY RequestOnWay, ResultsSame DEF Reacts
<1>2. \A u, c, k : Chain(u, c, k) => Chain(u, c, k)'
  BY ChainSame
<1>3. ASSUME faults' = 0, Once', NEW u \in User, NEW c \in Reactions PROVE ReactionOnWay(u, c)'
  BY <1>2, <1>3, ReactionsSame DEF OnWay, Once
<1>4. ASSUME NEW u \in User PROVE BattlesOnWay(u)'
  <2>1. Owing(u)' = Owing(u) /\ Done(u)' = Done(u)
    BY OwingSame DEF Done
  <2>2. QED
    BY <1>2, <2>1, BattlesSame DEF OnWay
<1>5. QED
  BY <1>1, <1>3, <1>4 DEF OnWay, Shape

------------------------------------------------------------------------------
(* A request begins, or moves on                                            *)

LEMMA RequestSettles ==
  ASSUME TypeInv, OnWay, NEW h \in Handler, Request(h)
  PROVE  OnWay'
<1>1. req[h].pc = "idle" /\ ~Tells(req[h]) /\ ~Owes(req[h])
  BY DEF Request, SubmitBattleResult, SetReaction, UpdatePin, PublishGeoRequestForTrip, DeleteTrip,
     LeaveTrip, RemoveTrip, Edit, Begin, Idle, Tells, Owes
<1>2. UNCHANGED <<ops, stats, batch, stream, reaction, battle, faults>>
  BY DEF Request, SubmitBattleResult, SetReaction, UpdatePin, PublishGeoRequestForTrip, DeleteTrip,
     LeaveTrip, RemoveTrip, tripVars, socialVars, battleVars, statVars
<1>3. ASSUME NEW r, Replaced(h, r), r.pc \in {"savePin", "deleteTrip"} PROVE OnWay'
  <2>1. ~Tells(r) /\ ~Owes(r) /\ Shape(r) /\ r.pc \notin {"commit", "setWinner"}
    BY <1>3 DEF Tells, Owes, Shape
  <2>2. QED
    BY <1>1, <1>2, <1>3, <2>1, NeutralRequest
<1>4. ASSUME NEW b \in Battle, NEW m \in Media, SubmitBattleResult(h, b, m)
      PROVE  OnWay'
  <2> DEFINE r == [NoRequest EXCEPT !.pc = "setWinner", !.by = battle[b].by, !.battle = b, !.media = m]
  <2>1. r.pc = "setWinner" /\ r.by = battle[b].by /\ r.battle = b
    BY DEF NoRequest
  <2>2. ~Tells(r) /\ ~Owes(r) /\ Shape(r)
    BY <2>1 DEF Tells, Owes, Shape
  <2>3. Replaced(h, r) /\ battle[b].state = "OPEN"
    BY <1>4 DEF SubmitBattleResult, Replaced
  <2> HIDE DEF r
  <2>4. QED
    BY <1>1, <1>2, <2>1, <2>2, <2>3, NeutralRequest
<1>5. ASSUME NEW u \in User, NEW k \in Reactions, SetReaction(h, u, k)
      PROVE  OnWay'
  <2> DEFINE r == [NoRequest EXCEPT !.pc = "commit", !.by = u, !.old = reaction[u], !.new = k]
  <2>1. r.pc = "commit" /\ r.by = u /\ r.old = reaction[u]
    BY DEF NoRequest
  <2>2. ~Tells(r) /\ ~Owes(r) /\ Shape(r)
    BY <2>1 DEF Tells, Owes, Shape
  <2>3. Replaced(h, r)
    BY <1>5 DEF SetReaction, Replaced
  <2>4. Once => \A g \in Handler : req[g].by # u
    BY <1>5 DEF SetReaction, Begin, Free, Once
  <2> HIDE DEF r
  <2>5. QED
    BY <1>1, <1>2, <2>1, <2>2, <2>3, <2>4, NeutralRequest
<1>6. ASSUME NEW u \in User, NEW p \in Pin, NEW pl \in Place, UpdatePin(h, u, p, pl)
      PROVE  OnWay'
  <2> DEFINE r == [NoRequest EXCEPT !.pc = "savePin", !.by = u, !.edit = TRUE, !.at = [NoPins EXCEPT ![p] = pl]]
  <2>1. r.pc = "savePin"
    BY DEF NoRequest
  <2>2. Replaced(h, r)
    BY <1>6 DEF UpdatePin, Replaced
  <2> HIDE DEF r
  <2>3. QED
    BY <1>3, <2>1, <2>2
<1>7. ASSUME NEW u \in User, PublishGeoRequestForTrip(h, u)
      PROVE  OnWay'
  <2> DEFINE r == [NoRequest EXCEPT !.pc = "publish", !.by = u, !.edit = TRUE, !.out = <<GeoRequest(place)>>]
  <2>1. r.pc = "publish" /\ r.out = <<GeoRequest(place)>>
    BY DEF NoRequest
  <2>2. GeoRequest(place).type = "PIN_LOCATIONS_REQUESTED"
    BY DEF GeoRequest, Message
  <2>3. Replaced(h, r)
    BY <1>7 DEF PublishGeoRequestForTrip, Replaced
  <2> HIDE DEF r
  <2>4. Len(r.out) = 1 /\ r.out[1].type = "PIN_LOCATIONS_REQUESTED"
    BY <2>1, <2>2
  <2>5. ~Tells(r) /\ ~Owes(r) /\ Shape(r)
    BY <2>1, <2>4, KindsAre DEF Tells, Owes, Shape, OfReaction
  <2>6. QED
    BY <1>1, <1>2, <2>1, <2>3, <2>5, NeutralRequest
<1>8. ASSUME NEW op, NEW u \in User, NEW out, RemoveTrip(h, op, u, out)
      PROVE  OnWay'
  <2> DEFINE r == [NoRequest EXCEPT !.pc = "deleteTrip", !.by = u, !.edit = TRUE, !.out = out]
  <2>1. r.pc = "deleteTrip"
    BY DEF NoRequest
  <2>2. Replaced(h, r)
    BY <1>8 DEF RemoveTrip, Replaced
  <2> HIDE DEF r
  <2>3. QED
    BY <1>3, <2>1, <2>2
<1>9. QED
  BY <1>4, <1>5, <1>6, <1>7, <1>8 DEF Request, Reactions, DeleteTrip, LeaveTrip

\* What a request publishes next.
LEMMA PublishIs ==
  ASSUME NEW h \in Handler, NEW out, out # <<>>, Publish(h, out)
  PROVE  \E r : Replaced(h, r) /\ r.pc = "publish" /\ r.by = req[h].by /\ r.out = out
<1> DEFINE r == [NoRequest EXCEPT !.pc = "publish", !.by = req[h].by, !.edit = req[h].edit, !.out = out]
<1>1. r.pc = "publish" /\ r.by = req[h].by /\ r.out = out
  BY DEF NoRequest
<1>2. Replaced(h, r)
  BY DEF Publish, Replaced
<1> HIDE DEF r
<1>3. QED
  BY <1>1, <1>2

\* The place of a pin is saved and its location asked for.
LEMMA SavePinSettles ==
  ASSUME TypeInv, OnWay, live, NEW h \in Handler, SavePin(h)
  PROVE  OnWay'
<1>1. PICK m : m = GeoRequest(req[h].at)
  OBVIOUS
<1>2. m.type = "PIN_LOCATIONS_REQUESTED"
  BY <1>1 DEF GeoRequest, Message
<1>3. Publish(h, <<m>>) /\ <<m>> # <<>> /\ req[h].pc = "savePin"
  BY <1>1 DEF SavePin, At
<1>4. PICK r : Replaced(h, r) /\ r.pc = "publish" /\ r.by = req[h].by /\ r.out = <<m>>
  BY <1>3, PublishIs
<1>5. Len(r.out) = 1 /\ r.out[1].type = "PIN_LOCATIONS_REQUESTED"
  BY <1>2, <1>4
<1>6. ~Tells(r) /\ ~Owes(r) /\ Shape(r)
  BY <1>4, <1>5, KindsAre DEF Tells, Owes, Shape, OfReaction
<1>7. ~Tells(req[h]) /\ ~Owes(req[h])
  BY <1>3 DEF Tells, Owes
<1>8. UNCHANGED <<ops, stats, batch, stream, reaction, battle, faults>>
  BY DEF SavePin, socialVars, battleVars, statVars
<1>9. QED
  BY <1>4, <1>6, <1>7, <1>8, NeutralRequest

\* The point is counted in the trip's database; the event is still owed.
LEMMA RatingSettles ==
  ASSUME TypeInv, OnWay, live, NEW h \in Handler, IncrementBattleRating(h)
  PROVE  OnWay'
<1>1. PICK m : m = Message("BATTLE_FINISHED", req[h].by, NoPins)
  OBVIOUS
<1>2. m.type = "BATTLE_FINISHED"
  BY <1>1 DEF Message
<1>3. Publish(h, <<m>>) /\ <<m>> # <<>> /\ req[h].pc = "rate"
  BY <1>1, AboutOne DEF IncrementBattleRating, At
<1>4. PICK r : Replaced(h, r) /\ r.pc = "publish" /\ r.by = req[h].by /\ r.out = <<m>>
  BY <1>3, PublishIs
<1>5. r.out[1].type = "BATTLE_FINISHED"
  BY <1>2, <1>4
<1>6. ~Tells(r) /\ Owes(r) /\ Shape(r)
  BY <1>1, <1>4, <1>5, KindsAre DEF Tells, Owes, Shape, OfReaction
<1>7. ~Tells(req[h]) /\ Owes(req[h])
  BY <1>3 DEF Tells, Owes
<1>8. UNCHANGED <<ops, stats, batch, stream, reaction, battle, faults>>
  BY DEF IncrementBattleRating, socialVars, statVars
<1>9. QED
  BY <1>4, <1>6, <1>7, <1>8, NeutralRequest

\* A battle is finished and its event owed, or it was finished before.
LEMMA WinnerSettles ==
  ASSUME IsFiniteSet(Handler), IsFiniteSet(Battle), TypeInv, OnWay, NEW h \in Handler, SetWinner(h)
  PROVE  OnWay'
<1>1. /\ req[h].pc = "setWinner" /\ req[h].battle \in Battle /\ ~Tells(req[h]) /\ ~Owes(req[h])
      /\ battle[req[h].battle].by = req[h].by
  BY DEF SetWinner, At, TypeInv, RequestsOK, Armed, Tells, Owes, OnWay, ResultsOK
<1>2. UNCHANGED <<ops, stats, batch, stream, reaction, faults>>
  BY DEF SetWinner, socialVars, statVars
<1>3. CASE UNCHANGED battle /\ Finish(h)
  <2>1. Replaced(h, NoRequest)
    BY <1>3 DEF Finish, Replaced
  <2>2. QED
    BY <1>1, <1>2, <1>3, <2>1, NoRequestOwes, NeutralRequest
<1>4. CASE CanSetWinner(req[h].battle)
  <2>0. PICK v : v = req[h].by
    OBVIOUS
  <2>1. PICK b \in Battle : b = req[h].battle /\ v = req[h].by
    BY <1>1, <2>0
  <2>2. /\ battle \in [Battle -> [state : {"UNUSED", "OPEN", "DONE", "GONE"}, by : User \cup {NoUser}]]
        /\ battle[b].state = "OPEN" /\ battle[b].by = v
        /\ battle' = [battle EXCEPT ![b].state = "DONE"]
    BY <1>1, <1>4, <2>1 DEF SetWinner, CanSetWinner, TypeInv, BattlesOK
  <2>3. battle'[b] = [state |-> "DONE", by |-> v] /\ \A x \in Battle \ {b} : battle'[x] = battle[x]
    BY <2>2
  <2> DEFINE new == [NoRequest EXCEPT !.pc = "rate", !.by = req[h].by, !.media = req[h].media]
  <2>4. new.pc = "rate" /\ new.by = v
    BY <2>1 DEF NoRequest
  <2>5. Replaced(h, new)
    BY <1>4, <2>1 DEF SetWinner, Replaced
  <2> HIDE DEF new
  <2>6. PICK r : r = new
    OBVIOUS
  <2>7. Replaced(h, r) /\ r.pc = "rate" /\ r.by = v /\ ~Tells(r) /\ Owes(r) /\ Shape(r) /\ ~Reacts(r)
    BY <2>4, <2>5, <2>6 DEF Tells, Owes, Shape, Reacts
  <2>8. (\A g \in Handler : Shape(req'[g])) /\ Alternate'
    BY <1>2, <2>7, RequestOnWay
  <2>9. ResultsOK'
    <3>1. ASSUME NEW g \in Handler, req'[g].pc = "setWinner"
          PROVE  battle'[req'[g].battle].by = req'[g].by /\ battle'[req'[g].battle].state \in {"OPEN", "DONE"}
      <4>1. g # h /\ req'[g] = req[g]
        BY <2>7, <3>1, ReplacedAt
      <4>2. /\ battle[req[g].battle].by = req[g].by /\ battle[req[g].battle].state \in {"OPEN", "DONE"}
            /\ req[g].battle \in Battle
        BY <3>1, <4>1 DEF OnWay, ResultsOK, TypeInv, RequestsOK, Armed
      <4>3. QED
        BY <2>2, <2>3, <4>1, <4>2
    <3>2. QED
      BY <3>1 DEF ResultsOK
  <2>10. \A u, c, k : Chain(u, c, k) => Chain(u, c, k)'
    BY <1>2, ChainSame
  <2>11. ASSUME faults' = 0, Once', NEW u \in User, NEW c \in Reactions PROVE ReactionOnWay(u, c)'
    BY <1>1, <1>2, <2>7, <2>10, <2>11, ReactionsSame DEF OnWay, Once
  <2>12. ASSUME NEW u \in User PROVE BattlesOnWay(u)'
    <3>1. /\ Cardinality(Owing(u)) \in Nat /\ Cardinality(Owing(u)') \in Nat
          /\ u = v => Cardinality(Owing(u)') = Cardinality(Owing(u)) + 1
          /\ u # v => Owing(u)' = Owing(u)
      BY <1>1, <2>7, OwingMore
    <3>2. CASE u # v
      <4>1. Done(u)' = Done(u)
        BY <2>2, <2>3, <3>2 DEF Done
      <4>2. QED
        BY <1>2, <2>10, <3>1, <3>2, <4>1, BattlesSame DEF OnWay
    <3>3. CASE u = v
      <4>1. Done(u)' = Done(u) \cup {b} /\ b \notin Done(u)
        BY <2>2, <2>3, <3>3 DEF Done
      <4>2. IsFiniteSet(Done(u))
        <5>1. Done(u) \subseteq Battle
          BY DEF Done
        <5>2. QED
          BY <5>1, FS_Subset
      <4>3. Cardinality(Done(u)') = Cardinality(Done(u)) + 1 /\ Cardinality(Done(u)) \in Nat
        BY <4>1, <4>2, FS_AddElement, FS_CardinalityType
      <4>4. PICK k \in Nat : /\ Chain(u, "battles", k)
                             /\ k + Cardinality(Owing(u)) <= Cardinality(Done(u))
                             /\ faults = 0 => k + Cardinality(Owing(u)) = Cardinality(Done(u))
        BY DEF OnWay, BattlesOnWay
      <4>5. Chain(u, "battles", k)'
        BY <2>10, <4>4
      <4>6. /\ k + Cardinality(Owing(u)') <= Cardinality(Done(u)')
            /\ faults' = 0 => k + Cardinality(Owing(u)') = Cardinality(Done(u)')
        BY <1>2, <3>1, <3>3, <4>3, <4>4
      <4>7. QED
        BY <4>5, <4>6 DEF BattlesOnWay
    <3>4. QED
      BY <3>2, <3>3
  <2>13. QED
    BY <2>8, <2>9, <2>11, <2>12 DEF OnWay, Shape
<1>5. QED
  BY <1>3, <1>4 DEF SetWinner

------------------------------------------------------------------------------
(* A reaction is committed                                                  *)

LEMMA Moves ==
  ASSUME NEW m, NEW u, NEW k \in Nat
  PROVE  /\ m.type \notin DOMAIN Counter \/ m.user # u => \A c : Move(k, m, k, u, c)
         /\ m.type \in OfReaction => Move(k, m, k, u, "battles")
         /\ m.type = "BATTLE_FINISHED" => \A c \in Reactions : Move(k, m, k, u, Column[c])
         /\ m.type = "BATTLE_FINISHED" /\ m.user = u => Move(k, m, k + 1, u, "battles")
<1>1. Column["like"] = "likes" /\ Column["dislike"] = "dislikes"
  BY DEF Column
<1>2. /\ Counter["LIKE_ADDED"] = "likes" /\ Counter["LIKE_REMOVED"] = "likes"
      /\ Counter["DISLIKE_ADDED"] = "dislikes" /\ Counter["DISLIKE_REMOVED"] = "dislikes"
      /\ Counter["BATTLE_FINISHED"] = "battles"
  BY DEF Counter
<1>3. QED
  BY <1>1, <1>2, ReactionsAre, KindsAre DEF Move, Counts, OfReaction

\* The counters of a user whose reaction appears and disappears.
LEMMA ReactionMoves ==
  ASSUME NEW u, NEW c \in Reactions, NEW r \in Reactions
  PROVE  LET added   == Message(Event[r].added, u, NoPins)
             removed == Message(Event[r].removed, u, NoPins) IN
         /\ r = c => Move(0, added, 1, u, Column[c]) /\ Move(1, removed, 0, u, Column[c])
         /\ r # c => \A k \in Nat : Move(k, added, k, u, Column[c]) /\ Move(k, removed, k, u, Column[c])
         /\ added.type \in OfReaction /\ removed.type \in OfReaction
         /\ added.user = u /\ removed.user = u
<1>1. Column["like"] = "likes" /\ Column["dislike"] = "dislikes"
  BY DEF Column
<1>2. /\ Counter["LIKE_ADDED"] = "likes" /\ Counter["LIKE_REMOVED"] = "likes"
      /\ Counter["DISLIKE_ADDED"] = "dislikes" /\ Counter["DISLIKE_REMOVED"] = "dislikes"
  BY DEF Counter
<1>3. \A x : Message(x, u, NoPins).type = x /\ Message(x, u, NoPins).user = u
  BY DEF Message
<1>4. QED
  BY <1>1, <1>2, <1>3, ReactionsAre, KindsAre DEF Move, Counts, OfReaction

LEMMA WalkOne ==
  ASSUME NEW m \in Messages, NEW a \in Nat, NEW k \in Nat, NEW u, NEW c, Move(a, m, k, u, c)
  PROVE  Walk(a, <<m>>, k, u, c)
<1>1. <<>> \in Seq(Messages) /\ Walk(a, <<>>, a, u, c)
  BY WalkNone
<1>2. Walk(a, Append(<<>>, m), k, u, c)
  BY <1>1, WalkOn
<1>3. Append(<<>>, m) = <<m>>
  OBVIOUS
<1>4. QED
  BY <1>2, <1>3

LEMMA AppendToOne ==
  ASSUME NEW s \in Seq(Messages), NEW t \in Seq(Messages), NEW n \in Messages,
         Len(s) = 1, Len(t) = 2, t[1] = s[1], t[2] = n
  PROVE  Append(s, n) = t
<1>1. PICK new \in Seq(Messages) : new = Append(s, n)
  BY AppendProperties
<1>2. Len(new) = 2 /\ new[1] = s[1] /\ new[2] = n
  BY <1>1, AppendProperties
<1>3. \A i \in 1..Len(t) : i = 1 \/ i = 2
  OBVIOUS
<1>4. new = t
  BY <1>2, <1>3, SeqEqual
<1>5. QED
  BY <1>1, <1>4

LEMMA WalkTwo ==
  ASSUME NEW m \in Messages, NEW n \in Messages, NEW a \in Nat, NEW b \in Nat, NEW k \in Nat, NEW u, NEW c,
         Move(a, m, b, u, c), Move(b, n, k, u, c)
  PROVE  Walk(a, <<m, n>>, k, u, c)
<1>1. <<m>> \in Seq(Messages) /\ Walk(a, <<m>>, b, u, c)
  BY WalkOne
<1>2. Walk(a, Append(<<m>>, n), k, u, c)
  BY <1>1, WalkOn
<1>3. Append(<<m>>, n) = <<m, n>>
  <2>1. /\ <<m, n>> \in Seq(Messages) /\ Len(<<m>>) = 1 /\ Len(<<m, n>>) = 2
        /\ <<m>>[1] = m /\ <<m, n>>[1] = m /\ <<m, n>>[2] = n
    OBVIOUS
  <2>2. QED
    BY <1>1, <2>1, AppendToOne
<1>4. QED
  BY <1>2, <1>3

\* The events of a reaction take each counter from what the user's reaction was to what it is.
LEMMA ReactionWalks ==
  ASSUME NEW u \in User, NEW old \in Opinions, NEW new \in Reactions, old # new, NEW c \in Reactions,
         NEW out, out = About(u, ReactionEvents(old, new))
  PROVE  /\ out \in Seq(Messages) /\ out # <<>>
         /\ \A i \in 1..Len(out) : out[i].type \in OfReaction /\ out[i].user = u
         /\ Walk(IF old = c THEN 1 ELSE 0, out, IF new = c THEN 1 ELSE 0, u, Column[c])
<1>1. PICK m : m = Message(Event[new].added, u, NoPins)
  OBVIOUS
<1>2. m.type \in OfReaction /\ m.user = u
  BY <1>1, ReactionMoves
<1>3. \A k \in Kinds : Message(k, u, NoPins) \in Messages
  BY DEF Message, Messages, Places, NoPins
<1>4. \A r \in Reactions : Event[r].added \in Kinds /\ Event[r].removed \in Kinds
  BY KindsAre, ReactionsAre DEF Kinds
<1>5. m \in Messages
  BY <1>1, <1>3, <1>4
<1>6. out \in Seq(Messages)
  BY ReactionOut
<1>7. CASE old = "none"
  <2>1. out = <<m>> /\ Len(<<m>>) = 1 /\ <<m>> # <<>> /\ <<m>>[1] = m
    BY <1>1, <1>7, ReactionOut, ReactionsAre
  <2>2. Move(0, m, IF new = c THEN 1 ELSE 0, u, Column[c])
    BY <1>1, ReactionMoves
  <2>3. Walk(0, <<m>>, IF new = c THEN 1 ELSE 0, u, Column[c])
    BY <1>5, <2>2, WalkOne
  <2>4. old # c
    BY <1>7, ReactionsAre
  <2>5. \A i \in 1..Len(out) : i = 1
    BY <2>1
  <2>6. QED
    BY <1>2, <1>6, <2>1, <2>3, <2>4, <2>5
<1>8. CASE old # "none"
  <2>1. PICK n : n = Message(Event[old].removed, u, NoPins)
    OBVIOUS
  <2>2. old \in Reactions \ {new}
    BY <1>8 DEF Opinions
  <2>3. n.type \in OfReaction /\ n.user = u /\ n \in Messages
    BY <1>3, <1>4, <2>1, <2>2, ReactionMoves
  <2>4. out = <<n, m>> /\ Len(<<n, m>>) = 2 /\ <<n, m>> # <<>> /\ <<n, m>>[1] = n /\ <<n, m>>[2] = m
    BY <1>1, <1>8, <2>1, <2>2, ReactionOut
  <2>5. \A i \in 1..Len(out) : i = 1 \/ i = 2
    BY <2>4
  <2>6. (old = c /\ new # c) \/ (old # c /\ new = c)
    BY <2>2, ReactionsAre
  <2>7. Walk(IF old = c THEN 1 ELSE 0, <<n, m>>, IF new = c THEN 1 ELSE 0, u, Column[c])
    <3>1. CASE old = c /\ new # c
      <4>1. Move(1, n, 0, u, Column[c]) /\ Move(0, m, 0, u, Column[c])
        BY <1>1, <2>1, <2>2, <3>1, ReactionMoves
      <4>2. Walk(1, <<n, m>>, 0, u, Column[c])
        BY <1>5, <2>3, <4>1, WalkTwo
      <4>3. QED
        BY <3>1, <4>2
    <3>2. CASE old # c /\ new = c
      <4>1. Move(0, n, 0, u, Column[c]) /\ Move(0, m, 1, u, Column[c])
        BY <1>1, <2>1, <2>2, <3>2, ReactionMoves
      <4>2. Walk(0, <<n, m>>, 1, u, Column[c])
        BY <1>5, <2>3, <4>1, WalkTwo
      <4>3. QED
        BY <3>2, <4>2
    <3>3. QED
      BY <2>6, <3>1, <3>2
  <2>8. QED
    BY <1>2, <1>6, <2>3, <2>4, <2>5, <2>7
<1>9. QED
  BY <1>7, <1>8

\* With reactions sent twice at once, only the battles are followed.
LEMMA TwiceSettles ==
  ASSUME TypeInv, OnWay, ~Once, NEW h \in Handler, NEW r, Replaced(h, r), Shape(r),
         UNCHANGED <<ops, stats, batch, stream, battle, faults>>,
         ~Owes(req[h]), ~Owes(r), r.pc \notin {"commit", "setWinner"}
  PROVE  OnWay'
<1>1. (\A g \in Handler : Shape(req'[g])) /\ Alternate' /\ ResultsOK'
  <2>1. (\A g \in Handler : Shape(req'[g])) /\ Alternate'
    BY RequestOnWay
  <2>2. ResultsOK'
    BY ResultsSame
  <2>3. QED
    BY <2>1, <2>2
<1>2. \A u, c, k : Chain(u, c, k) => Chain(u, c, k)'
  BY ChainSame
<1>3. ASSUME NEW u \in User PROVE BattlesOnWay(u)'
  <2>1. Owing(u)' = Owing(u) /\ Done(u)' = Done(u)
    BY OwingSame DEF Done
  <2>2. QED
    BY <1>2, <2>1, BattlesSame DEF OnWay
<1>4. ~Once'
  BY DEF Once
<1>5. QED
  BY <1>1, <1>3, <1>4 DEF OnWay, Shape

\* The reaction changes, and its events tell of the change.
LEMMA CommitSettles ==
  ASSUME TypeInv, OnWay, live, NEW h \in Handler, CommitReaction(h)
  PROVE  OnWay'
<1>1. PICK v, old, new : v = req[h].by /\ old = req[h].old /\ new = req[h].new
  OBVIOUS
<1>2. /\ req[h].pc = "commit" /\ v \in User /\ old \in Opinions /\ new \in Reactions
      /\ ~Tells(req[h]) /\ ~Owes(req[h]) /\ Reacts(req[h]) /\ (Once => old = reaction[v])
  BY <1>1 DEF CommitReaction, At, TypeInv, RequestsOK, Armed, Requests, Tells, Owes, Reacts, OnWay,
     Alternate
<1>3. PICK out : out = About(v, ReactionEvents(old, new))
  OBVIOUS
<1>4. /\ reaction' = [reaction EXCEPT ![v] = new] /\ Publish(h, out)
      /\ UNCHANGED <<ops, stats, batch, stream, battle, faults>>
  BY <1>1, <1>3 DEF CommitReaction, battleVars, statVars
<1>5. reaction \in [User -> Opinions]
  BY DEF TypeInv, TripOK
<1>6. CASE old = new
  <2>1. Once => reaction' = reaction
    BY <1>2, <1>4, <1>5, <1>6
  <2>2. out = <<>>
    BY <1>2, <1>3, <1>6, ReactionOut, ReactionsAre
  <2>3. Replaced(h, NoRequest)
    BY <1>4, <2>2 DEF Publish, Replaced
  <2>4. CASE Once
    BY <1>2, <1>4, <2>1, <2>3, <2>4, NoRequestOwes, NeutralRequest
  <2>5. CASE ~Once
    BY <1>2, <1>4, <2>3, <2>5, NoRequestOwes, TwiceSettles
  <2>6. QED
    BY <2>4, <2>5
<1>7. CASE old # new
  <2>1. /\ out \in Seq(Messages) /\ out # <<>>
        /\ \A i \in 1..Len(out) : out[i].type \in OfReaction /\ out[i].user = v
        /\ \A c \in Reactions :
             Walk(IF old = c THEN 1 ELSE 0, out, IF new = c THEN 1 ELSE 0, v, Column[c])
    <3>1. \A c \in Reactions :
             /\ out \in Seq(Messages) /\ out # <<>>
             /\ \A i \in 1..Len(out) : out[i].type \in OfReaction /\ out[i].user = v
             /\ Walk(IF old = c THEN 1 ELSE 0, out, IF new = c THEN 1 ELSE 0, v, Column[c])
      BY <1>2, <1>3, <1>7, ReactionWalks
    <3>2. QED
      BY <1>2, <3>1
  <2>2. PICK r : Replaced(h, r) /\ r.pc = "publish" /\ r.by = req[h].by /\ r.out = out
    BY <1>4, <2>1, PublishIs
  <2>3. r.by = v /\ r.out[1].type \in OfReaction
    <3>1. 1 \in 1..Len(out)
      BY <2>1
    <3>2. QED
      BY <1>1, <2>1, <2>2, <3>1
  <2>4. Tells(r) /\ ~Owes(r) /\ Reacts(r) /\ Shape(r)
    BY <2>1, <2>2, <2>3 DEF Tells, Owes, Reacts, Shape, OfReaction
  <2>5. Once => \A g \in Handler \ {h} : Reacts(req[g]) => req[g].by # v
    BY <1>1, <1>2 DEF OnWay, Alternate
  <2>6. (\A g \in Handler : Shape(req'[g])) /\ Alternate'
    <3>1. Once => \A g \in Handler \ {h} :
                    req[g].pc = "commit" => reaction'[req[g].by] = reaction[req[g].by]
      BY <1>4, <1>5, <2>5 DEF Reacts, TypeInv, RequestsOK, Armed
    <3>2. QED
      BY <1>2, <1>4, <2>2, <2>4, <3>1, RequestOnWay
  <2>7. ResultsOK'
    BY <1>4, <2>2, ResultsSame
  <2>8. \A u, c, k : Chain(u, c, k) => Chain(u, c, k)'
    BY <1>4, ChainSame
  <2>9. ASSUME NEW u \in User PROVE BattlesOnWay(u)'
    <3>1. Owing(u)' = Owing(u) /\ Done(u)' = Done(u)
      BY <1>2, <1>4, <2>2, <2>4, OwingSame DEF Done
    <3>2. QED
      BY <1>4, <2>8, <3>1, BattlesSame DEF OnWay
  <2>10. ASSUME faults' = 0, Once', NEW u \in User, NEW c \in Reactions PROVE ReactionOnWay(u, c)'
    <3>1. faults = 0 /\ Once /\ ReactionOnWay(u, c)
      BY <1>4, <2>10 DEF OnWay, Once
    <3>2. CASE u # v
      <4>1. reaction'[u] = reaction[u]
        BY <1>4, <1>5, <3>2
      <4>2. QED
        BY <1>2, <2>2, <2>3, <2>8, <3>1, <3>2, <4>1, ReactionsSame
    <3>3. CASE u = v
      <4>1. \A g \in Handler : ~(req[g].by = u /\ Tells(req[g]))
        BY <1>2, <2>5, <3>1, <3>3 DEF Reacts
      <4>2. PICK k \in Nat : Chain(u, Column[c], k) /\ k = Has(u, c)
        BY <3>1, <4>1 DEF ReactionOnWay
      <4>3. Chain(u, Column[c], k)'
        BY <2>8, <4>2
      <4>4. /\ k = IF old = c THEN 1 ELSE 0
            /\ Has(u, c)' = IF new = c THEN 1 ELSE 0
        BY <1>2, <1>4, <1>5, <3>1, <3>3, <4>2 DEF Has
      <4>5. Walk(k, out, Has(u, c)', u, Column[c])
        BY <2>1, <3>3, <4>4
      <4>6. \A g \in Handler : req'[g].by = u /\ Tells(req'[g]) => req'[g] = r
        BY <2>2, <2>5, <3>1, <3>3, ReplacedAt DEF Reacts
      <4>7. req'[h] = r
        BY <2>2, ReplacedAt
      <4>8. \A g \in Handler : req'[g].by = u /\ Tells(req'[g]) =>
                                 Walk(k, req'[g].out, Has(u, c)', u, Column[c])
        BY <2>2, <4>5, <4>6
      <4>9. ~(\A g \in Handler : ~(req'[g].by = u /\ Tells(req'[g])))
        BY <2>3, <2>4, <3>3, <4>7
      <4>10. QED
        BY <4>3, <4>8, <4>9 DEF ReactionOnWay, Tells
    <3>4. QED
      BY <3>2, <3>3
  <2>11. QED
    BY <2>6, <2>7, <2>9, <2>10 DEF OnWay, Shape
<1>8. QED
  BY <1>6, <1>7

------------------------------------------------------------------------------
(* An event is published, or lost                                           *)

LEMMA CardsAre ==
  ASSUME IsFiniteSet(Handler), IsFiniteSet(Battle), NEW u
  PROVE  Cardinality(Owing(u)) \in Nat /\ Cardinality(Done(u)) \in Nat
<1>1. Owing(u) \subseteq Handler /\ Done(u) \subseteq Battle
  BY DEF Owing, Done
<1>2. QED
  BY <1>1, FS_Subset, FS_CardinalityType

\* Whatever fails, what a request owed is lost, and no more.
LEMMA BattlesLess ==
  ASSUME TypeInv, IsFiniteSet(Handler), IsFiniteSet(Battle),
         NEW h \in Handler, NEW r, Replaced(h, r), ~Owes(r),
         NEW u, BattlesOnWay(u), UNCHANGED <<stats, batch, stream, battle>>, faults' # 0
  PROVE  BattlesOnWay(u)'
<1>1. PICK k \in Nat : Chain(u, "battles", k) /\ k + Cardinality(Owing(u)) <= Cardinality(Done(u))
  BY DEF BattlesOnWay
<1>2. Chain(u, "battles", k)' /\ Done(u)' = Done(u)
  BY <1>1, ChainSame DEF Done
<1>3. CASE Owes(req[h])
  <2>1. /\ Cardinality(Owing(u)) \in Nat /\ Cardinality(Owing(u)') \in Nat
        /\ u = req[h].by => Cardinality(Owing(u)) = Cardinality(Owing(u)') + 1
        /\ u # req[h].by => Owing(u)' = Owing(u)
    BY <1>3, OwingLess
  <2>2. PICK d \in Nat : d = Cardinality(Done(u))
    BY CardsAre
  <2>3. k + Cardinality(Owing(u)') <= d
    BY <1>1, <2>1, <2>2
  <2>4. QED
    BY <1>2, <2>2, <2>3 DEF BattlesOnWay
<1>4. CASE ~Owes(req[h])
  <2>1. Owing(u)' = Owing(u)
    BY <1>4, OwingSame
  <2>2. QED
    BY <1>1, <1>2, <2>1 DEF BattlesOnWay
<1>5. QED
  BY <1>3, <1>4

\* What request h publishes of out, and what r it becomes.
Leaves(h, out, r) ==
  /\ Replaced(h, r) /\ ~Owes(r) /\ Shape(r) /\ r.pc \notin {"commit", "setWinner"}
  /\ Owes(req[h]) =>
       Head(out).type = "BATTLE_FINISHED" /\ Head(out).user = req[h].by /\ ~Tells(r)
  /\ Tells(req[h]) => /\ Head(out).type \in OfReaction /\ Head(out).user = req[h].by
                      /\ \/ Tail(out) = <<>> /\ ~Tells(r)
                         \/ Tells(r) /\ r.by = req[h].by /\ r.out = Tail(out)
  /\ ~Owes(req[h]) /\ ~Tells(req[h]) => Head(out).type \notin DOMAIN Counter /\ ~Tells(r)

LEMMA Published ==
  ASSUME TypeInv, OnWay, NEW h \in Handler, PublishEvent(h), NEW out, out = req[h].out
  PROVE  /\ out \in Seq(Messages) /\ out # <<>> /\ Head(out) \in Messages /\ Tail(out) \in Seq(Messages)
         /\ \E r : Leaves(h, out, r)
<1>1. req[h].pc = "publish" /\ Publish(h, Tail(req[h].out)) /\ Shape(req[h])
  BY DEF PublishEvent, At, OnWay
<1>2. out = req[h].out
  OBVIOUS
<1>3. out \in Seq(Messages) /\ out # <<>>
  BY <1>1, <1>2 DEF TypeInv, RequestsOK, Armed, Requests
<1>4. PICK rest \in Seq(Messages) : rest = Tail(out)
  BY <1>3, HeadTailProperties
<1>5. /\ Head(out) \in Messages /\ Head(out) = out[1] /\ Len(out) \in Nat /\ Len(rest) = Len(out) - 1
      /\ \A i \in 1..Len(rest) : rest[i] = out[i + 1]
  BY <1>3, <1>4, HeadTailProperties, LenProperties
<1>6. CASE rest = <<>>
  <2>1. Replaced(h, NoRequest)
    BY <1>1, <1>2, <1>4, <1>6 DEF Publish, Replaced
  <2>2. Len(out) = 1 /\ 1 \in 1..Len(out)
    <3>1. Len(rest) = 0
      BY <1>6
    <3>2. PICK n \in Nat : n = Len(out)
      BY <1>5
    <3>3. n = 1
      BY <1>5, <3>1, <3>2
    <3>4. QED
      BY <3>2, <3>3
  <2>3. Owes(req[h]) => Head(out).type = "BATTLE_FINISHED" /\ Head(out).user = req[h].by
    <3>1. ASSUME Owes(req[h])
          PROVE  Head(out).type = "BATTLE_FINISHED" /\ Head(out).user = req[h].by
      <4>1. out[1].type = "BATTLE_FINISHED"
        BY <1>1, <1>2, <3>1 DEF Owes
      <4>2. out = <<Message("BATTLE_FINISHED", req[h].by, NoPins)>>
        BY <1>1, <1>2, <2>2, <4>1, KindsAre DEF Shape, OfReaction
      <4>3. out[1] = Message("BATTLE_FINISHED", req[h].by, NoPins)
        BY <4>2
      <4>4. QED
        BY <1>5, <4>3 DEF Message
    <3>2. QED
      BY <3>1
  <2>4. Tells(req[h]) => Head(out).type \in OfReaction /\ Head(out).user = req[h].by
    <3>1. ASSUME Tells(req[h])
          PROVE  Head(out).type \in OfReaction /\ Head(out).user = req[h].by
      <4>1. out[1].type \in OfReaction
        BY <1>2, <3>1 DEF Tells
      <4>2. out # <<Message("BATTLE_FINISHED", req[h].by, NoPins)>>
        <5>1. <<Message("BATTLE_FINISHED", req[h].by, NoPins)>>[1].type = "BATTLE_FINISHED"
          BY DEF Message
        <5>2. QED
          BY <4>1, <5>1 DEF OfReaction
      <4>3. out[1].user = req[h].by
        BY <1>1, <1>2, <2>2, <4>1, <4>2, KindsAre DEF Shape, OfReaction
      <4>4. QED
        BY <1>5, <4>1, <4>3
    <3>2. QED
      BY <3>1
  <2>5. ~Owes(req[h]) /\ ~Tells(req[h]) => Head(out).type \notin DOMAIN Counter
    BY <1>1, <1>2, <1>5, KindsAre DEF Owes, Tells, OfReaction
  <2>6. PICK r : r = NoRequest
    OBVIOUS
  <2>7. /\ Replaced(h, r) /\ ~Owes(r) /\ ~Tells(r) /\ Shape(r) /\ r.pc \notin {"commit", "setWinner"}
        /\ Tail(out) = <<>> /\ Tail(out) \in Seq(Messages) /\ Head(out) \in Messages
    BY <1>4, <1>5, <1>6, <2>1, <2>6, NoRequestOwes
  <2>8. Leaves(h, out, r)
    BY <2>3, <2>4, <2>5, <2>7 DEF Leaves
  <2>9. QED
    BY <1>3, <2>7, <2>8
<1>7. CASE rest # <<>>
  <2>1. Publish(h, rest)
    BY <1>1, <1>2, <1>4 DEF Publish
  <2>2. PICK r : Replaced(h, r) /\ r.pc = "publish" /\ r.by = req[h].by /\ r.out = rest
    BY <1>7, <2>1, PublishIs
  <2>3. Len(rest) \in Nat /\ Len(rest) >= 1 /\ 1 \in 1..Len(out) /\ 1 \in 1..Len(rest) /\ Len(out) # 1
    BY <1>4, <1>5, <1>7
  <2>4. out # <<Message("BATTLE_FINISHED", req[h].by, NoPins)>>
    <3>1. Len(<<Message("BATTLE_FINISHED", req[h].by, NoPins)>>) = 1
      OBVIOUS
    <3>2. QED
      BY <2>3, <3>1
  <2>5. \A i \in 1..Len(out) : out[i].type \in OfReaction /\ out[i].user = req[h].by
    BY <1>1, <1>2, <2>3, <2>4 DEF Shape
  <2>6. \A i \in 1..Len(rest) : i + 1 \in 1..Len(out)
    BY <1>5, <2>3
  <2>7. \A i \in 1..Len(rest) : rest[i].type \in OfReaction /\ rest[i].user = req[h].by
    BY <1>5, <2>5, <2>6
  <2>8. Tells(r) /\ ~Owes(r) /\ Shape(r)
    BY <2>2, <2>3, <2>7 DEF Tells, Owes, Shape, OfReaction
  <2>9. Tells(req[h]) /\ ~Owes(req[h]) /\ Head(out).type \in OfReaction /\ Head(out).user = req[h].by
    BY <1>1, <1>2, <1>5, <2>3, <2>5 DEF Tells, Owes, OfReaction
  <2>10. Leaves(h, out, r)
    BY <1>4, <2>2, <2>8, <2>9 DEF Leaves
  <2>11. QED
    BY <1>3, <1>4, <1>5, <2>10
<1>8. QED
  BY <1>6, <1>7

\* The event reaches the stream: the counters will be moved as it says.
LEMMA AppendedSettles ==
  ASSUME IsFiniteSet(Handler), IsFiniteSet(Battle), TypeInv, OnWay, NEW h \in Handler, PublishEvent(h),
         stream' = Append(stream, Head(req[h].out)), UNCHANGED faults
  PROVE  OnWay'
<1>1. PICK out : out = req[h].out
  OBVIOUS
<1>2. out \in Seq(Messages) /\ out # <<>> /\ Head(out) \in Messages /\ Tail(out) \in Seq(Messages)
  BY <1>1, Published
<1>3. PICK r : Leaves(h, out, r)
  BY <1>1, Published
<1>4. PICK m \in Messages : m = Head(out)
  BY <1>2
<1>5. /\ UNCHANGED <<ops, stats, batch, reaction, battle>> /\ stream' = Append(stream, m)
      /\ req[h].pc = "publish" /\ req[h].by \in User
  BY <1>1, <1>4 DEF PublishEvent, At, tripVars, socialVars, battleVars, statVars, TypeInv,
     RequestsOK, Armed
<1>6. Replaced(h, r) /\ ~Owes(r) /\ Shape(r) /\ r.pc \notin {"commit", "setWinner"}
  BY <1>3 DEF Leaves
<1>7. Reacts(r) => Tells(req[h]) /\ Tells(r) /\ r.by = req[h].by
  BY <1>3, <1>6, KindsAre DEF Leaves, Reacts, Tells, Owes, OfReaction
<1>8. (\A g \in Handler : Shape(req'[g])) /\ Alternate' /\ ResultsOK'
  <2>1. (\A g \in Handler : Shape(req'[g])) /\ Alternate'
    BY <1>5, <1>6, <1>7, RequestOnWay DEF Reacts
  <2>2. ResultsOK'
    BY <1>5, <1>6, ResultsSame
  <2>3. QED
    BY <2>1, <2>2
<1>9. ASSUME NEW u, NEW c, NEW k \in Nat, NEW l \in Nat, Chain(u, c, k), Move(k, m, l, u, c)
      PROVE  Chain(u, c, l)'
  BY <1>5, <1>9, ChainAppend
<1>10. ASSUME NEW u \in User PROVE BattlesOnWay(u)'
  <2>1. PICK k \in Nat : /\ Chain(u, "battles", k)
                         /\ k + Cardinality(Owing(u)) <= Cardinality(Done(u))
                         /\ faults = 0 => k + Cardinality(Owing(u)) = Cardinality(Done(u))
    BY DEF OnWay, BattlesOnWay
  <2>2. Done(u)' = Done(u)
    BY <1>5 DEF Done
  <2>3. CASE ~Owes(req[h])
    <3>1. Owing(u)' = Owing(u)
      BY <1>6, <2>3, OwingSame
    <3>2. Move(k, m, k, u, "battles")
      BY <1>3, <1>4, <2>3, Moves DEF Leaves
    <3>3. Chain(u, "battles", k)'
      BY <1>9, <2>1, <3>2
    <3>4. QED
      BY <2>1, <2>2, <3>1, <3>3 DEF BattlesOnWay
  <2>4. CASE Owes(req[h])
    <3>1. /\ Cardinality(Owing(u)) \in Nat /\ Cardinality(Owing(u)') \in Nat
          /\ u = req[h].by => Cardinality(Owing(u)) = Cardinality(Owing(u)') + 1
          /\ u # req[h].by => Owing(u)' = Owing(u)
      BY <1>6, <2>4, OwingLess
    <3>2. m.type = "BATTLE_FINISHED" /\ m.user = req[h].by
      BY <1>3, <1>4, <2>4 DEF Leaves
    <3>3. CASE u # req[h].by
      <4>1. Move(k, m, k, u, "battles")
        BY <3>2, <3>3, Moves
      <4>2. Chain(u, "battles", k)'
        BY <1>9, <2>1, <4>1
      <4>3. QED
        BY <2>1, <2>2, <3>1, <3>3, <4>2 DEF BattlesOnWay
    <3>4. CASE u = req[h].by
      <4>1. Move(k, m, k + 1, u, "battles") /\ k + 1 \in Nat
        BY <3>2, <3>4, Moves
      <4>2. Chain(u, "battles", k + 1)'
        BY <1>9, <2>1, <4>1
      <4>3. PICK d \in Nat : d = Cardinality(Done(u))
        BY CardsAre
      <4>4. /\ (k + 1) + Cardinality(Owing(u)') <= d
            /\ faults' = 0 => (k + 1) + Cardinality(Owing(u)') = d
        BY <2>1, <3>1, <3>4, <4>3
      <4>5. QED
        BY <2>2, <4>1, <4>2, <4>3, <4>4 DEF BattlesOnWay
    <3>5. QED
      BY <3>3, <3>4
  <2>5. QED
    BY <2>3, <2>4
<1>11. ASSUME faults' = 0, Once', NEW u \in User, NEW c \in Reactions PROVE ReactionOnWay(u, c)'
  <2>1. Once /\ ReactionOnWay(u, c)
    BY <1>5, <1>11 DEF OnWay, Once
  <2>2. CASE ~(Tells(req[h]) /\ req[h].by = u)
    <3>1. ~(r.by = u /\ Tells(r))
      BY <1>7, <2>2 DEF Reacts
    <3>2. \A k \in Nat : Move(k, m, k, u, Column[c])
      <4>1. CASE Tells(req[h])
        BY <1>3, <1>4, <2>2, <4>1, Moves DEF Leaves
      <4>2. CASE ~Tells(req[h])
        BY <1>3, <1>4, <4>2, Moves DEF Leaves
      <4>3. QED
        BY <4>1, <4>2
    <3>3. \A k \in Nat : Chain(u, Column[c], k) => Chain(u, Column[c], k)'
      BY <1>9, <3>2
    <3>4. QED
      BY <1>5, <1>6, <2>1, <2>2, <3>1, <3>3, ReactionsSame
  <2>3. CASE Tells(req[h]) /\ req[h].by = u
    <3>1. PICK k \in Nat : Chain(u, Column[c], k) /\ Walk(k, out, Has(u, c), u, Column[c])
      BY <1>1, <2>1, <2>3 DEF ReactionOnWay
    <3>2. PICK b \in Nat : b = Has(u, c) /\ b = Has(u, c)'
      BY <1>5 DEF Has
    <3>3. PICK l \in Nat : Move(k, m, l, u, Column[c]) /\ Walk(l, Tail(out), b, u, Column[c])
      BY <1>2, <1>4, <3>1, <3>2, WalkFrom
    <3>4. Chain(u, Column[c], l)'
      BY <1>9, <3>1, <3>3
    <3>5. req'[h] = r /\ \A g \in Handler \ {h} : req'[g] = req[g]
      BY <1>6, ReplacedAt
    <3>6. \A g \in Handler \ {h} : ~(req'[g].by = u /\ Tells(req'[g]))
      BY <2>1, <2>3, <3>5 DEF OnWay, Alternate, Reacts
    <3>7. CASE Tells(r) /\ r.by = u /\ r.out = Tail(out)
      <4>1. \A g \in Handler : req'[g].by = u /\ Tells(req'[g]) =>
                                 Walk(l, req'[g].out, Has(u, c)', u, Column[c])
        BY <3>2, <3>3, <3>5, <3>6, <3>7
      <4>2. ~(\A g \in Handler : ~(req'[g].by = u /\ Tells(req'[g])))
        BY <3>5, <3>7
      <4>3. QED
        BY <3>4, <4>1, <4>2 DEF ReactionOnWay, Tells
    <3>8. CASE Tail(out) = <<>> /\ ~Tells(r)
      <4>1. l = b
        <5>1. Walk(l, <<>>, b, u, Column[c])
          BY <3>3, <3>8
        <5>2. QED
          BY <5>1, WalkNone
      <4>2. \A g \in Handler : ~(req'[g].by = u /\ Tells(req'[g]))
        BY <3>5, <3>6, <3>8
      <4>3. QED
        BY <3>2, <3>4, <4>1, <4>2 DEF ReactionOnWay, Tells
    <3>9. QED
      BY <1>3, <2>3, <3>7, <3>8 DEF Leaves
  <2>4. QED
    BY <2>2, <2>3
<1>12. QED
  BY <1>8, <1>10, <1>11 DEF OnWay, Shape

\* The event is lost, or the request with it.
LEMMA LostSettles ==
  ASSUME IsFiniteSet(Handler), IsFiniteSet(Battle), TypeInv, OnWay, NEW h \in Handler,
         HandlerFails(h) \/ (PublishEvent(h) /\ Fault /\ UNCHANGED stream)
  PROVE  OnWay'
<1>1. UNCHANGED <<ops, stats, batch, stream, reaction, battle>> /\ faults' # 0
  BY DEF HandlerFails, PublishEvent, Fault, tripVars, socialVars, battleVars, statVars, TypeInv,
     StatsOK
<1>2. \E r : /\ Replaced(h, r) /\ ~Owes(r) /\ Shape(r) /\ r.pc \notin {"commit", "setWinner"}
             /\ Reacts(r) => Reacts(req[h]) /\ r.by = req[h].by
  <2>1. CASE HandlerFails(h)
    <3>1. Replaced(h, NoRequest)
      BY <2>1 DEF HandlerFails, Finish, Replaced
    <3>2. QED
      BY <3>1, NoRequestOwes
  <2>2. CASE PublishEvent(h)
    <3>1. PICK out : out = req[h].out
      OBVIOUS
    <3>2. PICK r : Leaves(h, out, r)
      BY <2>2, <3>1, Published
    <3>3. /\ Replaced(h, r) /\ ~Owes(r) /\ Shape(r) /\ r.pc \notin {"commit", "setWinner"}
          /\ Reacts(r) => Reacts(req[h]) /\ r.by = req[h].by
      BY <3>2, KindsAre DEF Leaves, Reacts, Tells, Owes, OfReaction
    <3>4. QED
      BY <3>3
  <2>3. QED
    BY <2>1, <2>2
<1>3. PICK r : /\ Replaced(h, r) /\ ~Owes(r) /\ Shape(r) /\ r.pc \notin {"commit", "setWinner"}
               /\ Reacts(r) => Reacts(req[h]) /\ r.by = req[h].by
  BY <1>2
<1>4. (\A g \in Handler : Shape(req'[g])) /\ Alternate'
  BY <1>1, <1>3, RequestOnWay
<1>5. ResultsOK'
  BY <1>1, <1>3, ResultsSame
<1>6. \A u \in User : BattlesOnWay(u)'
  BY <1>1, <1>3, BattlesLess DEF OnWay
<1>7. QED
  BY <1>1, <1>4, <1>5, <1>6 DEF OnWay, Shape

------------------------------------------------------------------------------
(* Every step                                                               *)

\* The consumers, and a battle that begins.
LEMMA ConsumersSettle ==
  ASSUME IsFiniteSet(Handler), IsFiniteSet(Battle), TypeInv, OnWay,
         ConsumeStats \/ StatsFails \/ ConsumeGeo \/ GeoFails
  PROVE  OnWay'
<1>1. UNCHANGED <<ops, req, reaction, battle>>
  BY DEF ConsumeStats, ReadStats, Increment, DeleteByTripID, PublishGeoEvent, ResolvePin,
     StatsFails,
     ConsumeGeo, MirrorRows, UpdateLocationNames, UpsertTripLocations, GeoFails, tripVars,
     socialVars, battleVars
<1>2. (\A h \in Handler : Shape(req[h]))' /\ Alternate' /\ ResultsOK'
  BY <1>1 DEF OnWay, Shape, Alternate, Once, ResultsOK, Reacts, Tells
<1>3. Column["like"] \in Columns /\ Column["dislike"] \in Columns /\ "battles" \in Columns
  BY DEF Column, Columns
<1>4. \A u : Owing(u)' = Owing(u) /\ Done(u)' = Done(u)
  BY <1>1 DEF Owing, Owes, Done
<1>5. faults \in Nat /\ (faults' = 0 => faults = 0)
  BY DEF TypeInv, StatsOK, ConsumeStats, ReadStats, Increment, DeleteByTripID, PublishGeoEvent,
     ResolvePin, StatsFails, Fault, ConsumeGeo, MirrorRows, UpdateLocationNames,
     UpsertTripLocations, GeoFails
<1>6. CASE ConsumeStats \/ ConsumeGeo \/ GeoFails
  <2>1. \A u \in User, c \in Columns, k \in Nat : Chain(u, c, k) => Chain(u, c, k)'
    <3>1. CASE ConsumeStats
      BY <3>1, ConsumedRight
    <3>2. CASE ConsumeGeo \/ GeoFails
      <4>1. UNCHANGED <<stats, batch, stream>>
        BY <3>2 DEF ConsumeGeo, MirrorRows, UpdateLocationNames, UpsertTripLocations, GeoFails,
           statVars
      <4>2. QED
        BY <4>1, ChainSame
    <3>3. QED
      BY <1>6, <3>1, <3>2
  <2>2. ASSUME faults' = 0, Once', NEW u \in User, NEW c \in Reactions PROVE ReactionOnWay(u, c)'
    <3>1. ReactionOnWay(u, c) /\ Column[c] \in Columns
      BY <1>1, <1>3, <1>5, <2>2, ReactionsAre DEF OnWay, Once
    <3>2. QED
      BY <1>1, <2>1, <3>1, ReactionsStill
  <2>3. ASSUME NEW u \in User PROVE BattlesOnWay(u)'
    BY <1>3, <1>4, <1>5, <2>1, BattlesSame DEF OnWay
  <2>4. QED
    BY <1>2, <2>2, <2>3 DEF OnWay
<1>7. CASE StatsFails
  <2>1. faults' # 0
    BY <1>5, <1>7 DEF StatsFails, Fault
  <2>2. ASSUME NEW u \in User PROVE BattlesOnWay(u)'
    <3>1. PICK k \in Nat : Chain(u, "battles", k) /\ k + Cardinality(Owing(u)) <= Cardinality(Done(u))
      BY DEF OnWay, BattlesOnWay
    <3>2. PICK l \in Nat : l <= k /\ Chain(u, "battles", l)'
      <4>1. \E l \in Nat : l <= k /\ Chain(u, "battles", l)'
        BY <1>7, <3>1, ConsumedLess
      <4>2. QED
        BY <4>1
    <3>3. PICK d, w \in Nat : d = Cardinality(Done(u)) /\ w = Cardinality(Owing(u))
      BY CardsAre
    <3>4. l + w <= d
      BY <3>1, <3>2, <3>3
    <3>5. QED
      BY <1>4, <2>1, <3>2, <3>3, <3>4 DEF BattlesOnWay
  <2>3. QED
    BY <1>2, <2>1, <2>2 DEF OnWay
<1>8. QED
  BY <1>6, <1>7

LEMMA BattleSettles ==
  ASSUME TypeInv, OnWay, NEW u \in User, NEW b \in Battle, StartBattle(u, b)
  PROVE  OnWay'
<1>1. /\ UNCHANGED <<ops, req, reaction, stats, batch, stream, faults>>
      /\ battle[b].state = "UNUSED" /\ battle' = [battle EXCEPT ![b] = [state |-> "OPEN", by |-> u]]
      /\ battle \in [Battle -> [state : {"UNUSED", "OPEN", "DONE", "GONE"}, by : User \cup {NoUser}]]
  BY DEF StartBattle, socialVars, statVars, TypeInv, BattlesOK
<1>2. battle'[b].state = "OPEN" /\ \A x \in Battle \ {b} : battle'[x] = battle[x]
  BY <1>1
<1>3. ResultsOK'
  <2>1. \A h \in Handler : req[h].pc = "setWinner" => req[h].battle \in Battle /\ req[h].battle # b
    BY <1>1 DEF OnWay, ResultsOK, TypeInv, RequestsOK, Armed
  <2>2. QED
    BY <1>1, <1>2, <2>1 DEF OnWay, ResultsOK
<1>4. (\A h \in Handler : Shape(req[h]))' /\ Alternate'
  BY <1>1 DEF OnWay, Shape, Alternate, Once, Reacts, Tells
<1>5. \A v : Owing(v)' = Owing(v) /\ Done(v)' = Done(v)
  BY <1>1, <1>2 DEF Owing, Owes, Done
<1>6. \A v, c, k : Chain(v, c, k) => Chain(v, c, k)'
  BY <1>1, ChainSame
<1>7. ASSUME faults' = 0, Once', NEW v \in User, NEW c \in Reactions PROVE ReactionOnWay(v, c)'
  BY <1>1, <1>6, <1>7, ReactionsStill DEF OnWay, Once
<1>8. ASSUME NEW v \in User PROVE BattlesOnWay(v)'
  BY <1>1, <1>5, <1>6, BattlesSame DEF OnWay
<1>9. QED
  BY <1>3, <1>4, <1>7, <1>8 DEF OnWay

LEMMA SettleNext ==
  ASSUME IsFiniteSet(Handler), IsFiniteSet(Battle), SettleInv, [Next]_vars
  PROVE  SettleInv'
<1>1. TypeInv' /\ TypeInv
  BY TypeNext DEF SettleInv
<1>2. ASSUME live' PROVE OnWay'
  <2>1. live
    BY <1>1, <1>2 DEF Next, Request, SubmitBattleResult, SetReaction, UpdatePin,
       PublishGeoRequestForTrip,
       DeleteTrip, LeaveTrip, RemoveTrip, Step, CommitReaction, SetWinner, IncrementBattleRating,
       SavePin,
       DeleteTripRow, PublishEvent, HandlerFails, StartBattle, ConsumeStats, ReadStats, Increment,
       DeleteByTripID, PublishGeoEvent, ResolvePin, StatsFails, ConsumeGeo, MirrorRows,
       UpdateLocationNames, UpsertTripLocations, GeoFails, vars, tripVars
  <2>2. OnWay
    BY <2>1 DEF SettleInv
  <2>3. ASSUME NEW h \in Handler, Request(h) \/ Step(h) \/ HandlerFails(h)
        PROVE  OnWay'
    <3>1. CASE PublishEvent(h)
      <4>1. \/ stream' = Append(stream, Head(req[h].out)) /\ UNCHANGED faults
            \/ Fault /\ UNCHANGED stream
        BY <3>1 DEF PublishEvent
      <4>2. QED
        BY <1>1, <2>2, <3>1, <4>1, AppendedSettles, LostSettles
    <3>2. CASE DeleteTripRow(h)
      BY <1>2, <3>2 DEF DeleteTripRow
    <3>3. QED
      BY <1>1, <2>1, <2>2, <2>3, <3>1, <3>2, RequestSettles, LostSettles, CommitSettles,
         WinnerSettles,
         RatingSettles, SavePinSettles DEF Step
  <2>4. CASE UNCHANGED vars
    <3>1. UNCHANGED <<ops, req, reaction, battle, stats, batch, stream, faults>>
      BY <2>4 DEF vars, tripVars, socialVars, battleVars, statVars
    <3>2. (\A h \in Handler : Shape(req[h]))' /\ Alternate' /\ ResultsOK'
      BY <2>2, <3>1 DEF OnWay, Shape, Alternate, Once, ResultsOK, Reacts, Tells
    <3>3. \A u, c, k : Chain(u, c, k) => Chain(u, c, k)'
      BY <3>1, ChainSame
    <3>4. \A u : Owing(u)' = Owing(u) /\ Done(u)' = Done(u)
      BY <3>1 DEF Owing, Owes, Done
    <3>5. ASSUME faults' = 0, Once', NEW u \in User, NEW c \in Reactions PROVE ReactionOnWay(u, c)'
      BY <2>2, <3>1, <3>3, <3>5, ReactionsStill DEF OnWay, Once
    <3>6. ASSUME NEW u \in User PROVE BattlesOnWay(u)'
      BY <2>2, <3>1, <3>3, <3>4, BattlesSame DEF OnWay
    <3>7. QED
      BY <3>2, <3>5, <3>6 DEF OnWay
  <2>5. QED
    BY <1>1, <2>2, <2>3, <2>4, ConsumersSettle, BattleSettles DEF Next
<1>3. QED
  BY <1>1, <1>2 DEF SettleInv

LEMMA SettleInit ==
  ASSUME IsFiniteSet(Handler), IsFiniteSet(Battle), Init
  PROVE  SettleInv
<1>1. TypeInv
  BY TypeInit
<1>2. /\ stream = <<>> /\ batch = <<>> /\ faults = 0
      /\ \A h \in Handler : req[h] = NoRequest
      /\ \A u \in User : reaction[u] = "none"
      /\ \A u \in User : stats[u] = [likes |-> 0, dislikes |-> 0, battles |-> 0]
      /\ \A b \in Battle : battle[b] = [state |-> "UNUSED", by |-> NoUser]
  BY DEF Init
<1>3. (\A h \in Handler : Shape(req[h])) /\ Alternate /\ ResultsOK
  BY <1>2, NoRequestOwes DEF Alternate, ResultsOK
<1>4. ASSUME NEW u \in User, NEW c \in Columns PROVE Chain(u, c, 0)
  <2>1. stats[u][c] = 0
    BY <1>2 DEF Columns
  <2>2. Walk(0, <<>>, 0, u, c)
    BY WalkNone
  <2>3. QED
    BY <1>2, <2>1, <2>2 DEF Chain
<1>5. Column["like"] \in Columns /\ Column["dislike"] \in Columns /\ "battles" \in Columns
  BY DEF Column, Columns
<1>6. ASSUME NEW u \in User, NEW c \in Reactions PROVE ReactionOnWay(u, c)
  <2>1. Chain(u, Column[c], 0) /\ Has(u, c) = 0
    BY <1>2, <1>4, <1>5, ReactionsAre DEF Has
  <2>2. \A h \in Handler : ~Tells(req[h])
    BY <1>2, NoRequestOwes
  <2>3. QED
    BY <2>1, <2>2 DEF ReactionOnWay
<1>7. ASSUME NEW u \in User PROVE BattlesOnWay(u)
  <2>1. Owing(u) = {} /\ Done(u) = {}
    BY <1>2, NoRequestOwes DEF Owing, Done
  <2>2. Cardinality(Owing(u)) = 0 /\ Cardinality(Done(u)) = 0
    BY <2>1, FS_EmptySet
  <2>3. QED
    BY <1>4, <1>5, <2>2 DEF BattlesOnWay
<1>8. QED
  BY <1>1, <1>3, <1>6, <1>7 DEF SettleInv, OnWay

------------------------------------------------------------------------------
(* What it says when all is quiet, and of the battles always                *)

\* With nothing on its way the counters are what they would be.
LEMMA QuietChain ==
  ASSUME TypeInv, Quiet, NEW u \in User, NEW c \in Columns, NEW k \in Nat, Chain(u, c, k)
  PROVE  stats[u][c] = k
<1>1. stream = <<>> /\ batch = <<>> /\ stats[u][c] \in Nat
  BY StatsAre DEF Quiet
<1>2. QED
  BY <1>1, WalkNone DEF Chain

LEMMA SettledIs ==
  ASSUME OneAtATime, SettleInv
  PROVE  StatsSettle
<1> SUFFICES ASSUME Quiet, faults = 0, live, NEW u \in User
             PROVE  stats[u] = [likes    |-> IF reaction[u] = "like" THEN 1 ELSE 0,
                                dislikes |-> IF reaction[u] = "dislike" THEN 1 ELSE 0,
                                battles  |-> Cardinality(Done(u))]
  BY DEF StatsSettle
<1>1. TypeInv /\ OnWay /\ Once
  BY DEF SettleInv, TypeInv, TripOK, OneAtATime, Once
<1>2. Column["like"] = "likes" /\ Column["dislike"] = "dislikes"
  BY DEF Column
<1>3. \A h \in Handler : ~Tells(req[h]) /\ ~Owes(req[h])
  BY DEF Quiet, Idle, Tells, Owes
<1>4. ASSUME NEW c \in Reactions PROVE stats[u][Column[c]] = Has(u, c)
  <2>1. PICK k \in Nat : Chain(u, Column[c], k) /\ k = Has(u, c)
    BY <1>1, <1>3 DEF OnWay, ReactionOnWay
  <2>2. Column[c] \in Columns
    BY <1>2, ReactionsAre DEF Columns
  <2>3. QED
    BY <1>1, <2>1, <2>2, QuietChain
<1>5. stats[u]["battles"] = Cardinality(Done(u))
  <2>1. Owing(u) = {} /\ Cardinality(Owing(u)) = 0
    <3>1. Owing(u) = {}
      BY <1>3 DEF Owing
    <3>2. QED
      BY <3>1, FS_EmptySet
  <2>2. PICK k \in Nat : Chain(u, "battles", k) /\ k + 0 = Cardinality(Done(u))
    BY <1>1, <2>1 DEF OnWay, BattlesOnWay
  <2>3. "battles" \in Columns
    BY DEF Columns
  <2>4. QED
    BY <1>1, <2>2, <2>3, QuietChain
<1>6. stats[u] \in [likes : Nat, dislikes : Nat, battles : Nat]
  BY <1>1 DEF TypeInv, StatsOK
<1>7. /\ stats[u].likes = (IF reaction[u] = "like" THEN 1 ELSE 0)
      /\ stats[u].dislikes = (IF reaction[u] = "dislike" THEN 1 ELSE 0)
      /\ stats[u].battles = Cardinality(Done(u))
  BY <1>2, <1>4, <1>5, ReactionsAre DEF Has
<1>8. QED
  BY <1>6, <1>7

LEMMA BattlesAre ==
  ASSUME IsFiniteSet(Handler), IsFiniteSet(Battle), SettleInv, live, NEW u \in User
  PROVE  stats[u].battles <= Cardinality(Done(u))
<1>1. PICK k \in Nat : Chain(u, "battles", k) /\ k + Cardinality(Owing(u)) <= Cardinality(Done(u))
  BY DEF SettleInv, OnWay, BattlesOnWay
<1>2. PICK b \in Nat : Walk(stats[u]["battles"], batch, b, u, "battles") /\ Walk(b, stream, k, u, "battles")
  BY <1>1 DEF Chain
<1>3. stats[u]["battles"] \in Nat /\ batch \in Seq(Messages) /\ stream \in Seq(Messages)
  BY StatsAre DEF SettleInv, Columns
<1>4. PICK a \in Nat : a = stats[u]["battles"]
  BY <1>3
<1>5. 0 \in Nat /\ 0 <= a /\ 0 <= b
  BY <1>4
<1>6. a <= b /\ b <= k
  BY <1>2, <1>3, <1>4, <1>5, WalkLess
<1>7. PICK d, w \in Nat : d = Cardinality(Done(u)) /\ w = Cardinality(Owing(u))
  BY CardsAre
<1>8. a <= d
  BY <1>1, <1>6, <1>7
<1>9. QED
  BY <1>4, <1>7, <1>8

\* Once both streams are drained and nothing failed, statistics-service has counted
\* for each user what trip-service has.  The events are counted in the order in
\* which they were published, and while one user's reactions follow each other the
\* events of a change are all that separates the counter from the reaction; a
\* battle is finished by one UPDATE, whose request alone owes the event.
THEOREM StatisticsSettle ==
  ASSUME OneAtATime, IsFiniteSet(Handler), IsFiniteSet(Battle)
  PROVE  Spec => []StatsSettle
<1>1. Init => SettleInv
  BY SettleInit
<1>2. SettleInv /\ [Next]_vars => SettleInv'
  BY SettleNext
<1>3. SettleInv => StatsSettle
  BY SettledIs
<1>4. QED
  BY <1>1, <1>2, <1>3, PTL DEF Spec

\* Whatever users send at once and whatever fails, the statistics never count more battles than were finished.
BattlesCounted == live => \A u \in User : stats[u].battles <= Cardinality(Done(u))
THEOREM BattlesNotOvercounted ==
  ASSUME IsFiniteSet(Handler), IsFiniteSet(Battle)
  PROVE  Spec => []BattlesCounted
<1>1. Init => SettleInv
  BY SettleInit
<1>2. SettleInv /\ [Next]_vars => SettleInv'
  BY SettleNext
<1>3. SettleInv => BattlesCounted
  BY BattlesAre DEF BattlesCounted
<1>4. QED
  BY <1>1, <1>2, <1>3, PTL DEF Spec

------------------------------------------------------------------------------
(* The points of a battle                                                   *)

\* The battles that are over, and the requests that will give the point of one.
Finished == UNION {Done(u) : u \in User}
Rating   == {h \in Handler : req[h].pc = "rate"}
\* Every point given or about to be is that of a battle of its own.
RateInv  == /\ TypeInv /\ rating \in [Media -> Nat]
            /\ live => /\ IsFiniteSet(Points)
                       /\ Cardinality(Points) + Cardinality(Rating) <= Cardinality(Finished)

\* A battle is finished when its state says so: its owner is a user.
LEMMA FinishedIn ==
  ASSUME TypeInv, TypeInv'
  PROVE  \A b \in Battle : /\ b \in Finished <=> battle[b].state = "DONE"
                           /\ b \in Finished' <=> battle'[b].state = "DONE"
<1>1. ASSUME NEW B,
             B \in [Battle -> [state : {"UNUSED", "OPEN", "DONE", "GONE"}, by : User \cup {NoUser}]],
             \A x \in Battle : B[x].state \in {"OPEN", "DONE"} => B[x].by \in User,
             NEW b \in Battle
      PROVE  (\E u \in User : B[b] = [state |-> "DONE", by |-> u]) <=> B[b].state = "DONE"
  <2>1. B[b] \in [state : {"UNUSED", "OPEN", "DONE", "GONE"}, by : User \cup {NoUser}]
    BY <1>1
  <2>2. B[b].state = "DONE" => B[b].by \in User /\ B[b] = [state |-> "DONE", by |-> B[b].by]
    BY <1>1, <2>1
  <2>3. ASSUME NEW u \in User, B[b] = [state |-> "DONE", by |-> u]
        PROVE  B[b].state = "DONE"
    BY <2>3
  <2>4. CASE B[b].state = "DONE"
    <3>1. PICK u \in User : u = B[b].by
      BY <2>2, <2>4
    <3>2. B[b] = [state |-> "DONE", by |-> u]
      BY <2>2, <2>4, <3>1
    <3>3. QED
      BY <2>4, <3>2
  <2>5. QED
    BY <2>3, <2>4
<1>2. \A b \in Battle : (\E u \in User : battle[b] = [state |-> "DONE", by |-> u]) <=> battle[b].state = "DONE"
  BY <1>1 DEF TypeInv, BattlesOK
<1>3. \A b \in Battle : (\E u \in User : battle'[b] = [state |-> "DONE", by |-> u]) <=> battle'[b].state = "DONE"
  BY <1>1 DEF TypeInv, BattlesOK
<1>4. \A b \in Battle : /\ b \in Finished <=> \E u \in User : battle[b] = [state |-> "DONE", by |-> u]
                        /\ b \in Finished' <=> \E u \in User : battle'[b] = [state |-> "DONE", by |-> u]
  BY DEF Finished, Done
<1>5. QED
  BY <1>2, <1>3, <1>4

LEMMA FinishedBattles == Finished \subseteq Battle /\ Finished' \subseteq Battle
BY DEF Finished, Done

\* These numbers are numbers.
LEMMA RateCards ==
  ASSUME IsFiniteSet(Handler), IsFiniteSet(Battle)
  PROVE  /\ IsFiniteSet(Rating) /\ Cardinality(Rating) \in Nat
         /\ IsFiniteSet(Finished) /\ Cardinality(Finished) \in Nat
         /\ IsFiniteSet(Rating') /\ Cardinality(Rating') \in Nat
         /\ IsFiniteSet(Finished') /\ Cardinality(Finished') \in Nat
<1>1. \A S \in SUBSET Handler : IsFiniteSet(S) /\ Cardinality(S) \in Nat
  BY FS_Subset, FS_CardinalityType
<1>2. \A S \in SUBSET Battle : IsFiniteSet(S) /\ Cardinality(S) \in Nat
  BY FS_Subset, FS_CardinalityType
<1>3. Rating \in SUBSET Handler /\ Rating' \in SUBSET Handler
  BY DEF Rating
<1>4. Finished \in SUBSET Battle /\ Finished' \in SUBSET Battle
  BY FinishedBattles
<1>5. QED
  BY <1>1, <1>2, <1>3, <1>4

\* Who gives no point and ends no battle leaves the balance as it is, or better.
LEMMA NoPointGiven ==
  ASSUME IsFiniteSet(Handler), IsFiniteSet(Battle), RateInv, TypeInv', rating' = rating,
         Finished' = Finished, Rating' \subseteq Rating, live' => live
  PROVE  RateInv'
<1>1. Points' = Points
  BY DEF Points
<1>2. PICK R, S, P, F : R = Rating /\ S = Rating' /\ P = Points /\ F = Finished
  OBVIOUS
<1>3. Cardinality(S) <= Cardinality(R)
  BY <1>2, RateCards, FS_Subset
<1>4. ASSUME live'
      PROVE  IsFiniteSet(P) /\ Cardinality(P) + Cardinality(S) <= Cardinality(F)
  <2>1. IsFiniteSet(P) /\ Cardinality(P) + Cardinality(R) <= Cardinality(F)
    BY <1>2, <1>4 DEF RateInv
  <2>2. Cardinality(P) \in Nat /\ Cardinality(R) \in Nat /\ Cardinality(S) \in Nat
        /\ Cardinality(F) \in Nat
    BY <1>2, <2>1, RateCards, FS_CardinalityType
  <2>3. QED
    BY <1>3, <2>1, <2>2
<1>5. QED
  BY <1>1, <1>2, <1>4 DEF RateInv

\* A battle ends: it owes its point.
LEMMA WinnerRates ==
  ASSUME IsFiniteSet(Handler), IsFiniteSet(Battle), RateInv, TypeInv', NEW h \in Handler, SetWinner(h)
  PROVE  RateInv'
<1>1. UNCHANGED <<rating, live>> /\ TypeInv /\ req[h].pc = "setWinner"
  BY DEF SetWinner, RateInv, At
<1>2. CASE UNCHANGED battle /\ Finish(h)
  <2>1. Replaced(h, NoRequest)
    BY <1>2 DEF Finish, Replaced
  <2>2. Rating' \subseteq Rating
    BY <1>1, <2>1, ReplacedAt, NoRequestOwes DEF Rating
  <2>3. Finished' = Finished
    BY <1>2 DEF Finished, Done
  <2>4. QED
    BY <1>1, <2>2, <2>3, NoPointGiven
<1>3. CASE CanSetWinner(req[h].battle)
  <2>1. PICK b : b = req[h].battle
    OBVIOUS
  <2>2. /\ b \in Battle /\ battle[b].state = "OPEN" /\ battle[b].by \in User
        /\ battle \in [Battle -> [state : {"UNUSED", "OPEN", "DONE", "GONE"}, by : User \cup {NoUser}]]
        /\ battle' = [battle EXCEPT ![b].state = "DONE"]
    BY <1>1, <1>3, <2>1 DEF SetWinner, CanSetWinner, TypeInv, BattlesOK, RequestsOK, Armed
  <2>3. /\ battle'[b] = [state |-> "DONE", by |-> battle[b].by]
        /\ \A x \in Battle \ {b} : battle'[x] = battle[x]
    BY <2>2
  <2>4. Finished' = Finished \cup {b} /\ b \notin Finished
    <3>1. battle[b].state = "OPEN" /\ battle'[b].state = "DONE"
      BY <2>2, <2>3
    <3>2. \A x \in Battle \ {b} : x \in Finished' <=> x \in Finished
      BY <1>1, <2>3, FinishedIn
    <3>3. b \in Finished' /\ b \notin Finished
      BY <1>1, <2>2, <3>1, FinishedIn
    <3>4. QED
      BY <2>2, <3>2, <3>3, FinishedBattles
  <2> DEFINE new == [NoRequest EXCEPT !.pc = "rate", !.by = req[h].by, !.media = req[h].media]
  <2>50. new.pc = "rate" /\ Replaced(h, new)
    <3>1. new.pc = "rate"
      BY DEF NoRequest
    <3>2. Replaced(h, new)
      BY <1>3 DEF SetWinner, Replaced
    <3>3. QED
      BY <3>1, <3>2
  <2> HIDE DEF new
  <2>5. PICK r : Replaced(h, r) /\ r.pc = "rate"
    <3>1. PICK r : r = new
      OBVIOUS
    <3>2. r.pc = "rate" /\ Replaced(h, r)
      BY <2>50, <3>1
    <3>3. QED
      BY <3>2
  <2>6. Rating' = Rating \cup {h} /\ h \notin Rating
    BY <1>1, <2>5, ReplacedAt DEF Rating
  <2>7. Cardinality(Finished') = Cardinality(Finished) + 1
    BY <2>4, RateCards, FS_AddElement
  <2>8. Cardinality(Rating') = Cardinality(Rating) + 1
    BY <2>6, RateCards, FS_AddElement
  <2>9. Points' = Points
    BY <1>1 DEF Points
  <2>10. ASSUME live'
         PROVE  /\ IsFiniteSet(Points')
                /\ Cardinality(Points') + Cardinality(Rating') <= Cardinality(Finished')
    <3>1. PICK P : P = Points
      OBVIOUS
    <3>2. IsFiniteSet(P) /\ Cardinality(P) + Cardinality(Rating) <= Cardinality(Finished)
      BY <1>1, <2>10, <3>1 DEF RateInv
    <3>3. Cardinality(P) \in Nat
      BY <3>2, FS_CardinalityType
    <3>4. Cardinality(P) + Cardinality(Rating') <= Cardinality(Finished')
      BY <2>7, <2>8, <3>2, <3>3, RateCards
    <3>5. QED
      BY <2>9, <3>1, <3>2, <3>4
  <2>11. QED
    BY <1>1, <2>10 DEF RateInv
<1>4. QED
  BY <1>2, <1>3 DEF SetWinner

\* A point is given: it is owed no more.
LEMMA PointRates ==
  ASSUME IsFiniteSet(Handler), IsFiniteSet(Battle), RateInv, TypeInv', NEW h \in Handler,
         IncrementBattleRating(h)
  PROVE  RateInv'
<1>1. UNCHANGED <<battle, live>> /\ TypeInv /\ req[h].pc = "rate" /\ rating \in [Media -> Nat]
  BY DEF IncrementBattleRating, RateInv, At
<1>2. Finished' = Finished
  BY <1>1 DEF Finished, Done
<1>3. CASE UNCHANGED rating /\ Finish(h)
  <2>1. Replaced(h, NoRequest)
    BY <1>3 DEF Finish, Replaced
  <2>2. Rating' \subseteq Rating
    BY <2>1, ReplacedAt, NoRequestOwes, <1>1 DEF Rating
  <2>3. QED
    BY <1>1, <1>2, <1>3, <2>2, NoPointGiven
<1>4. CASE live
  <2>1. PICK w : w = req[h].media
    OBVIOUS
  <2>2. rating' = [rating EXCEPT ![w] = @ + 1]
    BY <1>4, <2>1 DEF IncrementBattleRating
  <2>3. About(req[h].by, <<"BATTLE_FINISHED">>) # <<>>
    BY AboutOne
  <2>4. PICK r : Replaced(h, r) /\ r.pc = "publish"
    BY <1>4, <2>3, PublishIs DEF IncrementBattleRating
  <2>5. Rating' = Rating \ {h} /\ h \in Rating
    BY <1>1, <2>4, ReplacedAt DEF Rating
  <2>6. Cardinality(Rating') = Cardinality(Rating) - 1
    BY <2>5, RateCards, FS_RemoveElement
  <2>7. rating' \in [Media -> Nat]
    <3>1. rating \in [Media -> Nat]
      BY <1>1
    <3>2. \A n \in Nat : n + 1 \in Nat
      OBVIOUS
    <3>3. QED
      BY <2>2, <3>1, <3>2
  <2>8. PICK P, Q, x : P = Points /\ Q = Points' /\ x = <<w, rating[w] + 1>>
    OBVIOUS
  <2>9. Q \subseteq P \cup {x}
    <3>1. SUFFICES ASSUME NEW m \in Media, NEW n \in 1..rating'[m], <<m, n>> # x
                   PROVE  n \in 1..rating[m]
      BY <2>8 DEF Points
    <3>2. CASE m = w
      <4>1. rating'[m] = rating[m] + 1 /\ rating[m] \in Nat
        BY <1>1, <2>2, <3>2
      <4>2. n # rating[m] + 1
        BY <2>8, <3>1, <3>2
      <4>3. QED
        BY <4>1, <4>2
    <3>3. CASE m # w
      BY <1>1, <2>2, <3>3
    <3>4. QED
      BY <3>2, <3>3
  <2>10. IsFiniteSet(P) /\ Cardinality(P) + Cardinality(Rating) <= Cardinality(Finished)
    BY <1>4, <2>8 DEF RateInv
  <2>11. /\ IsFiniteSet(P \cup {x}) /\ Cardinality(P \cup {x}) <= Cardinality(P) + 1
    <3>1. Cardinality(P) \in Nat
      BY <2>10, FS_CardinalityType
    <3>2. QED
      BY <2>10, <3>1, FS_AddElement
  <2>12. IsFiniteSet(Q) /\ Cardinality(Q) <= Cardinality(P \cup {x})
    BY <2>9, <2>11, FS_Subset
  <2>13. Cardinality(P) \in Nat /\ Cardinality(P \cup {x}) \in Nat /\ Cardinality(Q) \in Nat
    BY <2>10, <2>11, <2>12, FS_CardinalityType
  <2>14. Cardinality(Q) + Cardinality(Rating') <= Cardinality(Finished)
    BY <2>6, <2>10, <2>11, <2>12, <2>13, RateCards
  <2>15. QED
    BY <1>2, <2>7, <2>8, <2>12, <2>14 DEF RateInv
<1>5. QED
  BY <1>3, <1>4 DEF IncrementBattleRating

\* What requests do else, and what happens beside them.
LEMMA OthersRate ==
  ASSUME IsFiniteSet(Handler), IsFiniteSet(Battle), RateInv, TypeInv', NEW h \in Handler,
         \/ Request(h) \/ HandlerFails(h) \/ CommitReaction(h) \/ SavePin(h) \/ PublishEvent(h)
  PROVE  RateInv'
<1>1. UNCHANGED <<rating, battle, live>> /\ TypeInv
  BY DEF Request, SubmitBattleResult, SetReaction, UpdatePin, PublishGeoRequestForTrip, DeleteTrip,
     LeaveTrip, RemoveTrip, HandlerFails, CommitReaction, SavePin, PublishEvent, tripVars,
     battleVars, RateInv
<1>2. ASSUME NEW r, Replaced(h, r), r.pc # "rate" PROVE Rating' \subseteq Rating
  BY <1>1, <1>2, ReplacedAt DEF Rating
<1>3. ASSUME Request(h) PROVE Rating' \subseteq Rating
  <2>1. ASSUME NEW u, NEW c, SetReaction(h, u, c)
        PROVE  Rating' \subseteq Rating
    <3> DEFINE r == [NoRequest EXCEPT !.pc = "commit", !.by = u, !.old = reaction[u], !.new = c]
    <3>1. r.pc # "rate"
      BY DEF NoRequest
    <3>2. Replaced(h, r)
      BY <2>1 DEF SetReaction, Replaced
    <3> HIDE DEF r
    <3>3. QED
      BY <1>2, <3>1, <3>2
  <2>2. ASSUME NEW b, NEW m, SubmitBattleResult(h, b, m)
        PROVE  Rating' \subseteq Rating
    <3> DEFINE r == [NoRequest EXCEPT !.pc = "setWinner", !.by = battle[b].by, !.battle = b,
                                      !.media = m]
    <3>1. r.pc # "rate"
      BY DEF NoRequest
    <3>2. Replaced(h, r)
      BY <2>2 DEF SubmitBattleResult, Replaced
    <3> HIDE DEF r
    <3>3. QED
      BY <1>2, <3>1, <3>2
  <2>3. ASSUME NEW u, NEW p, NEW pl, UpdatePin(h, u, p, pl)
        PROVE  Rating' \subseteq Rating
    <3> DEFINE r == [NoRequest EXCEPT !.pc = "savePin", !.by = u, !.edit = TRUE,
                                      !.at = [NoPins EXCEPT ![p] = pl]]
    <3>1. r.pc # "rate"
      BY DEF NoRequest
    <3>2. Replaced(h, r)
      BY <2>3 DEF UpdatePin, Replaced
    <3> HIDE DEF r
    <3>3. QED
      BY <1>2, <3>1, <3>2
  <2>4. ASSUME NEW u, PublishGeoRequestForTrip(h, u)
        PROVE  Rating' \subseteq Rating
    <3> DEFINE r == [NoRequest EXCEPT !.pc = "publish", !.by = u, !.edit = TRUE,
                                      !.out = <<GeoRequest(place)>>]
    <3>1. r.pc # "rate"
      BY DEF NoRequest
    <3>2. Replaced(h, r)
      BY <2>4 DEF PublishGeoRequestForTrip, Replaced
    <3> HIDE DEF r
    <3>3. QED
      BY <1>2, <3>1, <3>2
  <2>5. ASSUME NEW op, NEW u, NEW out, RemoveTrip(h, op, u, out)
        PROVE  Rating' \subseteq Rating
    <3> DEFINE r == [NoRequest EXCEPT !.pc = "deleteTrip", !.by = u, !.edit = TRUE, !.out = out]
    <3>1. r.pc # "rate"
      BY DEF NoRequest
    <3>2. Replaced(h, r)
      BY <2>5 DEF RemoveTrip, Replaced
    <3> HIDE DEF r
    <3>3. QED
      BY <1>2, <3>1, <3>2
  <2>6. QED
    BY <1>3, <2>1, <2>2, <2>3, <2>4, <2>5 DEF Request, DeleteTrip, LeaveTrip
<1>4. ASSUME ~Request(h) PROVE Rating' \subseteq Rating
  <2>1. ASSUME Finish(h) PROVE Rating' \subseteq Rating
    <3>1. Replaced(h, NoRequest)
      BY <2>1 DEF Finish, Replaced
    <3>2. QED
      BY <1>2, <3>1, NoRequestOwes
  <2>2. ASSUME NEW out, Publish(h, out)
        PROVE  Rating' \subseteq Rating
    <3>1. CASE out = <<>>
      BY <2>1, <2>2, <3>1 DEF Publish, Finish
    <3>2. CASE out # <<>>
      BY <1>2, <2>2, <3>2, PublishIs
    <3>3. QED
      BY <3>1, <3>2
  <2>3. QED
    BY <1>4, <2>1, <2>2 DEF HandlerFails, CommitReaction, SavePin, PublishEvent
<1>5. Finished' = Finished
  BY <1>1 DEF Finished, Done
<1>6. QED
  BY <1>1, <1>3, <1>4, <1>5, NoPointGiven

LEMMA RateNext ==
  ASSUME IsFiniteSet(Handler), IsFiniteSet(Battle), RateInv, [Next]_vars
  PROVE  RateInv'
<1>1. TypeInv /\ TypeInv'
  BY TypeNext DEF RateInv
<1>2. ASSUME NEW h \in Handler, DeleteTripRow(h) PROVE RateInv'
  BY <1>1, <1>2 DEF DeleteTripRow, RateInv, battleVars
<1>3. ASSUME NEW u \in User, NEW b \in Battle, StartBattle(u, b) PROVE RateInv'
  <2>1. UNCHANGED <<rating, live, req>>
    BY <1>3 DEF StartBattle
  <2>2. battle'[b].state = "OPEN" /\ \A x \in Battle \ {b} : battle'[x] = battle[x]
    BY <1>1, <1>3 DEF StartBattle, TypeInv, BattlesOK
  <2>3. Finished' = Finished
    <3>1. battle[b].state = "UNUSED"
      BY <1>3 DEF StartBattle
    <3>2. \A x \in Battle : x \in Finished' <=> x \in Finished
      BY <1>1, <2>2, <3>1, FinishedIn
    <3>3. QED
      BY <3>2, FinishedBattles
  <2>4. Rating' = Rating
    BY <2>1 DEF Rating
  <2>5. QED
    BY <1>1, <2>1, <2>3, <2>4, NoPointGiven
<1>4. CASE ConsumeStats \/ StatsFails \/ ConsumeGeo \/ GeoFails \/ UNCHANGED vars
  <2>1. UNCHANGED <<rating, battle, live, req>>
    BY <1>4 DEF ConsumeStats, ReadStats, Increment, DeleteByTripID, PublishGeoEvent, ResolvePin,
       StatsFails, ConsumeGeo, MirrorRows, UpdateLocationNames, UpsertTripLocations, GeoFails, vars,
       tripVars, battleVars
  <2>2. Finished' = Finished /\ Rating' = Rating
    BY <2>1 DEF Finished, Done, Rating
  <2>3. QED
    BY <1>1, <2>1, <2>2, NoPointGiven
<1>5. QED
  BY <1>1, <1>2, <1>3, <1>4, WinnerRates, PointRates, OthersRate DEF Next, Step

\* However often the result of a battle is sent and whatever fails, it gives one point
\* and counts once in the statistics, for any number of battles, media and users.
THEOREM BattlesCountOnce ==
  ASSUME IsFiniteSet(Handler), IsFiniteSet(Battle)
  PROVE  Spec => []BattleCountedOnce
<1>1. Init => RateInv
  <2> SUFFICES ASSUME Init PROVE RateInv
    OBVIOUS
  <2>1. rating = [m \in Media |-> 0] /\ req = [h \in Handler |-> NoRequest]
    BY DEF Init
  <2>2. Points = {} /\ Rating = {}
    BY <2>1, NoRequestOwes DEF Points, Rating
  <2>3. Cardinality(Finished) \in Nat
    BY RateCards
  <2>4. QED
    BY <2>1, <2>2, <2>3, TypeInit, FS_EmptySet DEF RateInv
<1>2. RateInv /\ [Next]_vars => RateInv'
  BY RateNext
<1>3. RateInv => (live => Cardinality(Points) <= Cardinality(Finished))
  <2> SUFFICES ASSUME RateInv, live PROVE Cardinality(Points) <= Cardinality(Finished)
    OBVIOUS
  <2>1. IsFiniteSet(Points) /\ Cardinality(Points) + Cardinality(Rating) <= Cardinality(Finished)
    BY DEF RateInv
  <2>2. Cardinality(Points) \in Nat
    BY <2>1, FS_CardinalityType
  <2>3. QED
    BY <2>1, <2>2, RateCards
<1>4. Spec => []RateInv
  BY <1>1, <1>2, PTL DEF Spec
<1>5. RateInv /\ BattlesCounted => BattleCountedOnce
  BY <1>3 DEF BattlesCounted, BattleCountedOnce, Finished
<1>6. QED
  BY <1>4, <1>5, BattlesNotOvercounted, PTL
=============================================================================
