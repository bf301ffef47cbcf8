# TLA+ models of the Pinz backend

Pinz is a travel diary: a trip has pins on a map, a pin has photos and videos,
a trip has participants who fill it together. The logic is in five Go services
(`src/Backend`). **trip-service** holds nearly all the state that several people,
background workers and timers change at the same time; **statistics-service**,
**notification-service** and **auth-service** work beside it through Redis
streams, and the ML service through NATS. These modules model the flows statement by
statement, check them with TLC and prove part of what they promise with TLAPS.

| module | what it is |
|---|---|
| `UploadSession` | abstract specification: what the table `pin_upload_sessions` promises |
| `PinUpload` | the pin-upload flow: handlers, consumer, ML results, cleanup cron, pin deletion |
| `AddMedia` | the add-media flow: participants in one shared session, the initiator, ML results, cron |
| `TripLifecycle` | abstract specification: what the creation of a trip promises |
| `TripCreation` | groups, ML task and result, review, finalization, the event stream and the websocket |
| `TripAccess` | participants, admin, privacy with its worker, feed, favourites, deletion |
| `TripCovers` | the cover of a trip and the objects in S3 behind covers and photos |
| `EventPipeline` | reactions, battles, locations: trip-service and statistics-service over two streams |
| `Accounts` | auth-service: registration, passkey login, tokens, change of address, and its e-mails |
| `Notifications` | notification-service next to `Accounts`: device tokens, trip events, the daily scheduler |
| `PinUploadProofs`, `AddMediaProofs`, `TripCreationProofs`, `TripAccessProofs`, `TripCoversProofs`, `EventPipelineProofs`, `NotificationsProofs` | theorems about these modules; two of them are that `PinUpload` implements `UploadSession` and `TripCreation` implements `TripLifecycle` |
| `PinUploadSerialProofs` | theorems about pin uploads while requests come one after the other |
| `MCPinUpload`, `MCAddMedia`, `MCTripCreation`, `MCTripAccess`, `MCTripCovers`, `MCEventPipeline`, `MCNotifications` | the instances for TLC: symmetry and sets of requests; each `.cfg` gives the constants |

## 1. The system

### Components

| component | state | operations | in the models |
|---|---|---|---|
| pin-upload sessions (`pin_upload*.go`) | `pin_upload_sessions`, `media`, `pins`, the stream `pinz:trip:pin_upload:tasks` | start, upload-urls, commit, process, finalize, cancel | `PinUpload` |
| pin-upload consumer (`pin_upload_consumer.go`) | a Redis Streams consumer group | read, dedup, snapshot, compare-and-set of the status, publish the ML task, ack | `PinUpload` |
| ML results (`ml_results_consumer.go`, `nats_broker.go`) | a JetStream consumer | merge a result into the draft of a session; move a trip to review | `PinUpload` (sessions), `TripCreation` and `AddMedia` (trips) |
| pin-upload cron (`pin_upload_cleanup.go`) | - | close sessions idle for 72 h, delete closed rows after 30 days | `PinUpload` |
| pins (`pin_crud.go`) | `pins`, `media.pin_id`, `pins.media_count` | update, delete, remove a media | `PinUpload`, `EventPipeline` (partly) |
| add-media session (`trip_service.go` 1800-2760) | `trips.status`, `add_media_sessions`, `media`, `pins` | start, commit, grouping, add more, apply groups, takeover, confirm, cancel | `AddMedia` |
| add-media cron (`session_cleanup.go`) | - | cancel sessions idle for 72 h | `AddMedia` |
| trip creation (`trip_service.go` 1232-1703) | `trips.status`, `media`, `pins` | group, apply, finalize, review edits | `TripCreation` |
| participants (`trip_service.go` 141-232, 923-1230) | `trips`, `trip_participants`, favourites | create, invite, join, leave, remove, transfer, save, delete, publish | `TripAccess` |
| covers (`trip_service.go` 795-921, 1764-1795) | `trips.cover_url`, objects in S3 | upload, confirm, delete; the review and whole-row writes set it, too | `TripCovers` |
| privacy (`worker.go`, `privacy_repository.go`) | a level per user and object, and the aggregate on the object | upsert, aggregate in the handler and again in a worker | `TripAccess` |
| reactions, photo battles (`social_repository.go`, `battle.go`) | reactions and counters, `media_battles`, `media.battle_rating` | like, dislike, start, submit | `EventPipeline` |
| geocoding (`geo_consumer.go`, `worker.go` of statistics-service) | location registries on both sides | two consumers that answer each other over streams | `EventPipeline` |
| statistics (statistics-service) | counters per user, `event_log`, visited locations | the consumer of `pinz:stats:events` | `EventPipeline` |
| authentication (auth-service) | users, refresh tokens, passkeys; one-time codes and challenges in Redis | register, log in, log out, change the address, delete the account | `Accounts` |
| notifications (notification-service) | device tokens, `notification_log`, `last_run` | consume trip events, push, send e-mails, daily scheduler | `Notifications` |
| API gateway | none, but the open websockets | HTTP to gRPC, websocket fan-out | the fan-out in `TripCreation`; the rest is a stateless translation |
| recommendations, generated trips | `trips.is_generated`, snapshots in Redis | score, save, soft-delete after a grace period | not modelled: arithmetic over snapshots, and one conditional UPDATE |
| iOS client | - | the requests | not modelled: the handlers accept its requests in any order |
| deployment, load tests | - | - | not modelled: configuration |

### How they interact

Requests enter through the gateway and run as goroutines of trip-service; two
requests of two participants on one trip interleave at every SQL statement, and
during a rolling update two pods run side by side. There are hardly any
transactions: a handler is a sequence
of autocommitted statements, and correctness rests on partial unique indexes
(`ON CONFLICT DO NOTHING`), on `WHERE closed_at IS NULL` and
`WHERE processing_status = expected` clauses, and on two advisory locks.

- `ProcessPinUpload` hands a session over to the consumer through a Redis stream;
  the consumer, `ApplyGroupsAndProcess` and `AddMediaApplyGroupsAndProcess` hand work
  to the ML service through NATS JetStream, which may deliver a result more than
  once and long after the session it is about is gone.
- The end of a trip's processing is an event on the trip's own stream, which
  the gateway relays to websockets; the stream is deleted before the event is added.
- Reactions, battles and requests to locate pins go over `pinz:stats:events`
  to statistics-service, whose answers come back over `pinz:trip:geo_events`.
- Choices of privacy go over `pinz:trip:privacy:events` to a worker of trip-service
  that recomputes what the handler has just computed.
- Changes of a trip go over `pinz:trip:events` to the push worker, and codes over
  `pinz:auth:email:tasks` to the e-mail worker, both in notification-service.
- Two crons of trip-service close what is abandoned, and a scheduler in
  notification-service runs once a day, all driven by tickers while requests go on.

All the consumers of Redis streams read with `>`: what an error or a crash leaves
unacknowledged stays in the pending list and is not read again.

### What is hard

- Checks and writes are apart. `FinalizePinUpload` checks the session first and
  closes it last; a late ML result overwrites a status it read before; `UpdateTrip`
  writes a whole row it read earlier.
- A step in the middle may fail or the process may die; some failures abort the
  handler, others are logged and the handler goes on.
- Queues: at-least-once delivery from JetStream, at-most-once from Redis streams.
- The same value computed in two places: levels in the handler and in the worker,
  counters in two databases, locations in two registries.
- Rows disappear under a handler: pins with `ON DELETE CASCADE / SET NULL`,
  sessions by the janitor, media by cancel and cron, trips by their last participant.
- Keys in Redis that expire between two requests of one flow, and which the next
  request with the same key overwrites.
- What must eventually happen: a session in `PROCESSING` becomes reviewable, an
  abandoned session is closed in whatever state it was left, a client learns of the
  end of processing, a place gets its name, a code arrives.

PROJECT.json lists these as hazards, each at its line with the properties that
are about it.

### What makes each component correct

- *pin-upload sessions*: one open session per target; scheduled once; a closed
  session never changes; no empty pins; `media_count` is
  right; the trip's limit holds; attached photos stay.
- *add-media*: one open session per trip; a closed one never changes; what the
  trip had before is neither deleted nor taken off its pins; cancel undoes the
  session; no pin stays hidden; every abandoned session ends.
- *trip creation*: the stages come in order and a ready trip is left alone, but for
  a review that overtakes an early end; the review shows what was asked for; what the
  client wrote in it is kept; the client is told of the end, and not too early.
- *access*: a trip with participants has exactly one admin; the stored level is
  the aggregate of the choices; public is by consent; a saved trip is not destroyed.
- *covers*: a cover a client brought is not deleted by bringing it, or another, again.
- *events*: counters are the numbers of reactions, on both sides; a battle counts
  once; what was counted of a trip is forgotten when it is deleted; places get their names.
- *accounts*: an address is proven by who has it; a session belongs to whose
  passkey opened it; codes arrive.
- *notifications*: one push per event and device; who was removed is told.

## 2. Plan

Done: all the modules of the table above, in the order pin-upload, add-media,
trip creation with its refinement, access, covers, events, accounts and notifications.

Left, in this order:

1. Proofs: the half of `OriginalsKept` about pins, which needs a weaker statement or two
   requests at most (section 9).
2. A composition of `AddMedia` and the media half of `PinUpload`: cancel and the
   add-media cron delete every media of the trip without a pin, which
   includes what a pin-upload request inserted meanwhile. `LooseMedia` of
   `AddMedia` stands for them today.
3. The remaining columns an ML result writes (flags, similar groups).

## 3. The pin-upload flow

### State

| variable | code |
|---|---|
| `status`, `target`, `closed`, `stale`, `draft` | the row of `pin_upload_sessions`: `processing_status` (`UNUSED`/`DELETED` when there is no row), `target_pin_id`, `closed_at` + `close_reason`, `last_activity_at` older than 72 h, `draft_snapshot` |
| `rows`, `used`, `owner`, `pinOf` | `media`: ids that exist, ids ever inserted, `upload_session_id`, `pin_id` |
| `pinRow`, `count` | `pins` and `pins.media_count` |
| `tripReady` | `trips.status = READY`, changed by the other flows |
| `stream`, `wk` | the task stream and what each consumer goroutine has read of it |
| `mlq`, `ml` | deliveries left of an ML result, and the handler of the current one |
| `cron`, `req`, `faults` | the cleanup pass, the requests in flight, the failures so far |

A request is a record with a program counter `pc`, the session and pin it is
about, and the ids or count it has read. The first action of a handler
(`PinUploadStart`, `FinalizePinUpload`, ...) evaluates its guards; each following
action is one statement, transaction or queue operation, and any other actor may
run in between. Reads made back to back before the first write are one step:
splitting them would only let a guard be older, which the steps that follow
already allow. A transaction with a row lock or an advisory lock is split where the
lock lets others in: `CommitInUploadSession` locks the *session*, counts, inserts.
The other modules follow the same form.

`UploadSession` is the promise of the table to its readers: open, advance, shut,
remove. `Life == INSTANCE UploadSession` in `PinUpload` maps `status`, `target` and
`closed` to themselves and leaves the rest out.

### What is abstracted

Names, descriptions, categories, coordinates and times of pins; URLs and S3 keys
(deleting an object changes no row); the video limit, which is the media limit
with a filter; websocket events; the participants and the trip's owner, constant
here. `content_hash` is modelled by what it is: no code path fills it, so
`ContentHash` is constant and `Duplicates` is empty. The consumer reads up to
ten messages, which is the whole stream of an instance. The janitor removes
closed rows after thirty days, so never a row that a request or message in
flight still names.

### Runs

| run | instance | what it shows | states |
|---|---|---|---|
| `PinUploadRace` | 1 session on a pin with a photo, 3 media of which 2 fit, 2 requests, 2 consumers, each ML result delivered twice, cron, a failure | `TypeOK`, `TripWithinLimit`, `AtMostOneTask`, `ProcessingIsOwned`, `AttachedIsKept`, `ClosedIsFinal`, `ImplementsLifecycle` | 2.04 M |
| `PinUploadOneClient` | 2 sessions, 3 media, 2 pins, 1 request at a time, all operations | `NoEmptyPin`, `CountAccurate`, `ClosedHasNoOrphans` | 899 k |
| `PinUploadProgress` | 2 sessions, 1 media, 1 request, 1 consumer, cron, an error or a lost ML task, fairness | `Processed`, `AbandonedIsClosed` | 122 k |

Two of everything that can be in a race (requests, consumers, deliveries), media so
that the limit is reached, and a failure anywhere: the hazards listed are all pairs of
actors. What two sessions share is the target, which the partial unique index guards
(the theorem `OneSessionPerTarget`), and the media of the trip. The
runs separate the properties the code keeps in any interleaving from those
it keeps only with one request at a time (`PinUploadOneClient`); the races that break the latter
are configurations of section 10, not runs. `TripWithinLimit` in `PinUploadRace` has one
session, where the lock is enough; two sessions break it (`PinUploadLimitRace`).

Bounds: ids run out (`Session`, `Media`, `Pin`), `MaxFaults` failures of the
`FaultKinds` of the run, `MaxDeliver` deliveries of a result. Every
configuration of the project has `CHECK_DEADLOCK FALSE`: with the ids used up and no
request in flight an idle service is right to do nothing.

### Fairness

`FairSpec` has weak fairness for each handler (a goroutine runs to completion
unless it fails, and `HandlerFails` is a step of its own), each consumer (a
polling loop that acknowledges also what failed), the ML result handler (called
by the JetStream client) and the cleanup (a ticker). Nothing is assumed of
clients. `Processed` is checked with errors of the pipeline and lost ML tasks
but not with `crash`: a consumer that dies with messages read leaves them
pending for ever and the session in `PROCESSING` until the cron's 72 hours, and so does a task
that is not published. That the cron then closes it is `AbandonedIsClosed`: the run has the
failures of `Processed`, and the configuration `PinUploadAbandoned` any two failures
of any kind (296 k states, it passes).

## 4. The add-media flow

### State

| variable | code |
|---|---|
| `tripStatus` | `trips.status`, `ADD_MEDIA_` left out; `REVIEW` is `ADD_MEDIA_DRAFT_FINAL_REVIEW` |
| `state`, `existing`, `pending`, `initiator`, `overdue`, `stale` | the row of `add_media_sessions`: open or its close reason, `existing_media_ids`, `pending_existing_attachments`, `current_initiator_user_id`, assigned over an hour ago, idle for 72 h |
| `rows`, `used`, `pinOf` | `media` and `media.pin_id` |
| `session` | the session a media was committed in: a ghost, no column keeps it |
| `pinRow`, `draftOf` | `pins` and `pins.add_media_session_id` (a draft pin) |
| `mlq`, `ml` | ML results still to be delivered; the session whose result has been checked but not applied |
| `req`, `todo`, `faults` | requests in flight and the cron's pass, the sessions the cron has listed, failures |

The cron is one more process in `req`: `cleanupOne` runs the statements of
`AddMediaCancel` (`CloseStep`), and goes on where the handler would return.
`AddMediaApplyGroups` fixes at the start what it will delete and attach, as the
handler does from the request and from `existing_media_ids`; the statements follow one by
one. `DeleteOrphanSessionMedia` selects ids, then deletes them by id: two steps.
`HandlerFails` is a handler that stops anywhere (an error, a cancelled context, a
crash); `LoggedFailure` is a statement whose error is only logged, at the steps
in `Logged`.

### What is abstracted

The descriptive columns of a pin and `media_count` (this flow writes it once, with
the length of the list it attaches); presigned URLs, except that presigning may
fail after the session is created; notifications and websocket events. One
group for an existing pin and one for a new pin stand for the groups of a
request. `dedupAddMediaByHash` finds nothing, for lack of hashes. The commit
transaction is one step: its lock is the session's, and a trip has one session.
Only the configuration with an ML broker is modelled; with `syncProcessing` the
handler finalizes at once. No request lives for an hour, so `OneHour` and
`SeventyTwoHours` wait for the requests of the session. Participants are constant.
`LooseMedia` are media without a pin that another flow has in the trip at the start.

### Runs

| run | instance | what it shows | states |
|---|---|---|---|
| `AddMediaOneClient` | 2 sessions, 3 media, 2 users, 1 request at a time, all operations, a failed ML publication | `CancelUndoes`, `DraftsAreOpen` | 311 k |
| `AddMediaProgress` | 2 sessions, 2 requests, loose media of another flow, cron, any one failure, fairness | `OneActive`, `ClosedIsFinal`, `OriginalsKept`, `AbandonedIsClosed` | 461 k |
| `AddMediaLateResult` | 1 session, 1 request, 1 result | refutes `OnlyFromProcessing` | - |

Two requests at once are what any of the races needs, two sessions are needed for
what survives a session, and one session for what happens within it; two users
matter only for the takeover, which `AddMediaOneClient` has. A further
configuration, `AddMediaRace`, has two requests at once that apply groups to one
session and their two results, and the cron in the middle of each; `TypeOK`, `ClosedIsFinal`
and `OriginalsKept` hold there (1.36 M states). `OriginalsKept` is checked as long as nothing
has failed: when `existing_media_ids` cannot be read the cron goes on with an empty list
and deletes also original media without a pin; the failure is in the model
(`CleanupOne`) and the limit of the property is that. `CancelUndoes` and
`DraftsAreOpen` hold with one request at a time; races between a cancel and a
commit or an apply leave media or draft pins behind (section 10).

### Fairness

Weak fairness for each handler, which completes or fails, and for the cron, driven by
a ticker. `AbandonedIsClosed` needs no more: it is checked with sessions whose
trip never left `READY` because presigning failed, and that no request can end.

## 5. The creation of a trip

### State

| variable | code |
|---|---|
| `mode` | `ML_ENABLED`: `"ml"` sends a task, `"sync"` finalizes in the handler |
| `status` | `trips.status`; `DRAFT` stands for `UPLOADING` too, which differs only in whether the client announced files |
| `place` | the row of a media: `UNUSED`, `DELETED`, `NoPin` or its `pin_id` |
| `pins`, `count`, `name` | `pins`, `pins.media_count`, and whose `pins.name` is: the default, the client's or a suggestion of ML |
| `tasks`, `results`, `con` | the NATS subjects of tasks and results, and where the consumer of results is |
| `log`, `base` | the events ever put on the trip's stream, and how many of them were deleted |
| `conn` | a websocket: how far it has read and what it has been told |
| `req`, `faults` | the requests in flight, the failures so far |

`ApplyGroupsAndProcess` creates a pin, attaches its media, creates the next
(`CreatePin`, `AssignMedia`); the client may call it again after a failure and group
again what is in a pin already. `finalizeProcessing` is written once
(`Finalizing`) and run by the consumer or, in `"sync"` mode, by the handler. A
result is acknowledged last, so a crash delivers it again (`ConsumerCrashes`). The
add-media flow processes the trip a second time and is summarised by `AddMediaApply` and
`AddMediaConfirm`. The location request `finalizeProcessing` sends is in `EventPipeline`.

A client finalizes whenever `FinalizeTrip` lets it, which is in review and already in
`PROCESSING`. The result of the ML service may then find the trip ready and is dropped; but
when it had read `PROCESSING` before, it writes the review over `READY`, as
`finalizeProcessing` has no condition (`TripReadyUndone`, section 10). Its suggestions, too, may
replace names the client gave before the review came.

`Flow == INSTANCE TripLifecycle` maps the status to a stage and the media to
their pins: photos are collected, grouped, processed, reviewed; no stage is gone
back to, and a ready trip's photos stay as they are. The one exception has a stage of its
own: a trip that is ready while a result is about to write its review is `"overtaken"`, and
only from there does it come back.

### What is abstracted

The columns of pins and trips that only describe them; the video limit; S3 keys; the
cover a finalization may choose, which is in `TripCovers`; the dedup of media, which finds
nothing for lack of hashes. One suggestion per pin, which names it or not. `CreateTrip` is in `TripAccess`; the
uploads in between change no row.

### Run

| run | instance | what it shows | states |
|---|---|---|---|
| `TripCreation` | 2 media, 2 pins, 1 request at a time, 1 websocket, both modes, one failure, 2 events, fairness | `ReviewedPinsAreFull`, `UserNameKept`, `CompletedIsTrue`, `ImplementsLifecycle`, `ClientLearns` | 2.04 M |

The actors in a race are the client, the consumer and the gateway; two media in two
pins are what grouping, rejecting and grouping again needs; two events are one
processing by each flow, or one repeated. The failure may be a lost
publication, a crash of the consumer at any step or a handler that stops.

Fairness: handlers, the consumer and `finalizeProcessing` run on, the ML service
answers what it was sent and the gateway keeps reading; clients do nothing they
do not want to. `ClientLearns` excuses a failure, as a task that could not be
published leaves the trip in `PROCESSING` for ever (section 10), and a trip that somebody
finalizes before its processing ends, of which no event tells.
`ReviewedPinsAreFull` and `UserNameKept` excuse failures, too: a grouping that failed half-way
and is repeated leaves empty pins, and a result that is delivered again brings
its suggestions again.

## 6. Access to a trip

### State

| variable | code |
|---|---|
| `trip` | the row of `trips`: none yet, live, `is_soft_deleted`, or gone |
| `member`, `admin`, `invited` | `trip_participants`, those with `is_admin`, an invitation that has not expired |
| `entry`, `level` | a choice per user in `trip_privacy`, `pin_privacy`, `media_privacy`, and `privacy_level` of the trip and its photos |
| `published` | `trips.is_published` |
| `fav` | who saved the trip |
| `events`, `wk` | the stream of the privacy worker, and what the worker has read and not written |
| `req`, `faults` | the requests in flight, the handlers that stopped half-way |

A level is computed three times over: by the handler that stores a choice, by
the worker that gets its event, and by the ML service when it restricts a photo. Each
reads the entries first and writes the level later; `UpdateTrip` and `PublishTrip`
read the whole row and write it back.

`SetAdmin` is two statements (`ClearAdmin`, `SetAdmin`), and who becomes admin is read
before. When the last participant leaves, the row is deleted whether or not it is
saved by others, and no event tells; `DeleteTrip` asks first, which is what
`SavedSurvives` says. Photos uploaded while the trip is public start public
without an entry; the model starts them private.

### Runs

| run | instance | what it shows | states |
|---|---|---|---|
| `TripAccessRace` | 2 users, 2 requests at once, 1 photo, the worker and the ML service, 2 events, a handler that stops; no whole-row writes | `TypeOK`, `LevelSettles`, `PublicByConsent` | 2.16 M |
| `TripAccessOneClient` | 3 users, 1 request at a time, all operations | `OneAdmin`, `SavedSurvives` | 105 k |

Two requests and the worker give three writers of one level. With whole-row
writes `LevelSettles` fails (`TripPrivacyLost`, section 10), which is why the race
leaves them out and the theorem of section 9 assumes so. Three users are an admin, a
successor and one who saved the trip or is chosen instead. `OneAdmin` and `SavedSurvives` hold
with one request at a time; `TripAdminLost` and `TripSavedLost` (section 10) are the races that break
them. All properties
are of states in which the handlers are done, or of single steps; there is no liveness.

### Covers

`TripCovers` has the cover apart from the rest: it shares no state with the levels and the
people of the trip but the row.

| variable | code |
|---|---|
| `exists`, `cover` | the row of `trips` and its `cover_url`, a key of S3 |
| `photos` | rows of `media` that are images, by their S3 keys |
| `objects` | what is in S3 |
| `ops` | the operations of this behaviour, one of `Mixes`; with `"serial"` one request at a time |
| `upload` | a ghost per key: uploaded, and how it was last confirmed: once, again while its object was there, or when it was gone (`"stale"`) |
| `req`, `faults` | a request with the key it will write and the object it will delete |

Any participant may confirm any key that was uploaded, any number of times, and
`ConfirmTripCoverUpload` first deletes the object of the cover it read, unless that is the key it
confirms. A review without a cover takes a photo, by the key of its media
(`FirstImage`), and a review, `UpdateTrip` and `PublishTrip` write the cover they read back with
the row (`WriteRow`). `RemoveMediaFromPin` and a review delete rows of photos and then their objects; all
deletions in S3 are best effort.

| run | instance | what it shows | states |
|---|---|---|---|
| `TripCovers` | 3 keys, 1 photo, 3 requests, one that stops; either one request at a time of every kind, or confirmations, deletions and removals at once | `CoverExists`, `CoverStays` | 3.22 M |

What the code keeps is narrow, and the two properties say how narrow. `CoverStays`, for one request
at a time: a key whose object was there when it was last confirmed keeps it. A key that is confirmed
after another one replaced it is a cover without an object, and so is a photo that became
the cover and is then removed: `CoverDangles` (section 10) has both, and `TripPhotoLost` a photo whose
object goes because it was the cover. `CoverExists`, for
confirmations and deletions at once: a key that was confirmed once only. Two requests that both confirm one
key, or a whole row written back, break that; a request that stopped between S3 and the
row leaves a cover without an object, hence `faults = 0` in both.

## 7. Reactions, battles and locations

### State

| variable | code |
|---|---|
| `reaction`, `likes`, `dislikes` | the reaction of each user, and the counters of `trips` |
| `battle`, `rating` | `media_battles`: whose and whether finished; `media.battle_rating` |
| `place`, `name` | the coordinates of a pin, as the place they resolve to, and `pins.location_name` |
| `mirror`, `located` | trip-service's copies: the registry of locations, and those of the trip |
| `stream`, `batch`, `found` | `pinz:stats:events`: not read, read by the statistics consumer, and the pins of the message at hand it has resolved |
| `stats`, `visited` | statistics-service: counters per user, locations the trip visits |
| `geo`, `gpc` | `pinz:trip:geo_events`, and where trip-service's consumer is with its message |
| `live`, `req`, `faults` | the row of the trip exists; requests in flight; failures |
| `ops` | the operations of this behaviour: one of `Mixes` |

`SetReaction` is a transaction that reads without a lock (`SetReaction`,
`CommitReaction`) and publishes one event, or two when a reaction is replaced; the
statistics consumer applies them later. `SubmitBattleResult` sets the winner by a
compare-and-set, then the rating, then the event. A pin that is saved asks for its location;
the answer is applied by `MirrorRows`, `UpdateLocationNames` and
`UpsertTripLocations`, each a step, its lists in any order, as they come out
of a Go map. Both consumers ask an event log before they apply a message; as a message
is delivered once, the logs never know it and are left out of the state.

The geocoder is external: a function from places to cities and countries. Its cache
and the search are left out, as are the other counters, which step like the ones here.

### Run

| run | instance | what it shows | states |
|---|---|---|---|
| `EventPipeline` | 2 users, 2 requests at once, 1 pin, 2 media, 1 battle, 1 city in 1 country, 3 messages, a failure, fairness | `CountsMatch`, `StatsSettle`, `BattleCountedOnce`, `NamesArrive`, `DeletionForgets` | 897 k |

A behaviour mixes reactions with battles, reactions with leaving, or pins with
edits and the deletion of the trip: the operations of different mixes share no
state but the queue, whose order within a mix is what matters. Three messages are
a reaction, its replacement and one of another user, or a location request, an
edit and a deletion. One mix has requests about pins, the deletion and a departure in any
order at once (`"race"`). A user sends one reaction at a time (not with `"twice"`), and `NamesArrive` takes
one request at a time that moves a pin (not with `"race"`): two ask for locations in another order
than they wrote. Section 10 says what happens otherwise.

`DeletionForgets` is about every behaviour in which `TRIP_DELETED` gets behind the last request for
locations (`DeletionLast`), however the requests that sent the latter raced with the deletion:
from then on, whenever the streams are drained, nothing counts the trip as a visit. It
does not say that such a moment comes. A request that publishes behind `TRIP_DELETED` brings the
visit back, and the last participant who leaves publishes nothing (`GhostVisit` and
`LeftTripVisited`, section 10). Fairness: steps of requests, and both consumers, which poll.

## 8. Accounts and notifications

### State

`Accounts` (auth-service, and the e-mail worker):

| variable | code |
|---|---|
| `email` | `users.email`, `NoAddress` without a row |
| `registration`, `verified`, `regSession` | the keys `registration:`, `verified:` and `webauthn:reg:` of Redis, which take an account from a code to a passkey |
| `change`, `login` | `email_change:<user>` with the new address and its code; `webauthn:login:<user>` with the challenge |
| `token` | `refresh_tokens`: whose each is |
| `mail`, `post`, `inbox` | `pinz:auth:email:tasks`, what the worker has read of it, and which address each code has reached |
| `known`, `asked`, `proof`, `passkey` | ghosts: ids generated, who asked for a challenge, the code an address was proven with, whose passkey opened a session |

`Notifications` adds:

| variable | code |
|---|---|
| `member`, `muted` | `trip_participants` and `trip_settings`, of which `TripAccess` has the details |
| `device` | `device_tokens`: a token belongs to whom registered it last |
| `pending`, `events` | handlers between a change of the trip and its event, and `pinz:trip:events` |
| `read`, `at`, `job` | what the worker has read and is done with; the push the worker and the scheduler are at |
| `log`, `pushed` | `notification_log`; a ghost, what APNS has taken |
| `now`, `due`, `lastRun`, `ran` | time, the next tick, `pinz:notifications:scheduler:last_run`; a ghost, the days it ran on |

Flows keep what they know between two requests in Redis, under keys that expire
(`KeyExpires`), and that a newer request of the same user overwrites. A message
for the e-mail worker is about a registration or a change and has different fields; it
is sent or dropped. A push asks the log, sends, and records: an error of Redis, of the
log or of APNS, or a crash, may come between any two of these. A job of a day is
identified by the day, and one of an event by the event.

Passkeys and random ids are unique, and the request has a code only if it was
delivered. As any unused id is as good as another, the model takes `Some` of them
instead of each. Names, avatars, desired places, the extension of a refresh token and
the login for developers are single statements and are left out; so is the
month-after push, which runs like the anniversary. The reads for one event are one
step. A run of the scheduler is over before its next tick.

### Run

| run | instance | what it shows | states |
|---|---|---|---|
| `Notifications` | 2 accounts, 2 addresses, 3 codes, 2 tokens, 2 requests at once, 1 device, 2 events, days of 4 units with a tick every 2, up to time 9, a failure, fairness | `EmailProven`, `SessionIsOwners`, `PushedOnce`, `RemovedIsTold`, `CodesArrive` | 382 k |

`MCMixes` names what a behaviour is about: registrations and changes racing with
a failure or with keys that expire; an address that moves to another account during
a login; logins that fail; a trip's events with devices that change hands and a failure; with
devices and participants who turn notifications off; days with redeployments. Two accounts and
two addresses are what it takes for an address to move; three codes are two
for one account and one for another, or a registration and two changes; time 9
is two midnights. `PushedOnce` compares exact events: when `last_run` could not be
written and the scheduler runs over midnight, the anniversary is pushed again as
another day's.

Fairness: requests in auth-service run on, the e-mail and the push workers keep
reading, a handler of trip-service gets to publish, the ticker ticks.
`RemovedIsTold` and `CodesArrive` excuse a failure: whatever the workers had
read when they stopped is not read again.

## 9. Theorems

All are proved for every value of the constants under the assumptions declared in the
modules: the nulls are not ids, the seed pin and media belong together, the
bounds are naturals and, in `PinUpload`, `Media` is finite (its cardinalities are numbers).
A theorem that assumes more says so in its statement, as several do of properties that the
code keeps only in part; section 10 lists the races that break them:

| hypothesis | it says | in |
|---|---|---|
| `Serial` | one handler, no failure (and in `PinUpload` no session old enough for the cron) | `PinUploadSerialProofs`, `TripAccessProofs` |
| `OneLock` | one session, or one handler | `WithinLimit` |
| `OneRequest` | one handler, whose client may finalize whenever the code lets it | `TripCreationProofs` |
| `OneAtATime` | one handler; in `EventPipeline`, that no user sends two reactions at once; in `AddMedia` also that no session is old enough for the cron and no failure is only logged | `TripAccessProofs`, `EventPipelineProofs`, `AddMediaProofs` |
| `"update" \notin Ops` and the like | nobody writes a whole row of the trip | `Settled`, `Consent` |
| `MaxFaults <= 1` | the database fails at most once | `PushesOnce` |

One handler is a client that waits for each answer. It does not stop the rest: consumers,
ML results, workers, streams and crons of the same module go on between any two
statements of the request. Each of these hypotheses is what the constants of the run that
checks the property say (`OneClient` configurations and the like), for any number of sessions,
media, pins and users.

`PinUploadProofs`

- `TypeCorrect`, `Spec => []TypeOK`. `TypeOK` is not inductive: a step
  uses the session or pin of its request and the head of its batch. `TypeInv`
  adds that a request has what its next step needs (`ArmedReq`), that a busy
  consumer has a non-empty batch, and the same for the ML handler and the cron.
- `OneSessionPerTarget`, `ClosedStaysClosed`, `LifecycleImplemented`. All
  three follow from one lemma, which says that *every* step of every actor does to
  `pin_upload_sessions` one of `Opens`, `Advances`, `Closes`, `Drafted`, `Removes`, a
  write of the snapshot of an open session, or nothing. The conditions of the
  SQL statements are in these forms, so uniqueness, finality and the
  refinement of `UploadSession` need no look at the handlers again.
- `AttachedStays`: `AttachedIsKept`, an action property, under no hypothesis: a photo
  with a pin disappears only in a statement that asks for it; the others select what has no
  pin in the statement that deletes.
- `OneTask`: `AtMostOneTask`, under no hypothesis. The queue is a sequence and so is the batch
  of each consumer, so `OneEntry` says that no session is twice in any or in two of them.
  It is not inductive: a request could publish what is there. `Unpublished` says that a
  session before its claim is nowhere, `Publishers` that the one about to be
  published still is nowhere and has one publisher - the winner of the CAS of
  `ProcessPinUpload` - and `Announced` that what a consumer puts back has left the table or is under review.
- `ProcessingOwned`: `ProcessingIsOwned`, as `OwnedInv`: until a failure other than
  an error answer, an open session in `PROCESSING` is in the queue, in a batch, or
  somebody is about to publish it. It needs `TaskInv`: a consumer may drop the head of its
  batch for good only as no second entry of it, or request, is left that
  a later claim would rely on.

`PinUploadSerialProofs`

- `WithinLimit`: `TripWithinLimit`, provided the seed media are within it. `LimitInv` adds that a
  commit which has counted is alone and has room. The lock is per session, so it takes
  one session or one request at a time (`OneLock`); failures and the cron do not matter.
- `PinsHaveMedia`, `CountsAreRight`, `ClosedIsClean`: `NoEmptyPin`, `CountAccurate`,
  `ClosedHasNoOrphans`, from one invariant, as none of the three is inductive
  without the other two. `Good(r)` says of the request in flight where the media of its
  session are (`SessionMedia`: attached, still to attach, or to delete) and
  what is wrong, and by how much, with the count of its pin (`PinMedia`); for all
  other sessions and pins the three properties hold.

`AddMediaProofs`

- `AddMediaTypeCorrect`, `Spec => []TypeOK`; here it is inductive as it stands.
- `OneActiveSession` and `ClosedStaysFinal`, along the same argument:
  `SessionWrites` summarises what any step does to `add_media_sessions`.
- `OriginalsSurvive`: as long as no statement fails, an apply, a cancel and
  the cron delete no media the trip had before their session. The inductive
  invariant `SpareInv` says what each request in flight remembers: one about to
  delete has no originals in its list, one on its way to the deletion carries
  exactly the originals of its session, and the session exists - so that
  its originals do not change any more. `StepFrame` says that media leave the table
  only by the list of the one request that moves.
- `DraftsBelong`: `DraftsAreOpen`, for one request at a time (`OneAtATime`), also when
  requests stop half-way. `Stage` says that a request works on an open session, and that its
  draft pins are deleted or published before it closes it.
- `CancelRestores`: `CancelUndoes`, for one request at a time of which none stops half-way. A
  cancel does not look for the media of its session: it detaches those recorded in
  `pending_attachments`, deletes the draft pins and takes what is then on no pin and was not there
  before. `Traced` says for each medium of the open session by which of the three it will
  be found, or that the request at hand is about to record it, has it in the list to delete, or confirms;
  `Uploads`, that no medium of a session is one of its originals. A request that
  stops between attaching media to an existing pin and recording that leaves media
  which no cancel finds; hence the hypothesis, which the run shares.

`TripCreationProofs`

- `CreationLifecycle`: `ImplementsLifecycle`, every step maps to a step of `TripLifecycle` or to a
  stutter, whatever fails and whenever the client finalizes. `FlowInv` ties each statement of a
  request to the status under which it started (`Works`), bounds what the ML service was asked
  (at most one task or result, and none before the processing), and says what the
  consumer may find when it writes the review: the trip it read, or the one that was
  finalized meanwhile (`Overtaken`).
- `CompletionIsTrue`: `CompletedIsTrue`, whatever fails, as nothing is announced while the
  trip is still before its review.
- `ReviewShowsTheGroups`: `ReviewedPinsAreFull`, and `NamesAreTheClients`: `UserNameKept`, both
  about behaviours without failures, as the properties are. `Fullness` follows the media
  through `ApplyGroups`, group by group: the pins made so far have what the request put in
  them (`Given`), the one at hand is to get it (`Due`); after a finalization during the
  processing a pin may have fewer than its number. `Names` says that once the
  review has come no suggestion for a pin is left (`Spent`), which is why a
  name the client gives stays.

`TripAccessProofs`

- `Types`, by `TypeInv`: a request in flight has a sender, one about to store a choice has
  a choice, and a busy worker a level.
- `Restricted`: a restricted photo stays so, as no write of a level but
  `SetPrivacyLevel`, whose `WHERE` excludes it, and `WriteRow`, which is about the
  trip, changes one.
- `Settled`: `LevelSettles`, provided no operation writes whole rows
  (`"update"` and `"publish"` are not in `Ops`). The invariant `SettleInv` says of each
  object that its level is the aggregate of its choices *or* somebody will still
  make it so: a request that has not yet read the entries, one that still has to
  send its event, an event in the stream, or the worker holding a level that is the
  aggregate. The order in the handler (entry, level, event) and that the
  worker reads after the event is what keeps it; `Birth` covers a trip that is
  just being created, and `Shapes` which handlers recompute which object.
- `Consent`: `PublicByConsent`, under the same assumption. `ChoicesHeld` adds
  that every participant has a choice or a request that is about to store it.
- `TheAdmin`: `OneAdmin`, for requests one after the other of which
  none stops half-way. A transfer, a deletion and a departure pass through states without an
  admin; `Roles` says which statements are then still to come (`Headless`) and whom they will make
  admin, who is still a participant.
- `TheSaved`: `SavedSurvives`, for one request at a time, failures or not: who deletes the trip
  is the only one who saved it, since the moment the handler looked (`Saves`).

`TripCoversProofs`

- `CoverTypes`, by `TypeInv`: a request about to store a cover has one.
- `CoverOfTheRace`: `CoverExists`, for any number of confirmations, deletions and removals
  at once; that nobody writes whole rows is in the property. What makes it true is that only who read a
  key from the row deletes its object (`Replaced`): a key confirmed once is written by one request, which
  is on its way with it (`OnItsWay`), and who has read it afterwards will write another cover in the end.
- `TheCover`: `CoverStays`, for requests of every kind one after the other, which is in the property
  (`"serial"`). `Carries` says what the one request in flight (`Alone`) will write: a key whose object
  is there, or the cover it read; `Kept`, that the cover of the row is there but while its
  successor is about to be written.

`EventPipelineProofs`

- `Counting`: `CountsMatch` in *every* state, whatever fails, for finitely many users of
  whom none sends two reactions at once (`OneAtATime`: `"twice"` is in no mix).
  `CountInv` adds that a transaction about to commit is its user's only one and has
  read the reaction the user still has; `CountedRight` is the step of cardinality a
  reaction makes.
- `StatisticsSettle`: `StatsSettle`, for finitely many battles and requests. That two databases agree
  once the streams are empty needs what is in the streams. `Walk(a, seq, b, u, c)`
  says that messages `seq` take counter `c` of user `u` from `a` to `b` and never below
  zero, by a function with a value before and after each message; walks append and
  lose their head with the sequence. `ReactionOnWay` says that the counter, after the batch
  and the stream (`Chain`) and what the one request that tells about the reaction still
  publishes, is the reaction the user has; `BattlesOnWay` that the battles counted and those owed
  (`Owing`: by a request that will still publish the end of a battle) are those done. While
  failures happen only the inequality of the latter remains.
- `BattlesCountOnce`: `BattleCountedOnce`, whatever users send at once and whatever fails, from
  two inequalities. One is that last one (`BattlesNotOvercounted`). The other, `RateInv`, says of the
  points given (`Points`, the pairs of a medium and one of its points) and the requests about
  to give one (`Rating`) that together they are no more than the battles that are over: the compare-and-set of
  `SetWinner` adds a battle and a request, `IncrementBattleRating` turns the request into a point,
  and whatever fails only loses one.
- `VisitsEnd`: `DeletionForgets`, under no hypothesis. From a state in which `TRIP_DELETED` is the
  last word, `ForgetInv` holds for ever: the row is gone, so no request finds it and asks for locations
  any more, and (`Past`) the deletion is in the stream or in the batch with no request for
  locations behind it, or the consumer is past it and the trip has no locations.

`NotificationsProofs`

- `Proven`, `EmailProven`, and `OwnSessions`, `SessionIsOwners`, for any number of
  accounts, addresses, codes, requests in flight and failures. A code is in
  many places: the registration key, the change of an account, the
  stream of e-mails, what the worker has read, a request. `Promise(t, a)` says that one of
  them has code `t` for address `a`. `AccountsInv` adds to the two properties that a code
  is promised to one address at most (`OnePromise`), that everything promised
  or asked has been generated, so that what is generated next is new (`Generated`), and
  that codes and challenges are apart (`Apart`). A client has a code only when it was
  delivered, so what it presents was sent to the address that is then written
  (`Presented`); a request about to open a session comes from a registration or
  from a challenge of the same account (`Owned`). `WorldMoves` covers what happens
  around the requests: expiry, delivery, which writes over an earlier one
  of the same code only the same address, lost e-mails, and every step of the notifications.
- It rests on what the module takes as given, that ids, codes and challenges never
  repeat, and on `MixAssumption`, that the accounts open at the start have
  addresses and codes of their own.
- `PushesOnce`: `PushedOnce`, when the database fails at most once. For the events, `WorkerInv`:
  what was pushed belongs to events the worker is done with, or to the one it is sending,
  and then not to a device still ahead. For the anniversary, `SchedulerInv` has three phases: nothing
  was sent (`Unsent`); no run of the day is to come (`Over`); or a failure was
  spent, and the log has all that was sent but what is being logged (`Logged`). With a second
  failure the log, too, can be lost.

Only model-checked: liveness (`Processed`, `AbandonedIsClosed`, `ClientLearns`,
`NamesArrive`, `RemovedIsTold`, `CodesArrive`), as neither fairness nor
ENABLED is within the prover's reach; and the half of `OriginalsKept` about pins.
That half is true of the instances but not of every one:
with three requests a start that read the media long before it
inserts the session can take as original what another session has meanwhile
put on a draft pin, and lose it when that session is cancelled.

No theorem rests on induction over data, and no module declares a recursive operator.

## 10. Findings

One run expects a violation, where the code disagrees with its own words
(PROJECT.json quotes both): `AddMediaLateResult`. An ML result that was checked before a
cancel moves the trip to review after it (`trip_service.go:1443`); there is no session left, and no
request or cron accepts that status. The same statement takes a new trip that was finalized
from `PROCESSING` meanwhile back to review (`TripReadyUndone`).

These further configurations each refute one property, by the smallest race or
sequence that does. They show where the properties of the runs end.

| configuration | module | refutes | because |
|---|---|---|---|
| `TripReadyUndone` | `MCTripCreation` | `ReadyIsKept` | a result that had read `PROCESSING` writes `DRAFT_FINAL_REVIEW` over `READY` (`trip_service.go:1443`), although "repeated transitions are skipped" (the comment at 1423) |
| `TripPhotoLost` | `MCTripCovers` | `PhotosKept` | the cover may be a photo; who replaces or deletes it deletes the photo's object (`trip_service.go:856`) |
| `PinUploadLimitRace` | `MCPinUpload` | `TripWithinLimit` | the lock of a commit is per session, the limit per trip (`media_repository.go:231`) |
| `PinUploadFinalizeTwice` | `MCPinUpload` | `NoEmptyPin` | two `FinalizePinUpload` requests on a creation session make two pins, one of them empty (`pin_upload.go:274`) |
| `PinLastMedia` | `MCPinUpload` | `NoEmptyPin` | `RemoveMediaFromPin` counts and deletes in two statements (`pin_crud.go:341`); two at once empty a pin |
| `TripAdminLost` | `MCTripAccess` | `OneAdmin` | who is to be the next admin leaves before the role is given (`trip_service.go:1182`) |
| `TripSavedLost` | `MCTripAccess` | `SavedSurvives` | `DeleteTrip` asks for favourites several statements before it deletes the row (`trip_service.go:940`) |
| `PinUploadLostCount` | `MCPinUpload` | `CountAccurate` | `UpdatePin` writes back a `media_count` read before a removal |
| `AddMediaNewPins` | `MCAddMedia` | `NewPinsReachML` | the ML task of an add-media session is built from a query that hides the pins of open sessions, which are those it is about |
| `TripPrivacyLost` | `MCTripAccess` | `LevelSettles` | `UpdateTrip` writes back the level it read (`trip_service.go:761`) |
| `CoverDangles` | `MCTripCovers` | `CoverShown` | the photo that is the cover is removed from its pin, or a key is confirmed again after its object was replaced |
| `TripStaleEvent` | `MCTripCreation` | `CompletedIsFresh` | `finalizeProcessing` deletes the stream only when a processing ends; a client that connects while the later one runs reads the end of the earlier |
| `LikeTwice` | `MCEventPipeline` | `CountsMatch` | `SetReaction` reads the old reaction without a lock |
| `GhostVisit` | `MCEventPipeline` | `DeletedTripNotVisited` | a location request that a pin's handler sends after the deletion is answered |
| `LeftTripVisited` | `MCEventPipeline` | `DeletedTripNotVisited` | when the last participant leaves, the row is deleted and no `TRIP_DELETED` is published |
| `GeoMirrorLost` | `MCEventPipeline` | `ReplicaComplete` | the answer lists rows in the order of a Go map; a city before its country is refused by the foreign key, which is only logged |
| `DaySkipped` | `MCNotifications` | `RunsEveryDay` | a run is due a full day after the last one, looked at once an hour counted from the start; restarts move it past a day |
| `ChangeLost` | `MCNotifications` | `ChangeIsKept` | `ConfirmEmailChange` deletes the key of the user, which may by then hold a newer change |

The models also show the following.

- `DeletePin` checks for an open addition and deletes later (`pin_crud.go:260`): a
  session opened in between is deleted with the pin.
- A commit that passed its guards inserts its media after a cancel
  (`media_repository.go:274`): no session owns it and no cron looks for it.
- The list of abandoned pin-upload sessions is minutes old when its last session is
  closed (`pin_upload_cleanup.go:47`).
- A consumer that dies leaves its sessions in `PROCESSING` until the cron
  (`pin_upload_consumer.go:53`).
- Deduplication never finds anything, as `content_hash` is never written (`pin_upload.go:156`).
- Two participants may both be told they took over (`trip_service.go:535`); the
  second one has.
- The add-media cron sets `READY` whatever its close found (`session_cleanup.go:137`), also under a
  session opened after it listed.
- `apply` attaches media to an existing pin before it records them as pending
  (`trip_service.go:2405`): if the recording fails, cancel does not take them off.
- A start whose presigning fails leaves an open session on a `READY` trip
  (`trip_service.go:1894`), which only the cron can end.
- A trip whose ML task could not be published stays in `PROCESSING`
  (`trip_service.go:1417`) until its client finalizes it unreviewed.
- Suggestions of the ML service replace names a client gave when it finalized during the
  processing (`ml_results_consumer.go:158`), or, after a crash, those given in the review.
- Two requests that write `cover_url` at once, one of them a whole row (`trip_service.go:761`),
  may leave a cover whose object the other has deleted.
- A transfer at once with another, or with a removal, may leave a trip without an admin or
  with two (`trip_participant_repository.go:141`).
- The last participant who leaves destroys a trip that others have saved, which
  `DeleteTrip` takes care not to do (`trip_service.go:945`).
- The change of admin is pushed to all participants, with a text addressed to the new one
  (`trip_events_worker.go:188`).
- `DeleteAccount` leaves the trips, the device tokens and the one-time keys of the
  account as they are.
- A message that a stream consumer had read and not acknowledged when it failed or
  stopped is not read again, in any of the services.

## 11. Not modelled

Besides the components marked so in section 1: trip-flow ML results that write flags
and suggestions for similar groups and texts, which are independent
last-writer-wins columns; per-user hiding of pins; all reads; the presence of objects
in S3 but for covers; the statistics counters other than reactions, battles
and visited places; scoring of recommendations; in auth-service, profile
columns and desired places. These are single statements, or arithmetic over values
no other actor changes, and what could go wrong with them a unit test sees.

More than half of the Go lines under `src/Backend` are generated: the protobuf and
gRPC stubs, copied into each service, and the Swagger description of the gateway.
They hold no logic of the program. Much of the rest translates between HTTP, gRPC
and rows.

## Running

    tlc -workers 2 -config PinUploadRace.cfg MCPinUpload          # also OneClient, Progress
    tlc -workers 2 -config AddMediaProgress.cfg MCAddMedia        # also OneClient, Race, LateResult
    tlc -workers 2 -config TripCreation.cfg MCTripCreation
    tlc -workers 2 -config TripAccessRace.cfg MCTripAccess        # also OneClient
    tlc -workers 2 -config TripCovers.cfg MCTripCovers
    tlc -workers 2 -config EventPipeline.cfg MCEventPipeline
    tlc -workers 2 -config Notifications.cfg MCNotifications
    tlapm PinUploadProofs.tla
    tlapm PinUploadSerialProofs.tla
    tlapm AddMediaProofs.tla
    tlapm TripCreationProofs.tla
    tlapm TripAccessProofs.tla
    tlapm TripCoversProofs.tla
    tlapm EventPipelineProofs.tla
    tlapm NotificationsProofs.tla

Each run takes at most a few minutes on two workers, each proof at most a few minutes.
