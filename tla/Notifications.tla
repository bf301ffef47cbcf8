--------------------------- MODULE Notifications ---------------------------
(***************************************************************************)
(* notification-service, next to auth-service (Accounts), whose e-mails it *)
(* sends.  A device has a push token, which moves to the account that      *)
(* registered it last.  A worker reads the events trip-service publishes   *)
(* about a trip and pushes each to the devices of those it concerns; a     *)
(* scheduler wakes at every tick and once a day pushes the anniversary of  *)
(* the trip.  Both ask a log before a push and write it afterwards.  They  *)
(* run in one process, and what the worker had read when it stopped is not *)
(* read again.  One trip; its membership is TripAccess, summarised.        *)
(***************************************************************************)
EXTENDS Accounts, Sequences

CONSTANTS Device, NoDevice,
          MaxEvents,   \* bound on the events of the trip
          Day, Tick,   \* the length of a day and of an hour, in units of time
          Anniversary, \* the day of the trip's anniversary
          Horizon      \* bound on time

ASSUME TimeAssumption == {Day, Tick, Anniversary, Horizon, MaxEvents} \subseteq Nat \ {0}
ASSUME DeviceAssumption == NoDevice \notin Device

VARIABLES
  member, muted, \* trip_participants; trip_settings without notifications
  device,        \* device_tokens: whose each is
  pending,       \* handlers between a change of the trip and its event
  events,        \* all events ever on pinz:trip:events
  read, at,      \* how many the worker has read, and is done with
  job,           \* the pushes the worker and the scheduler are sending
  log,           \* notification_log
  pushed,        \* ghost: what APNS took, as event and device
  now, due,      \* the time, and the scheduler's next tick
  lastRun,       \* pinz:notifications:scheduler:last_run, 0 when unset
  ran            \* ghost: the days the scheduler ran on

tripVars   == <<member, muted, pending, events>>
workerVars == <<read, at>>
pushVars   == <<job, log, pushed>>
clockVars  == <<now, due, lastRun, ran>>
noticeVars == <<tripVars, device, workerVars, pushVars, clockVars>>
vars == <<accountVars, noticeVars>>
\* accountVars but for the failures, which are counted together
quietVars == <<ops, rowVars, redisVars, ghostVars, mailVars, req>>

------------------------------------------------------------------------------

Process == {"worker", "scheduler"}
Id(p, n) == [of |-> p, n |-> n]

DayOf(t)    == t \div Day
Devices(us) == {d \in Device : device[d] \in us}

NoJob == [pc |-> "idle", id |-> Id("worker", 0), todo |-> {}, dev |-> NoDevice]
Doing(p, pc) == job[p].pc = pc
Does(p, pc)  == job' = [job EXCEPT ![p].pc = pc]
\* On to the next device.
Onward(p) == job' = [job EXCEPT ![p].pc = "check", ![p].dev = NoDevice]

Calm == UNCHANGED <<quietVars, faults>>

------------------------------------------------------------------------------
(* RegisterDeviceToken and UnregisterDeviceToken, one statement each.       *)

RegisterDeviceToken(u, d) ==
  /\ "device" \in ops
  /\ device' = [device EXCEPT ![d] = u]
  /\ UNCHANGED <<tripVars, workerVars, pushVars, clockVars>> /\ Calm

UnregisterDeviceToken(u, d) ==
  /\ "device" \in ops /\ device[d] = u
  /\ device' = [device EXCEPT ![d] = NoUser]
  /\ UNCHANGED <<tripVars, workerVars, pushVars, clockVars>> /\ Calm

------------------------------------------------------------------------------
(* trip-service: a handler changes the trip, then publishes the event.      *)

Changes(type, u) ==
  /\ "trip" \in ops
  /\ Len(events) + Cardinality(pending) < MaxEvents
  /\ pending' = pending \cup {[type |-> type, user |-> u]} /\ pending' # pending
  /\ UNCHANGED <<muted, events, device, workerVars, pushVars, clockVars>> /\ Calm

JoinTrip(u)        == /\ u \notin member /\ member' = member \cup {u}
                      /\ Changes("PARTICIPANT_JOINED", u)
LoseMember(type, u) == /\ u \in member /\ member' = member \ {u}
                      /\ Changes(type, u)
\* A new admin, a published trip, a new pin, new media.
OtherChange(type, u) == u \in member /\ UNCHANGED member /\ Changes(type, u)

\* A participant turns the notifications of the trip off or on.
UpdateTripSettings(u) ==
  /\ "mute" \in ops /\ u \in member
  /\ muted' \in {muted \cup {u}, muted \ {u}}
  /\ UNCHANGED <<member, pending, events, device, workerVars, pushVars, clockVars>> /\ Calm

\* PublishTripEvent; its failure is only logged.
PublishTripEvent(e) ==
  /\ e \in pending
  /\ pending' = pending \ {e}
  /\ \/ events' = Append(events, e) /\ UNCHANGED faults
     \/ Fault /\ UNCHANGED events
  /\ UNCHANGED <<quietVars, member, muted, device, workerVars, pushVars, clockVars>>

------------------------------------------------------------------------------
(* RunTripEvents and handleTripEvent                                        *)

ReadEvents ==
  /\ at = read /\ Len(events) > read
  /\ read' = Len(events)
  /\ UNCHANGED <<tripVars, device, at, pushVars, clockVars>> /\ Calm

\* mutant: who was removed is not told
MembersOnly(e) == CASE e.type = "ADMIN_CHANGED" -> member
                    [] e.type = "TRIP_READY"    -> {e.user}
                    [] OTHER                    -> member \ {e.user}
\* resolveRecipients
Recipients(e) == CASE e.type = "ADMIN_CHANGED"       -> member
                   [] e.type = "TRIP_READY"          -> {e.user}
                   [] e.type = "PARTICIPANT_REMOVED" -> member \cup {e.user}
                   [] OTHER                          -> member \ {e.user}

\* The settings and the devices of the recipients; without an answer about the
\* settings all of them are pushed to.
Resolve(p, i, us) ==
  \/ /\ job' = [job EXCEPT ![p] = [NoJob EXCEPT !.pc = "check", !.id = i,
                                                !.todo = Devices(us \ muted)]]
     /\ UNCHANGED faults
  \/ /\ Fault
     /\ job' = [job EXCEPT ![p] = [NoJob EXCEPT !.pc = "check", !.id = i, !.todo = Devices(us)]]

HandleTripEvent ==
  /\ Doing("worker", "idle") /\ at < read
  /\ Resolve("worker", Id("worker", at + 1), Recipients(events[at + 1]))
  /\ UNCHANGED <<quietVars, tripVars, device, workerVars, log, pushed, clockVars>>

\* The recipients or their devices cannot be read: on to the next message.
EventFails ==
  /\ Doing("worker", "idle") /\ at < read /\ Fault
  /\ at' = at + 1
  /\ UNCHANGED <<quietVars, tripVars, device, read, pushVars, clockVars>>

------------------------------------------------------------------------------
(* The pushes of one event, by the worker or the scheduler: IsSent, Send,   *)
(* MarkSent for each device.                                                *)

\* An error of IsSent is taken for "not sent".
CheckLog(p, d) ==
  LET sent == <<job[p].id, d>> \in log IN
  /\ Doing(p, "check") /\ d \in job[p].todo
  /\ \/ /\ sent => Fault
        /\ ~sent => UNCHANGED faults
        /\ job' = [job EXCEPT ![p].pc = "send", ![p].dev = d, ![p].todo = @ \ {d}]
     \/ /\ sent /\ UNCHANGED faults
        /\ job' = [job EXCEPT ![p].todo = @ \ {d}]
  /\ UNCHANGED <<quietVars, tripVars, device, workerVars, log, pushed, clockVars>>

Send(p) ==
  /\ Doing(p, "send")
  /\ \/ /\ pushed' = pushed \cup {<<job[p].id, job[p].dev>>} /\ UNCHANGED faults
        /\ job' = [job EXCEPT ![p].pc = "mark"]
     \/ Fault /\ UNCHANGED pushed /\ Onward(p)
  /\ UNCHANGED <<quietVars, tripVars, device, workerVars, log, clockVars>>

MarkSent(p) ==
  /\ Doing(p, "mark")
  /\ \/ log' = log \cup {<<job[p].id, job[p].dev>>} /\ UNCHANGED faults
     \/ Fault /\ UNCHANGED log
  /\ Onward(p)
  /\ UNCHANGED <<quietVars, tripVars, device, workerVars, pushed, clockVars>>

\* The worker acknowledges the message, the scheduler waits for its next tick.
Pushed(p) ==
  /\ Doing(p, "check") /\ job[p].todo = {}
  /\ job' = [job EXCEPT ![p] = NoJob]
  /\ at' = IF p = "worker" THEN at + 1 ELSE at
  /\ UNCHANGED <<tripVars, device, read, log, pushed, clockVars>> /\ Calm

------------------------------------------------------------------------------
(* The scheduler: last_run is read at each tick; a run is due a day later.  *)

\* A tick comes when it is due, and a run is over before the next one.
TimePasses ==
  /\ "daily" \in ops /\ now < Horizon /\ now < due
  /\ now' = now + 1
  /\ UNCHANGED <<tripVars, device, workerVars, pushVars, due, lastRun, ran>> /\ Calm

IsDue == lastRun = 0 \/ now - lastRun >= Day

\* mutant: last_run is written when the run is over
RunThenSet ==
  /\ "daily" \in ops /\ Doing("scheduler", "idle") /\ now >= due
  /\ due' = due + Tick
  /\ IsDue /\ job' = [job EXCEPT !["scheduler"] = [NoJob EXCEPT !.pc = "list", !.id = Id("scheduler", now)]]
  /\ UNCHANGED <<tripVars, device, workerVars, log, pushed, now, lastRun, ran>> /\ Calm
\* runIfDue: at a tick; without an answer about last_run there is no run.
RunIfDue ==
  /\ "daily" \in ops /\ Doing("scheduler", "idle") /\ now >= due
  /\ due' = due + Tick
  /\ \/ /\ IsDue /\ UNCHANGED faults
        /\ job' = [job EXCEPT !["scheduler"] = [NoJob EXCEPT !.pc = "setLast", !.id = Id("scheduler", now)]]
     \/ /\ IsDue => Fault
        /\ ~IsDue => UNCHANGED faults
        /\ UNCHANGED job
  /\ UNCHANGED <<quietVars, tripVars, device, workerVars, log, pushed, now, lastRun, ran>>

SetLastRun ==
  /\ Doing("scheduler", "setLast") /\ Does("scheduler", "list")
  /\ \/ lastRun' = job["scheduler"].id.n /\ UNCHANGED faults
     \/ Fault /\ UNCHANGED lastRun
  /\ UNCHANGED <<quietVars, tripVars, device, workerVars, log, pushed, now, due, ran>>

\* runOnce and dispatchTrips: the trips of the day the run began; the event is
\* named after the day it is sent.
RunOnce ==
  LET today == DayOf(job["scheduler"].id.n) IN
  /\ Doing("scheduler", "list")
  /\ ran' = ran \cup {today}
  /\ \/ today = Anniversary /\ Resolve("scheduler", Id("scheduler", DayOf(now)), member)
     \/ /\ today # Anniversary \/ Fault
        /\ today # Anniversary => UNCHANGED faults
        /\ job' = [job EXCEPT !["scheduler"] = NoJob]
  /\ UNCHANGED <<quietVars, tripVars, device, workerVars, log, pushed, now, due, lastRun>>

------------------------------------------------------------------------------
(* The process stops and starts again: messages read are lost, the scheduler*)
(* looks at once whether a run is due and counts its hours from then.       *)

Restarts ==
  /\ at' = read
  /\ job' = [p \in Process |-> NoJob]
  /\ due' = now
  /\ post' = {}
  /\ UNCHANGED <<ops, rowVars, redisVars, ghostVars, mail, inbox, req,
                 tripVars, device, read, log, pushed, now, lastRun, ran>>

Crash == Fault /\ Restarts

\* A new version is deployed while nothing is being sent.
Redeploy ==
  /\ "deploy" \in ops /\ UNCHANGED faults
  /\ post = {} /\ at = read /\ \A p \in Process : Doing(p, "idle")
  /\ now > due - Tick
  /\ Restarts

------------------------------------------------------------------------------

NoticeInit ==
  /\ member \in SUBSET User /\ muted = {}
  /\ device = [d \in Device |-> NoUser]
  /\ pending = {} /\ events = <<>>
  /\ read = 0 /\ at = 0
  /\ job = [p \in Process |-> NoJob]
  /\ log = {} /\ pushed = {}
  /\ now \in (IF "daily" \in ops THEN 1..Day ELSE {1}) /\ due = now
  /\ lastRun = 0 /\ ran = {}

Init == AccountsInit /\ NoticeInit

TripChange(u) ==
  \/ JoinTrip(u)
  \/ \E type \in {"PARTICIPANT_REMOVED", "PARTICIPANT_LEFT"} : LoseMember(type, u)
  \/ \E type \in {"ADMIN_CHANGED", "TRIP_READY", "PIN_ADDED"} : OtherChange(type, u)
  \/ UpdateTripSettings(u)
  \/ \E d \in Device : RegisterDeviceToken(u, d) \/ UnregisterDeviceToken(u, d)

PushStep(p) == (\E d \in Device : CheckLog(p, d)) \/ Send(p) \/ MarkSent(p) \/ Pushed(p)
Work        == ReadEvents \/ HandleTripEvent \/ PushStep("worker")
Schedule    == RunIfDue \/ SetLastRun \/ RunOnce \/ PushStep("scheduler")
Publish     == \E e \in pending : PublishTripEvent(e)

NoticeNext ==
  \/ \E u \in User : TripChange(u)
  \/ Publish \/ Work \/ EventFails \/ Schedule \/ TimePasses
  \/ Crash \/ Redeploy

Next == (AccountsNext /\ UNCHANGED noticeVars) \/ NoticeNext

Spec == Init /\ [][Next]_vars

\* Requests run to their end, the workers keep reading and the ticker ticks; no
\* client has to do anything.
Fairness ==
  /\ \A h \in Handler : WF_vars(AccountStep(h) /\ UNCHANGED noticeVars)
  /\ WF_vars(MailStep /\ UNCHANGED noticeVars)
  /\ WF_vars(Publish) /\ WF_vars(Work) /\ WF_vars(Schedule)
FairSpec == Spec /\ Fairness

------------------------------------------------------------------------------
(* Properties                                                               *)

\* A device is pushed an event at most once, and an anniversary at most once a
\* day, whatever single failure there is: an error of Redis, of the log or of
\* APNS, or a crash after a push and before its record (notification_log's
\* comment: no second delivery after restarts and retries).
PushedOnce ==
  [][\A p \in Process :
       Doing(p, "send") /\ job'[p].pc = "mark" => <<job[p].id, job[p].dev>> \notin pushed]_vars

\* Who is removed from a trip is told, although not a participant any more when
\* the event is read: on the device they have, unless they turned notifications
\* off, change the device or something fails.
RemovedIsTold ==
  \A i \in 1..MaxEvents, d \in Device, u \in User :
    (/\ Len(events) >= i /\ read < i /\ faults = 0
     /\ events[i] = [type |-> "PARTICIPANT_REMOVED", user |-> u]
     /\ device[d] = u /\ u \notin muted)
      ~> (<<Id("worker", i), d>> \in pushed \/ device[d] # u \/ u \in muted \/ faults > 0)

\* On every day the scheduler is up it looks for anniversaries (README.md: the
\* scheduler pushes the anniversary of a trip).
RunsEveryDay ==
  LET begun == IF job["scheduler"].pc \in {"setLast", "list"} THEN {DayOf(job["scheduler"].id.n)} ELSE {}
  IN faults = 0 => 2..(DayOf(now) - 1) \subseteq ran \cup begun
=============================================================================
