-------------------------- MODULE MCNotifications --------------------------
EXTENDS Notifications, TLC

CONSTANTS u1, a1, t1

First  == [user |-> u1, addr |-> a1, code |-> t1]
Mix(does, has) == [ops |-> does, open |-> has]

\* Registrations and changes at once; keys that expire; an address that moves to
\* another account during a login; the trip's events, to participants who turn
\* notifications off; the days of the scheduler.
MCMixes == {Mix({"register", "change", "fail"}, {First}),
            Mix({"register", "change", "expire"}, {First}),
            Mix({"register", "login", "delete"}, {First}),
            Mix({"login", "fail"}, {First}),
            Mix({"trip", "device", "fail"}, {}),
            Mix({"trip", "device", "mute"}, {}),
            Mix({"daily", "device", "deploy", "fail"}, {})}

\* Two changes of an address at once; restarts of the scheduler, nothing failing.
MCTwoChanges == {Mix({"change"}, {First})}
MCRestarts   == {Mix({"daily", "deploy"}, {})}
=============================================================================
