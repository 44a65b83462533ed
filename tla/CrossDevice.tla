---------------------------- MODULE CrossDevice ----------------------------
(***************************************************************************)
(* The devices of the users, on top of SessionService: the session routes  *)
(* of routes/auth.routes.ts, the WebSocket rooms of websocket/index.ts and *)
(* the cleanup job of cron/sessionCleanup.ts.  A device runs one request   *)
(* at a time, as the worker of that name in SessionService; beside it, its *)
(* access token may be refreshed and its socket may come, go and receive.  *)
(*                                                                         *)
(* The browser client is not in the repository.  What it does on a         *)
(* force-logout event is taken from the events the server sends and from   *)
(* docs/CROSS_DEVICE_SYNC.md.                                              *)
(***************************************************************************)
EXTENDS Integers, Sequences, FiniteSets

CONSTANTS
  User, Device, Cron, MaxSessions, Lifetime, MaxTime, MaxRows,
  Owner,     \* the user of each device
  None,      \* no token, no row, no exclusion
  MaxInbox   \* bound: no logout of others starts with this many events unread

ASSUME DeviceAssumption == Owner \in [Device -> User] /\ MaxInbox \in Nat
ASSUME ServiceAssumption ==
  /\ IsFiniteSet(Device) /\ Device \cap Cron = {}
  /\ MaxSessions \in Nat \ {0}
  /\ Lifetime \in Nat /\ MaxTime \in Nat /\ MaxRows \in Nat

VARIABLES
  sessions, now, nextId, task, updates, unheard,   \* as in SessionService
  token,   \* the access token each device holds
  online,  \* the devices with a connected socket, in the room of their user
  inbox,   \* force-logout events on their way to each device, in order
  route,   \* the route each device's request runs
  home,    \* history: the row that each device's login created
  lost     \* history: how an online device came to lose that row

service == <<sessions, now, nextId, task, updates, unheard>>
client == <<token, online, inbox, route, home, lost>>
vars == <<service, client>>

S == INSTANCE SessionService WITH Request <- Device

ASSUME NoneAssumption == None \notin S!Token /\ None \notin S!Row

NoRoute == [name |-> "none", token |-> None]
Busy(d) == route[d].name # "none"
Run(d, name) == route' = [route EXCEPT ![d] = [name |-> name, token |-> token[d]]]
Finish(d) == route' = [route EXCEPT ![d] = NoRoute]

\* The force-logout event.
Event(target, exclude) == [target |-> target, exclude |-> exclude]

\* The client ignores an event that excludes the token it now holds, and one
\* that targets another.
Hits(e, t) == e.exclude # t /\ e.target \in {None, t}

\* io.to(room).emit: to the sockets that are in the room now, in order.
Emit(users, e) ==
  inbox' = [d \in Device |->
              IF d \in online /\ Owner[d] \in users THEN Append(inbox[d], e) ELSE inbox[d]]

\* The online devices that this step leaves without the row of their login.
Loses(d) == d \in online /\ home[d] \in sessions /\ home[d] \notin sessions'
Lose(how) == lost' = [d \in Device |-> IF Loses(d) THEN how ELSE lost[d]]

\* The same, by a DELETE /sessions/:id request of device d.
LoseTo(d) ==
  lost' = [e \in Device |->
             IF Loses(e) THEN (IF e = d THEN "itself" ELSE "revoked") ELSE lost[e]]

InboxesOpen == \A d \in Device : Len(inbox[d]) < MaxInbox

Init ==
  /\ S!Init
  /\ token = [d \in Device |-> None]
  /\ online = {}
  /\ inbox = [d \in Device |-> <<>>]
  /\ route = [d \in Device |-> NoRoute]
  /\ home = [d \in Device |-> None]
  /\ lost = [d \in Device |-> "no"]

-----------------------------------------------------------------------------
(***************************************************************************)
(* POST /login.                                                            *)
(***************************************************************************)

LogIn(d) ==
  /\ token[d] = None /\ ~Busy(d)
  /\ S!StartLogin(d, Owner[d])
  /\ Run(d, "login")
  /\ UNCHANGED <<token, online, inbox, home, lost>>

LoginCheck(d) ==
  /\ route[d].name = "login"
  /\ S!Count(d) \/ S!FindOldest(d)
  /\ UNCHANGED client

\* The evicted device is told nothing but that the list has changed.
LoginEvict(d) ==
  /\ route[d].name = "login"
  /\ S!Evict(d)
  /\ IF task'[d] = S!Idle THEN Finish(d) ELSE UNCHANGED route
  /\ Lose("evicted")
  /\ UNCHANGED <<token, online, inbox, home>>

LoginCreate(d) ==
  /\ route[d].name = "login"
  /\ S!Create(d)
  /\ Finish(d)
  /\ IF sessions' = sessions THEN UNCHANGED <<token, home>>
     ELSE /\ token' = [token EXCEPT ![d] = task[d].token]
          /\ home' = [home EXCEPT ![d] = S!NewRow(task[d])]
  /\ UNCHANGED <<online, inbox, lost>>

\* Whatever the database did, the client is given no token.
LoginFails(d) ==
  /\ route[d].name = "login"
  /\ S!Fail(d)
  /\ Finish(d)
  /\ Lose("unanswered")
  /\ UNCHANGED <<token, online, inbox, home>>

\* POST /refresh: a new access token, and the Session row keeps the old one.
Refresh(d) ==
  /\ token[d] # None
  /\ token' = [token EXCEPT ![d] = <<Owner[d], now>>]
  /\ UNCHANGED <<service, online, inbox, route, home, lost>>

-----------------------------------------------------------------------------
(***************************************************************************)
(* POST /logout.  The client closes its socket first and forgets its token *)
(* whatever the answer.                                                    *)
(***************************************************************************)

\* Fault: the socket stays open (docs/CROSS_DEVICE_SYNC.md:566).
LogOutKeepsSocket(d) ==
  /\ token[d] # None /\ ~Busy(d)
  /\ \/ \E r \in sessions :
          r.token = token[d] /\ S!FindSession(d, r) /\ Run(d, "logout")
     \/ /\ \A r \in sessions : r.token # token[d]
        /\ UNCHANGED <<service, route>>
  /\ token' = [token EXCEPT ![d] = None]
  /\ home' = [home EXCEPT ![d] = None]
  /\ lost' = [lost EXCEPT ![d] = "no"]
  /\ UNCHANGED <<online, inbox>>

LogOut(d) ==
  /\ token[d] # None /\ ~Busy(d)
  /\ \/ \E r \in sessions :
          r.token = token[d] /\ S!FindSession(d, r) /\ Run(d, "logout")
     \/ /\ \A r \in sessions : r.token # token[d]
        /\ UNCHANGED <<service, route>>
  /\ token' = [token EXCEPT ![d] = None]
  /\ home' = [home EXCEPT ![d] = None]
  /\ online' = online \ {d}
  /\ inbox' = [inbox EXCEPT ![d] = <<>>]
  /\ lost' = [lost EXCEPT ![d] = "no"]

\* Fault: terminateSession called without io, as docs/CROSS_DEVICE_SYNC.md:554.
LogOutEndSilently(d) ==
  /\ route[d].name = "logout"
  /\ S!TerminateSilently(d) \/ S!Expire(d) \/ S!Fail(d)
  /\ Finish(d)
  /\ Lose("loggedOut")
  /\ UNCHANGED <<token, online, inbox, home>>

LogOutEnd(d) ==
  /\ route[d].name = "logout"
  /\ S!Terminate(d) \/ S!Expire(d) \/ S!Fail(d)
  /\ Finish(d)
  /\ Lose("loggedOut")
  /\ UNCHANGED <<token, online, inbox, home>>

-----------------------------------------------------------------------------
(***************************************************************************)
(* DELETE /sessions/:id and DELETE /sessions/all.                          *)
(***************************************************************************)

\* The id in the path may be any; the route does not compare the row's user
\* with the caller (docs/CROSS_DEVICE_SYNC.md:349 lists that step).
Revoke(d, r) ==
  /\ token[d] # None /\ ~Busy(d) /\ InboxesOpen
  /\ S!FindSession(d, r)
  /\ Run(d, "revoke")
  /\ UNCHANGED <<token, online, inbox, home, lost>>

\* Fault: the event targets the id of the session, as logout-device does.
RevokeEndById(d) ==
  /\ route[d].name = "revoke"
  /\ task[d].at = "terminate"
  /\ S!Terminate(d) \/ S!Fail(d)
  /\ Emit({task[d].row.user}, Event(<<"id", task[d].row.id>>, None))
  /\ Finish(d)
  /\ LoseTo(d)
  /\ UNCHANGED <<token, online, home>>

\* terminateSession turns a rejected query into null, which the route does
\* not look at: the event goes out and the answer is 200 all the same.
RevokeEnd(d) ==
  /\ route[d].name = "revoke"
  /\ task[d].at = "terminate"
  /\ S!Terminate(d) \/ S!Fail(d)
  /\ Emit({task[d].row.user}, Event(task[d].row.token, None))
  /\ Finish(d)
  /\ LoseTo(d)
  /\ UNCHANGED <<token, online, home>>

\* getSessionById finds the row expired: nothing to log out, deleted or not.
NotFound(d) ==
  /\ route[d].name \in {"revoke", "lookup"}
  /\ S!Expire(d) \/ (task[d].at = "expire" /\ S!Fail(d))
  /\ Finish(d)
  /\ Lose("expired")
  /\ UNCHANGED <<token, online, inbox, home>>

\* The token that is spared is the one the request came with.
LogOutAll(d) ==
  /\ token[d] # None /\ ~Busy(d) /\ InboxesOpen
  /\ Run(d, "logOutAll")
  /\ UNCHANGED <<service, token, online, inbox, home, lost>>

\* Fault: the route returns without broadcastForceLogout.
LogOutAllEndQuietly(d) ==
  /\ route[d].name = "logOutAll"
  /\ S!TerminateAll(d, Owner[d], route[d].token)
  /\ Finish(d)
  /\ Lose("deleted")
  /\ UNCHANGED <<token, online, inbox, home>>

LogOutAllEnd(d) ==
  /\ route[d].name = "logOutAll"
  /\ S!TerminateAll(d, Owner[d], route[d].token)
  /\ Emit({Owner[d]}, Event(None, route[d].token))
  /\ Finish(d)
  /\ Lose("deleted")
  /\ UNCHANGED <<token, online, home>>

\* The deleteMany is rejected, executed or not: 500, and no event.
LogOutAllFails(d) ==
  /\ route[d].name = "logOutAll"
  /\ S!TerminateAllUnanswered(d, Owner[d], route[d].token) \/ UNCHANGED service
  /\ Finish(d)
  /\ Lose("unanswered")
  /\ UNCHANGED <<token, online, inbox, home>>

-----------------------------------------------------------------------------
(***************************************************************************)
(* Sockets.                                                                *)
(***************************************************************************)

Connect(d) ==
  /\ token[d] # None /\ d \notin online
  /\ online' = online \cup {d}
  /\ UNCHANGED <<service, token, inbox, route, home, lost>>

\* Events that were on their way are not sent again.
Disconnect(d) ==
  /\ d \in online
  /\ online' = online \ {d}
  /\ inbox' = [inbox EXCEPT ![d] = <<>>]
  /\ lost' = [lost EXCEPT ![d] = "no"]
  /\ UNCHANGED <<service, token, route, home>>

\* The client logs out, through its own POST /logout, or ignores the event.
Receive(d) ==
  /\ inbox[d] # <<>> /\ ~Busy(d)
  /\ IF Hits(Head(inbox[d]), token[d]) THEN LogOut(d)
     ELSE /\ inbox' = [inbox EXCEPT ![d] = Tail(@)]
          /\ UNCHANGED <<service, token, online, route, home, lost>>

\* socket.on('logout-all-devices'): every device, the asking one included.
AskLogOutAll(d) ==
  /\ d \in online /\ InboxesOpen
  /\ Emit({Owner[d]}, Event(None, None))
  /\ UNCHANGED <<service, token, online, route, home, lost>>

\* socket.on('logout-device'): the row is looked up, not deleted, and the
\* event targets its id; a row found expired is deleted lazily.
AskLogOutDevice(d, r) ==
  /\ d \in online /\ ~Busy(d) /\ InboxesOpen
  /\ IF S!Expired(r, now)
     THEN S!FindSession(d, r) /\ Run(d, "lookup") /\ UNCHANGED inbox
     ELSE /\ Emit({r.user}, Event(<<"id", r.id>>, None))
          /\ UNCHANGED <<service, route>>
  /\ UNCHANGED <<token, online, home, lost>>

-----------------------------------------------------------------------------
(***************************************************************************)
(* The cleanup job, and what runs by itself.                               *)
(***************************************************************************)

SweepFind(c) == S!SweepFind(c) /\ UNCHANGED client

\* One event for each user with an expired session, to all their devices.
SweepEnd(c) ==
  /\ S!SweepDelete(c)
  /\ Emit({r.user : r \in task[c].found}, Event(None, None))
  /\ Lose("expired")
  /\ UNCHANGED <<token, online, route, home>>

\* No list of expired sessions comes back, and nobody is told.
SweepFails(c) ==
  /\ S!Fail(c)
  /\ Lose("expired")
  /\ UNCHANGED <<token, online, inbox, route, home>>

EmitUpdate(u) == S!EmitUpdate(u) /\ UNCHANGED client
Tick == S!Tick /\ UNCHANGED client

DeviceStep(d) ==
  \/ LoginCheck(d) \/ LoginEvict(d) \/ LoginCreate(d) \/ LoginFails(d)
  \/ LogOutEnd(d) \/ RevokeEnd(d) \/ NotFound(d)
  \/ LogOutAllEnd(d) \/ LogOutAllFails(d)

DeviceCall(d) ==
  \/ LogIn(d) \/ LogOut(d) \/ LogOutAll(d) \/ Refresh(d)
  \/ Connect(d) \/ Disconnect(d) \/ AskLogOutAll(d)
  \/ \E r \in sessions : Revoke(d, r) \/ AskLogOutDevice(d, r)

Next ==
  \/ \E d \in Device : DeviceStep(d) \/ DeviceCall(d) \/ Receive(d)
  \/ \E c \in Cron : SweepFind(c) \/ SweepEnd(c) \/ SweepFails(c)
  \/ \E u \in User : EmitUpdate(u)
  \/ Tick

Spec == Init /\ [][Next]_vars

\* Instances run their continuations, and sockets deliver what they carry.
\* The client reads events while a request of its own is under way; here it
\* waits for the answer, and strong fairness makes up for that.
Fairness == \A d \in Device : WF_vars(DeviceStep(d)) /\ SF_vars(Receive(d))

FairSpec == Spec /\ Fairness
-----------------------------------------------------------------------------
(***************************************************************************)
(* What holds of the devices.                                              *)
(***************************************************************************)

RouteName == {"none", "login", "logout", "revoke", "lookup", "logOutAll"}
Targets == {None} \cup S!Token \cup ({"id"} \X Nat)
Events == [target : Targets, exclude : {None} \cup S!Token]

\* How a device loses its row: to DELETE /sessions/:id from another device or
\* its own, to DELETE /sessions/all; or to something else.
Deletions == {"revoked", "itself", "deleted"}
Causes == {"no", "evicted", "unanswered", "expired", "loggedOut"} \cup Deletions

\* The tokens a device may have been given by now.
Own(d) == {Owner[d]} \X (0..now)

\* What a device holds agrees with what its request is doing.
DeviceOK(d) ==
  /\ token[d] \in {None} \cup Own(d)
  /\ home[d] # None =>
       token[d] # None /\ home[d].token \in Own(d) /\ home[d].user = Owner[d]
  /\ IF d \in online THEN token[d] # None ELSE inbox[d] = <<>>
  /\ route[d].name \in {"none", "logOutAll"} => task[d] = S!Idle
  /\ route[d].name = "login" =>
       /\ token[d] = None
       /\ task[d].at \in {"count", "findOldest", "evict", "create"}
       /\ task[d].user = Owner[d] /\ task[d].token \in Own(d)
  /\ route[d].name \in {"logout", "revoke", "lookup"} =>
       task[d].at \in {"expire", "terminate"}
  /\ route[d].name = "logOutAll" => route[d].token \in Own(d)

\* Every variable has its type, a device's row and tokens are its own user's,
\* only a device that is signed in has a socket and events to read, and the
\* worker of a device is at a step of the route the device runs.
TypeOK ==
  /\ token \in [Device -> {None} \cup S!Token]
  /\ online \subseteq Device
  /\ inbox \in [Device -> Seq(Events)]
  /\ route \in [Device -> [name : RouteName, token : {None} \cup S!Token]]
  /\ home \in [Device -> {None} \cup S!Row]
  /\ lost \in [Device -> Causes]
  /\ \A d \in Device : DeviceOK(d)

\* Every step of the devices is a step of SessionService, or leaves it alone:
\* what is checked and proved of that module holds of the whole.
ServiceSpec == S!Spec

\* Devices whose row a DELETE /sessions request removed, and whose token is
\* still the one of that row.
Revoked(d) == lost[d] \in Deletions /\ token[d] = home[d].token

\* A connected device still holding the token of its login, whose row a
\* DELETE /sessions request removed without an error, has an event on its
\* way that will sign it out, whatever events came before.
RevokedIsTold ==
  \A d \in online :
    Revoked(d) => \E i \in 1..Len(inbox[d]) : Hits(inbox[d][i], token[d])

\* Such a device does sign out, or goes offline, or takes a new token.
RevokedSignsOut ==
  \A d \in Device :
    Revoked(d) ~> \/ d \notin online
                  \/ home[d] = None
                  \/ token[d] # home[d].token

-----------------------------------------------------------------------------
(***************************************************************************)
(* What the documentation says of the devices.                             *)
(***************************************************************************)

\* docs/CROSS_DEVICE_SYNC.md:757, "Browser B immediately logged out": an
\* online device is told that another device's DELETE /sessions/:id deleted
\* its session, whatever the token it holds by now.
RevokedAlwaysTold ==
  \A d \in online :
    lost[d] = "revoked" => \E i \in 1..Len(inbox[d]) : Hits(inbox[d][i], token[d])

\* docs/CROSS_DEVICE_SYNC.md:906, "First browser logged out automatically":
\* an online device whose session is evicted signs out or goes offline.
EvictedSignsOut ==
  \A d \in Device : lost[d] = "evicted" ~> (d \notin online \/ token[d] = None)

\* docs/CROSS_DEVICE_SYNC.md:201, "Session expired due to inactivity or
\* lifetime exceeded": the cleanup job tells no device whose session is kept.
OnlyExpiredSignedOut ==
  [][\A c \in Cron : SweepEnd(c) =>
       \A d \in online : inbox'[d] # inbox[d] => home[d] \notin sessions']_vars
=============================================================================
