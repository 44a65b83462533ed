--------------------------- MODULE SessionService ---------------------------
(***************************************************************************)
(* The Session table and the functions of services/session.service.ts that *)
(* write it, as they run: several requests and cron jobs at once, over     *)
(* three server instances that share one database.  A step of a worker is  *)
(* one awaited query together with the code that runs up to the next       *)
(* await, so that any other worker may act between two of its queries.     *)
(***************************************************************************)
EXTENDS Integers, FiniteSets

CONSTANTS
  User,         \* the user accounts
  Request,      \* requests in progress at the same time, on all instances
  Cron,         \* the cleanup jobs, one per instance
  MaxSessions,  \* MAX_SESSIONS_PER_USER
  Lifetime,     \* SESSION_LIFETIME_MS, in ticks of the clock
  MaxTime,      \* bound: the clock stops here
  MaxRows       \* bound: no login starts once this many rows were created

ASSUME FiniteWorkers == IsFiniteSet(Request) /\ Request \cap Cron = {}
ASSUME LimitAssumption == MaxSessions \in Nat \ {0}
ASSUME ClockAssumption == Lifetime \in Nat /\ MaxTime \in Nat /\ MaxRows \in Nat

VARIABLES
  sessions,  \* the rows of the Session table
  now,       \* the clock, in seconds (the resolution of a JWT's iat)
  nextId,    \* rows created so far; the uuid of the next one
  task,      \* what each worker is doing, and the local variables it holds
  updates,   \* users for whom a broadcastSessionUpdate is on its way
  unheard    \* history: users with a change no broadcast is on its way for

vars == <<sessions, now, nextId, task, updates, unheard>>

Worker == Request \cup Cron

\* A JWT carries the user and the second it was signed in: two of them signed
\* for one user in the same second are the same string.
Token == User \X Nat

Row == [id : Nat, user : User, token : Token, createdAt : Nat, expiresAt : Nat]

\* The local variables of a worker between two of its queries.
Idle == [at |-> "idle"]
LoginTask == [at : {"count", "findOldest", "create"},
              user : User, token : Token, expiresAt : Nat]
EvictTask == [at : {"evict"},
              user : User, token : Token, expiresAt : Nat, victim : Row]
EndTask == [at : {"expire", "terminate"}, row : Row]
SweepTask == [at : {"sweep"}, cutoff : Nat, found : SUBSET Row]
Task == {Idle} \cup LoginTask \cup EvictTask \cup EndTask \cup SweepTask

Init ==
  /\ sessions = {}
  /\ now = 0
  /\ nextId = 0
  /\ task = [w \in Worker |-> Idle]
  /\ updates = {}
  /\ unheard = {}

RowsOf(u) == {r \in sessions : r.user = u}
Ids == {r.id : r \in sessions}
Tokens == {r.token : r \in sessions}

\* An expired row is one with expiresAt < now; the active ones, which the
\* devices are shown, have expiresAt > now.
Expired(r, t) == r.expiresAt < t
ActiveOf(rows, u, t) == {r \in rows : r.user = u /\ r.expiresAt > t}

Become(w, t) == task' = [task EXCEPT ![w] = t]
Remove(rows) == sessions' = sessions \ rows
Broadcast(users) == updates' = updates \cup users /\ unheard' = unheard \ users
NoBroadcast == UNCHANGED <<updates, unheard>>
Clock == UNCHANGED <<now, nextId>>

-----------------------------------------------------------------------------
(***************************************************************************)
(* createSession, called by the login and signup routes.                   *)
(***************************************************************************)

\* The route signs the access token, which becomes the session token;
\* createSession fixes the expiry before its first query.
StartLogin(w, u) ==
  /\ task[w] = Idle
  /\ nextId < MaxRows
  /\ Become(w, [at |-> "count", user |-> u, token |-> <<u, now>>,
                expiresAt |-> now + Lifetime])
  /\ UNCHANGED sessions /\ NoBroadcast /\ Clock

\* Fault: `>' for `>=' in the limit check.
CountAboveLimit(w) ==
  /\ task[w].at = "count"
  /\ Become(w, [task[w] EXCEPT !.at =
                  IF Cardinality(RowsOf(task[w].user)) > MaxSessions
                  THEN "findOldest" ELSE "create"])
  /\ UNCHANGED sessions /\ NoBroadcast /\ Clock

Count(w) ==
  /\ task[w].at = "count"
  /\ Become(w, [task[w] EXCEPT !.at =
                  IF Cardinality(RowsOf(task[w].user)) >= MaxSessions
                  THEN "findOldest" ELSE "create"])
  /\ UNCHANGED sessions /\ NoBroadcast /\ Clock

IsOldest(r, rows) == r \in rows /\ \A s \in rows : r.createdAt <= s.createdAt

EvictTaskOf(t, r) ==
  [at |-> "evict", user |-> t.user, token |-> t.token,
   expiresAt |-> t.expiresAt, victim |-> r]

\* Fault: findFirst without its orderBy.
FindAny(w) ==
  /\ task[w].at = "findOldest"
  /\ \/ /\ RowsOf(task[w].user) = {}
        /\ Become(w, [task[w] EXCEPT !.at = "create"])
     \/ \E r \in RowsOf(task[w].user) : Become(w, EvictTaskOf(task[w], r))
  /\ UNCHANGED sessions /\ NoBroadcast /\ Clock

\* findFirst ordered by createdAt: no row is left, or one of the oldest.
FindOldest(w) ==
  /\ task[w].at = "findOldest"
  /\ \/ /\ RowsOf(task[w].user) = {}
        /\ Become(w, [task[w] EXCEPT !.at = "create"])
     \/ \E r \in RowsOf(task[w].user) :
          /\ IsOldest(r, RowsOf(task[w].user))
          /\ Become(w, EvictTaskOf(task[w], r))
  /\ UNCHANGED sessions /\ NoBroadcast /\ Clock

CreateTaskOf(t) ==
  [at |-> "create", user |-> t.user, token |-> t.token, expiresAt |-> t.expiresAt]

\* Fault: the login goes on when the row to evict is gone.
EvictOrGoOn(w) ==
  /\ task[w].at = "evict"
  /\ Remove({r \in sessions : r.id = task[w].victim.id})
  /\ Become(w, CreateTaskOf(task[w]))
  /\ Broadcast({task[w].user})
  /\ Clock

\* Deleting by id a row that is gone throws (P2025), and the login fails.
Evict(w) ==
  /\ task[w].at = "evict"
  /\ IF task[w].victim.id \in Ids
     THEN /\ Remove({r \in sessions : r.id = task[w].victim.id})
          /\ Become(w, CreateTaskOf(task[w]))
          /\ Broadcast({task[w].user})
     ELSE /\ Become(w, Idle)
          /\ UNCHANGED sessions /\ NoBroadcast
  /\ Clock

NewRow(t) ==
  [id |-> nextId, user |-> t.user, token |-> t.token,
   createdAt |-> now, expiresAt |-> t.expiresAt]

\* Fault: sessionToken without its unique index.
CreateAnyToken(w) ==
  /\ task[w].at = "create"
  /\ Become(w, Idle)
  /\ sessions' = sessions \cup {NewRow(task[w])}
  /\ nextId' = nextId + 1
  /\ Broadcast({task[w].user})
  /\ UNCHANGED now

\* sessionToken is unique: a second row with the token throws (P2002).
Create(w) ==
  /\ task[w].at = "create"
  /\ Become(w, Idle)
  /\ IF task[w].token \in Tokens
     THEN UNCHANGED <<sessions, nextId>> /\ NoBroadcast
     ELSE /\ sessions' = sessions \cup {NewRow(task[w])}
          /\ nextId' = nextId + 1
          /\ Broadcast({task[w].user})
  /\ UNCHANGED now

-----------------------------------------------------------------------------
(***************************************************************************)
(* Ending sessions: the logout and DELETE /sessions routes, the lazy       *)
(* deletion of an expired row, and the cleanup job.                        *)
(***************************************************************************)

\* Fault: a row counts as expired at its very last instant.
FindSessionAtExpiry(w, r) ==
  /\ task[w] = Idle
  /\ Become(w, [at |-> IF r.expiresAt <= now THEN "expire" ELSE "terminate",
                row |-> r])
  /\ UNCHANGED sessions /\ NoBroadcast /\ Clock

\* getSessionByToken and getSessionById: the row found is kept in a local
\* variable.  A look-up that finds nothing changes nothing and is left out.
FindSession(w, r) ==
  /\ task[w] = Idle
  /\ Become(w, [at |-> IF Expired(r, now) THEN "expire" ELSE "terminate",
                row |-> r])
  /\ UNCHANGED sessions /\ NoBroadcast /\ Clock

\* The lazy deletion; a row that is gone throws, to the same effect here.
Expire(w) ==
  /\ task[w].at = "expire"
  /\ Remove({r \in sessions : r.id = task[w].row.id})
  /\ Become(w, Idle)
  /\ NoBroadcast /\ Clock

\* Fault: terminateSession called without io.
TerminateSilently(w) ==
  /\ task[w].at = "terminate"
  /\ Remove({r \in sessions : r.id = task[w].row.id})
  /\ Become(w, Idle)
  /\ NoBroadcast /\ Clock

\* terminateSession: null, and no broadcast, when the row is gone.
Terminate(w) ==
  /\ task[w].at = "terminate"
  /\ Remove({r \in sessions : r.id = task[w].row.id})
  /\ Become(w, Idle)
  /\ IF task[w].row.id \in Ids
     THEN Broadcast({task[w].row.user}) ELSE NoBroadcast
  /\ Clock

\* DELETE /sessions/all: one deleteMany that spares the caller's token, then
\* the route's own broadcast, sent whatever the count.
TerminateAll(w, u, kept) ==
  /\ task[w] = Idle
  /\ Remove({r \in RowsOf(u) : r.token # kept})
  /\ Broadcast({u})
  /\ UNCHANGED task /\ Clock

\* cleanupExpiredSessions: the instant is read once, for both queries.
SweepFind(w) ==
  LET found == {r \in sessions : Expired(r, now)} IN
  /\ task[w] = Idle
  /\ IF found = {} THEN UNCHANGED task
     ELSE Become(w, [at |-> "sweep", cutoff |-> now, found |-> found])
  /\ UNCHANGED sessions /\ NoBroadcast /\ Clock

\* Fault: `lte' for `lt' in the second query.
SweepDeleteLte(w) ==
  /\ task[w].at = "sweep"
  /\ Remove({r \in sessions : r.expiresAt <= task[w].cutoff})
  /\ Become(w, Idle)
  /\ Broadcast({r.user : r \in task[w].found})
  /\ Clock

\* Fault: the comparison of the second query swapped.
SweepDeleteGt(w) ==
  /\ task[w].at = "sweep"
  /\ Remove({r \in sessions : r.expiresAt > task[w].cutoff})
  /\ Become(w, Idle)
  /\ Broadcast({r.user : r \in task[w].found})
  /\ Clock

SweepDelete(w) ==
  /\ task[w].at = "sweep"
  /\ Remove({r \in sessions : Expired(r, task[w].cutoff)})
  /\ Become(w, Idle)
  /\ Broadcast({r.user : r \in task[w].found})
  /\ Clock

-----------------------------------------------------------------------------
(***************************************************************************)
(* The query a worker awaits is rejected: the database is away, or the     *)
(* instance stops.  The function throws, and what it had done stays done.  *)
(* The database may have executed the query before its answer was lost;    *)
(* the rows have changed then, and the broadcast of that change is skipped.*)
(***************************************************************************)

\* A session-update that is on its way already will make up for it.
Forget(rows) == unheard' = unheard \cup ({r.user : r \in rows} \ updates)

CreateUnanswered(w) ==
  /\ task[w].at = "create" /\ task[w].token \notin Tokens
  /\ sessions' = sessions \cup {NewRow(task[w])}
  /\ nextId' = nextId + 1
  /\ Forget({NewRow(task[w])})
  /\ UNCHANGED <<now, updates>>

\* The deletion of a row, whose user is shown it unless it is expired.
EndUnanswered(w, row) ==
  LET gone == {r \in sessions : r.id = row.id} IN
  /\ Remove(gone)
  /\ IF task[w].at = "expire" THEN UNCHANGED unheard ELSE Forget(gone)
  /\ UNCHANGED updates /\ Clock

Fail(w) ==
  /\ task[w] # Idle
  /\ Become(w, Idle)
  /\ \/ UNCHANGED sessions /\ NoBroadcast /\ Clock
     \/ CreateUnanswered(w)
     \/ task[w].at = "evict" /\ EndUnanswered(w, task[w].victim)
     \/ task[w].at \in {"expire", "terminate"} /\ EndUnanswered(w, task[w].row)
     \/ /\ task[w].at = "sweep"
        /\ Remove({r \in sessions : Expired(r, task[w].cutoff)})
        /\ NoBroadcast /\ Clock

\* DELETE /sessions/all answers 500, and sends nothing.
TerminateAllUnanswered(w, u, kept) ==
  LET gone == {r \in RowsOf(u) : r.token # kept} IN
  /\ task[w] = Idle
  /\ Remove(gone)
  /\ Forget(gone)
  /\ UNCHANGED <<task, updates>> /\ Clock

\* broadcastSessionUpdate awaits the list of sockets, then emits.
EmitUpdate(u) ==
  /\ u \in updates
  /\ updates' = updates \ {u}
  /\ UNCHANGED <<sessions, task, unheard>> /\ Clock

Tick ==
  /\ now < MaxTime
  /\ now' = now + 1
  /\ UNCHANGED <<sessions, nextId, task, updates, unheard>>

Step(w) ==
  \/ Count(w) \/ FindOldest(w) \/ Evict(w) \/ Create(w)
  \/ Expire(w) \/ Terminate(w)

Call(w) ==
  \/ \E u \in User : StartLogin(w, u)
  \/ \E r \in sessions : FindSession(w, r)
  \/ \E u \in User, t \in 0..now :
       TerminateAll(w, u, <<u, t>>) \/ TerminateAllUnanswered(w, u, <<u, t>>)

Next ==
  \/ \E w \in Request : Call(w) \/ Step(w) \/ Fail(w)
  \/ \E c \in Cron : SweepFind(c) \/ SweepDelete(c) \/ Fail(c)
  \/ \E u \in User : EmitUpdate(u)
  \/ Tick

Spec == Init /\ [][Next]_vars

\* node-cron starts every job again and again, and the database does not
\* reject its query for ever.  Requests may stop at any query.
Fairness == \A c \in Cron : WF_vars(SweepFind(c)) /\ SF_vars(SweepDelete(c))

FairSpec == Spec /\ Fairness
-----------------------------------------------------------------------------
(***************************************************************************)
(* What the functions promise.                                             *)
(***************************************************************************)

\* Every variable has its type, ids and tokens identify rows, and no row or
\* stale copy of one is from the future.
TypeOK ==
  /\ sessions \in SUBSET Row
  /\ IsFiniteSet(sessions)
  /\ now \in Nat
  /\ nextId \in Nat
  /\ task \in [Worker -> Task]
  /\ updates \in SUBSET User /\ unheard \in SUBSET User
  /\ \A r \in sessions : r.id < nextId /\ r.createdAt <= now
  /\ \A r, s \in sessions : r.id = s.id \/ r.token = s.token => r = s

\* Requests that have passed the limit check of createSession, or paid for
\* their row by deleting one, and have not created it yet.
Creating(u) == {w \in Request : task[w].at = "create" /\ task[w].user = u}

\* The slots of a user: rows and creations under way together never exceed
\* MaxSessions - 1 plus the number of requests that can run at once.
SlotsBounded ==
  \A u \in User :
    Cardinality(RowsOf(u)) + Cardinality(Creating(u))
      <= MaxSessions - 1 + Cardinality(Request)

\* However logins, logouts and cleanups interleave, count-then-create lets a
\* user exceed the limit by at most the number of logins racing with the
\* last one: with n requests at a time, MaxSessions - 1 + n rows.
OvershootBounded ==
  \A u \in User :
    Cardinality(RowsOf(u)) <= MaxSessions - 1 + Cardinality(Request)

\* docs/CROSS_DEVICE_SYNC.md:904, "Only 5 sessions maintained
\* (MAX_SESSIONS_PER_USER=5)".
WithinLimit == \A u \in User : Cardinality(RowsOf(u)) <= MaxSessions

\* A copy of a row read before an await still describes the row: it keeps
\* its id to itself and never changes under the copy.
Known(copy) ==
  /\ copy.id < nextId /\ copy.createdAt <= now
  /\ \A r \in sessions : r.id = copy.id => r = copy

\* What a worker read before an await and acts on after it still holds: the
\* row it found expired is expired, the row it will evict belongs to the user
\* who logs in, and the instant of a sweep is not in the future.
LocalFresh(w) ==
  /\ task[w].at = "evict" =>
       Known(task[w].victim) /\ task[w].victim.user = task[w].user
  /\ task[w].at \in {"expire", "terminate"} => Known(task[w].row)
  /\ task[w].at = "expire" => Expired(task[w].row, now)
  /\ task[w].at = "sweep" => task[w].cutoff <= now

LocalsFresh == \A w \in Worker : LocalFresh(w)

\* The row a login is about to delete, chosen before an await, is still the
\* oldest of that user when it is deleted, whatever ran in between; so a
\* login never evicts a session while it keeps an older one.
OldestIsEvicted ==
  \A w \in Request :
    task[w].at = "evict" =>
      \A r \in RowsOf(task[w].user) : task[w].victim.createdAt <= r.createdAt

\* Lazy deletion and the cleanup job work from rows and an instant read
\* before an await, and still delete no row that is not expired now.
OnlyExpiredSwept ==
  [][\A w \in Worker :
       Expire(w) \/ SweepDelete(w)
         => \A r \in sessions \ sessions' : Expired(r, now)]_vars

\* A step that changes the list of active sessions a user's devices show
\* starts a session-update to them, unless the query behind the change was
\* rejected after the database had executed it; lazy deletion and the cleanup
\* job start none for the rows the list no longer shows, and need none.
ListChangesAnnounced ==
  [][\A u \in User :
       now' = now /\ ActiveOf(sessions, u, now) # ActiveOf(sessions', u, now)
         => u \in updates' \cup unheard']_vars

\* The cleanup jobs delete every expired row in the end, though a job's
\* queries may be rejected again and again.  (Ids end here: the last login to
\* start is one of Cardinality(Request) with MaxRows - 1 rows created.)
ExpiredRowsGo ==
  \A i \in 0..(MaxRows + Cardinality(Request) - 2) :
    (\E r \in sessions : r.id = i /\ Expired(r, now)) ~> (i \notin Ids)
=============================================================================
