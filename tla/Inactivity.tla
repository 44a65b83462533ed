----------------------------- MODULE Inactivity -----------------------------
(***************************************************************************)
(* The inactivity timeout of one user: User.lastActivityAt, as             *)
(* authenticate (middleware/auth.middleware.ts), login and                 *)
(* refreshAccessToken (services/auth.service.ts) read and write it, and    *)
(* getSessionInfo (services/session.service.ts) reports it, for several    *)
(* devices at once.  A step is one awaited query together with the *)
(* code that runs up to the next await; in particular `new Date()' is read *)
(* when a query is sent and written when the database gets to it.          *)
(***************************************************************************)
EXTENDS Integers

CONSTANTS
  Device,   \* the user's devices, each with one request at a time
  Timeout,  \* SESSION_TIMEOUT_MS, in ticks
  MaxTime   \* bound: the clock stops here

ASSUME TimeAssumption == Timeout \in Nat /\ MaxTime \in Nat

VARIABLES
  now,
  lastActivityAt,  \* the column of the user's row
  request,         \* what the request of each device is doing
  answer,          \* what getSessionInfo has found for it so far: that the
                   \* session is expired, that there is time left
  rewritten,       \* history: the devices for which the column was written
                   \* since getSessionInfo found them expired
  lastUse,         \* history: when the latest ordinary request served was let in
  lag              \* history: the longest that a write of lastActivityAt took

vars == <<now, lastActivityAt, request, answer, rewritten, lastUse, lag>>

\* req.path, relative to where its router is mounted (app.ts:129), of an
\* ordinary request and of the two that the client sends by itself.
UsePath == {"/sessions", "/logout"}
PollPath == {"/me"}
InfoPath == {"/session"}
ActivitySkipEndpoints == {"/api/auth/session", "/api/auth/me"}

ShouldSkip(path) == path \in ActivitySkipEndpoints

Idle == [kind |-> "none", skip |-> FALSE, at |-> "idle", stamp |-> 0]
Kind == {"none", "use", "poll", "info", "refresh", "login"}
Larger(a, b) == IF a >= b THEN a ELSE b

Init ==
  /\ now = 0
  /\ lastActivityAt = 0
  /\ request = [d \in Device |-> Idle]
  /\ answer = [d \in Device |-> {}]
  /\ rewritten = {}
  /\ lastUse = 0
  /\ lag = 0

Become(d, r) == request' = [request EXCEPT ![d] = r]
Record == UNCHANGED <<lastActivityAt, answer, rewritten, lastUse, lag>>

\* The token is verified and the user found; without either, 401.
Arrive(d, kind, path) ==
  /\ request[d] = Idle
  /\ Become(d, [kind |-> kind, skip |-> ShouldSkip(path), at |-> "check", stamp |-> 0])
  /\ UNCHANGED now /\ Record

\* Fault: `>=' for `>'.
ExpiredAtTimeout == now - lastActivityAt >= Timeout

\* isSessionExpired.
Expired == now - lastActivityAt > Timeout

\* 401 SESSION_EXPIRED.
Refuse(d) ==
  /\ request[d].at = "check" /\ Expired
  /\ Become(d, Idle)
  /\ UNCHANGED now /\ Record

\* Fault: the update sends the instant at which the session will time out.
AdmitDeadline(d) ==
  /\ request[d].at = "check" /\ ~Expired
  /\ IF request[d].skip THEN Become(d, Idle)
     ELSE Become(d, [kind |-> request[d].kind, skip |-> FALSE, at |-> "touch",
                     stamp |-> now + Timeout])
  /\ UNCHANGED now /\ Record

\* A path that is skipped goes on to its handler; the others send the update.
Admit(d) ==
  /\ request[d].at = "check" /\ ~Expired
  /\ IF request[d].skip THEN Become(d, Idle)
     ELSE Become(d, [kind |-> request[d].kind, skip |-> FALSE, at |-> "touch", stamp |-> now])
  /\ UNCHANGED now /\ Record

\* login and refreshAccessToken send the update without looking at the timer.
SignIn(d, kind) ==
  /\ request[d] = Idle
  /\ Become(d, [kind |-> kind, skip |-> FALSE, at |-> "touch", stamp |-> now])
  /\ UNCHANGED now /\ Record

AfterTouch(d) ==
  IF request[d].kind \in {"use", "poll", "info"}
  THEN Become(d, [request[d] EXCEPT !.at = "show"]) ELSE Become(d, Idle)

\* Fault: the update is not sent.
TouchNothing(d) ==
  /\ request[d].at = "touch"
  /\ lag' = Larger(lag, now - request[d].stamp)
  /\ AfterTouch(d)
  /\ UNCHANGED <<now, lastActivityAt, answer, rewritten, lastUse>>

\* The database runs the update, whatever it ran in the meantime.
Touch(d) ==
  /\ request[d].at = "touch"
  /\ lastActivityAt' = request[d].stamp
  /\ lag' = Larger(lag, now - request[d].stamp)
  /\ AfterTouch(d)
  /\ rewritten' = {e \in Device : "expired" \in answer[e]}
  /\ UNCHANGED <<now, answer, lastUse>>

\* The update is rejected: 401, or 500 for a login.
TouchFails(d) ==
  /\ request[d].at = "touch"
  /\ Become(d, Idle)
  /\ UNCHANGED now /\ Record

\* updateSessionActivity, whose result is not looked at, and the handler.
Serve(d) ==
  /\ request[d].at = "show" /\ request[d].kind # "info"
  /\ lastUse' = IF request[d].kind = "use" THEN Larger(lastUse, request[d].stamp) ELSE lastUse
  /\ Become(d, Idle)
  /\ UNCHANGED <<now, lastActivityAt, answer, rewritten, lag>>

\* The handler of GET /session calls getSessionInfo, which reads the user
\* three times: first for the lastActivityAt that it shows,
ShowActivity(d) ==
  /\ request[d].at = "show" /\ request[d].kind = "info"
  /\ Become(d, [request[d] EXCEPT !.at = "ask"])
  /\ UNCHANGED now /\ Record

\* then in isSessionExpired,
AskExpired(d) ==
  /\ request[d].at = "ask"
  /\ Become(d, [request[d] EXCEPT !.at = "left"])
  /\ answer' = [answer EXCEPT ![d] = IF Expired THEN {"expired"} ELSE {}]
  /\ rewritten' = rewritten \ {d}
  /\ UNCHANGED <<now, lastActivityAt, lastUse, lag>>

\* Fault: the time left is that from the start of the request.
AskLeftAtArrival(d) ==
  /\ request[d].at = "left"
  /\ Become(d, [request[d] EXCEPT !.at = "answer"])
  /\ answer' = [answer EXCEPT ![d] =
       @ \cup (IF Timeout - (request[d].stamp - lastActivityAt) > 0 THEN {"left"} ELSE {})]
  /\ UNCHANGED <<now, lastActivityAt, rewritten, lastUse, lag>>

\* and last in getSessionTimeRemaining.
AskLeft(d) ==
  /\ request[d].at = "left"
  /\ Become(d, [request[d] EXCEPT !.at = "answer"])
  /\ answer' = [answer EXCEPT ![d] =
       @ \cup (IF Timeout - (now - lastActivityAt) > 0 THEN {"left"} ELSE {})]
  /\ UNCHANGED <<now, lastActivityAt, rewritten, lastUse, lag>>

\* The answer, or 500 if one of the reads is rejected.
EndInfo(d) ==
  /\ \/ request[d].at = "answer"
     \/ request[d].at \in {"ask", "left"}
     \/ request[d].at = "show" /\ request[d].kind = "info"
  /\ Become(d, Idle)
  /\ answer' = [answer EXCEPT ![d] = {}]
  /\ UNCHANGED <<now, lastActivityAt, rewritten, lastUse, lag>>

Tick ==
  /\ now < MaxTime
  /\ now' = now + 1
  /\ UNCHANGED <<lastActivityAt, request, answer, rewritten, lastUse, lag>>

Next ==
  \/ \E d \in Device :
       \/ \E path \in UsePath : Arrive(d, "use", path)
       \/ \E path \in PollPath : Arrive(d, "poll", path)
       \/ \E path \in InfoPath : Arrive(d, "info", path)
       \/ SignIn(d, "login") \/ SignIn(d, "refresh")
       \/ Refuse(d) \/ Admit(d) \/ Touch(d) \/ TouchFails(d) \/ Serve(d)
       \/ ShowActivity(d) \/ AskExpired(d) \/ AskLeft(d) \/ EndInfo(d)
  \/ Tick

Spec == Init /\ [][Next]_vars

(***************************************************************************)
(* Correctness.                                                            *)
(***************************************************************************)
\* Every variable has its type, no instant is from the future, and a request
\* carries nothing over from the one before it.
TypeOK ==
  /\ now \in 0..MaxTime
  /\ lastActivityAt \in 0..now
  /\ request \in [Device ->
       [kind : Kind, skip : BOOLEAN,
        at : {"idle", "check", "touch", "show", "ask", "left", "answer"}, stamp : 0..now]]
  /\ answer \in [Device -> SUBSET {"expired", "left"}]
  /\ rewritten \in SUBSET Device
  /\ \A d \in Device : request[d].at = "idle" <=> request[d] = Idle
  /\ \A d \in Device : request[d].at \notin {"left", "answer"} => answer[d] = {}
  /\ lastUse \in 0..now
  /\ lag \in 0..now

\* The timer never runs behind the user by more than the slowest write took:
\* of several updates in flight the database may run the oldest last
\* (updateLastActivity sets an instant read before the query was sent), and
\* then lastActivityAt goes back, but not further than that.
TimerNearUse ==
  /\ lastUse <= lastActivityAt + lag
  /\ \A d \in Device :
       request[d].at \in {"show", "ask"} => request[d].stamp <= lastActivityAt + lag

\* Hence authenticate refuses a user for inactivity only if the user has been
\* idle for the timeout, give or take that delay.
RefusedNearlyIdle == [][\A d \in Device : Refuse(d) => now - lastUse > Timeout - lag]_vars

\* GET /session counts as activity itself, so it can call the session expired
\* only when it has taken about as long as the timeout; and, its reads being
\* separate, it names a time left together with isExpired only if somebody
\* wrote the timer in between.
InfoTrue ==
  \A d \in Device : "expired" \in answer[d] =>
    /\ now - request[d].stamp > Timeout - lag
    /\ "left" \in answer[d] => d \in rewritten
=============================================================================
