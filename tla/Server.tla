------------------------------- MODULE Server -------------------------------
(***************************************************************************)
(* One instance as a process: index.ts starting and stopping it, with the  *)
(* flag of config/database.ts and the Apollo Server of graphql/server.ts,  *)
(* and HTTP requests on their way through the limiters of                  *)
(* middleware/rateLimiter.ts and the gauge of                              *)
(* middleware/metrics.middleware.ts.                                       *)
(***************************************************************************)
EXTENDS Integers, FiniteSets

CONSTANTS
  DbType,      \* DB_TYPE
  GraphQL,     \* whether API_TYPE enables GraphQL, and with it Apollo Server
  Conn,        \* connections of one client, with one request at a time
  Routes,      \* the kinds of requests that arrive
  Max,         \* the requests that each limiter lets through in a window
  MaxCount,    \* bound: requests counted in a window
  MaxSignals,  \* bound: SIGTERM and SIGINT received
  MaxLeaked    \* bound: responses broken off between end() and `finish'

Limiter == {"api", "graphql", "auth", "session"}
Route == {"rest", "login", "signout", "graphql", "other"}

ASSUME ConfigAssumption == DbType \in {"postgres", "mongodb"} /\ GraphQL \in BOOLEAN
ASSUME ConnAssumption == IsFiniteSet(Conn)
ASSUME RoutesAssumption == Routes \subseteq Route
ASSUME MaxAssumption == Max \in [Limiter -> Nat]
ASSUME BoundAssumption == MaxCount \in Nat /\ MaxSignals \in Nat /\ MaxLeaked \in Nat

VARIABLES
  boot,      \* what startServer awaits
  flag,      \* DatabaseConnection.isConnected
  halts,     \* calls of shutdown that await disconnect()
  apollo,    \* how far Apollo Server has come, which stops by itself at a signal
  open,      \* httpServer listens
  closing,   \* shutdown has called httpServer.close()
  crash,     \* the timer of the uncaughtException handler runs
  exit,      \* whether the process runs, or with what code it ended
  req,       \* the request of each connection, or that it is a WebSocket
  count,     \* hits of the client in each limiter's window
  gauge,     \* http_active_requests
  signals,   \* history: signals received
  rejected,  \* history: whether a disconnect() was rejected
  kept,      \* history: requests of the window that are over and stay counted
  late,      \* history: hits taken back for a request of an earlier window
  leaked     \* history: responses broken off between end() and `finish'

process == <<boot, flag, halts, apollo, open, closing, crash, exit, signals, rejected>>
limits == <<count, kept, late>>
requests == <<req, limits, gauge, leaked>>
vars == <<process, requests>>

\* app.ts: apiLimiter is mounted at /api/ and graphqlLimiter at /graphql,
\* before the metrics; the health check, /metrics and / have none.
Outer(route) ==
  CASE route = "other" -> {} [] route = "graphql" -> {"graphql"} [] OTHER -> {"api"}

\* auth.routes.ts: authLimiter for signup and login, sessionLogoutLimiter for
\* the routes that sign out.
Inner(route) ==
  CASE route = "login" -> {"auth"} [] route = "signout" -> {"session"} [] OTHER -> {}

\* hit: the limiters that have counted the request; old: those of them whose
\* window has ended since.
NoRequest == [at |-> "none", route |-> "other", ok |-> FALSE, metered |-> FALSE,
              hit |-> {}, old |-> {}]

Init ==
  /\ boot = "connecting" /\ flag = FALSE /\ halts = 0
  /\ apollo = "off" /\ open = FALSE /\ closing = FALSE /\ crash = FALSE /\ exit = "no"
  /\ signals = 0 /\ rejected = FALSE
  /\ req = [c \in Conn |-> NoRequest]
  /\ count = [l \in Limiter |-> 0]
  /\ kept = [l \in Limiter |-> 0]
  /\ late = [l \in Limiter |-> 0]
  /\ gauge = 0 /\ leaked = 0

-----------------------------------------------------------------------------
(***************************************************************************)
(* Requests.                                                               *)
(***************************************************************************)
Plus(f, L) == [l \in Limiter |-> IF l \in L THEN f[l] + 1 ELSE f[l]]

\* increment, then compare: a limiter refuses what exceeds its maximum.
LetThrough(L) == \A l \in L : count[l] < Max[l]
Room(L) == \A l \in L : count[l] < MaxCount

\* The limiter of the path; the metrics, for requests that it lets through;
\* then the body is read, and the route may have a limiter of its own.
Arrive(c) ==
  /\ open
  /\ req[c].at = "none"
  /\ \E r \in Routes :
       LET through == LetThrough(Outer(r)) IN
       /\ Room(Outer(r))
       /\ count' = Plus(count, Outer(r))
       /\ req' = [req EXCEPT ![c] =
            [at |-> IF ~through THEN "ended" ELSE IF Inner(r) = {} THEN "handling" ELSE "entered",
             route |-> r, ok |-> FALSE, metered |-> through, hit |-> Outer(r), old |-> {}]]
       /\ gauge' = IF through THEN gauge + 1 ELSE gauge
  /\ UNCHANGED <<process, kept, late, leaked>>

EnterRoute(c) ==
  LET L == Inner(req[c].route) IN
  /\ req[c].at = "entered"
  /\ Room(L)
  /\ count' = Plus(count, L)
  /\ req' = [req EXCEPT ![c].at = IF LetThrough(L) THEN "handling" ELSE "ended",
                        ![c].hit = @ \cup L]
  /\ UNCHANGED <<process, kept, late, gauge, leaked>>

\* A body that cannot be parsed, or authenticate in front of the limiter of
\* the routes that sign out: the response is an error.
TurnedAway(c) ==
  /\ req[c].at = "entered"
  /\ req' = [req EXCEPT ![c].at = "ended"]
  /\ UNCHANGED <<process, limits, gauge, leaked>>

\* The handler, or errorHandler for it, ends the response.
Answer(c) ==
  /\ req[c].at = "handling"
  /\ \E ok \in BOOLEAN : req' = [req EXCEPT ![c].at = "ended", ![c].ok = ok]
  /\ UNCHANGED <<process, limits, gauge, leaked>>

\* Fault: skipFailedRequests in the place of skipSuccessfulRequests.
TakenBackIfFailed(c) == IF req[c].ok THEN {} ELSE Outer(req[c].route)

\* skipSuccessfulRequests, which only the outer limiters have.
TakenBack(c) == IF req[c].ok THEN Outer(req[c].route) ELSE {}

\* Fault: a connection keeps what its last request has left.
OverKept(c) == req' = [req EXCEPT ![c].at = "none"]

Over(c) == req' = [req EXCEPT ![c] = NoRequest]

\* The counted requests of the window that are over, but for those in L.
Keep(c, L) == kept' = Plus(kept, (req[c].hit \ req[c].old) \ L)

\* The response is out: `finish'.
Finish(c) ==
  LET back == {l \in TakenBack(c) : count[l] > 0} IN
  /\ req[c].at = "ended"
  /\ Over(c)
  /\ count' = [l \in Limiter |-> IF l \in back THEN count[l] - 1 ELSE count[l]]
  /\ gauge' = IF req[c].metered THEN gauge - 1 ELSE gauge
  /\ Keep(c, Outer(req[c].route) \cap (IF req[c].ok THEN Limiter ELSE {}))
  /\ late' = Plus(late, back \cap req[c].old)
  /\ UNCHANGED <<process, leaked>>

\* Fault: there is no handler of `close'.
NotCounted(c) == FALSE

\* `close' without `finish' counts the request as over, unless the response
\* has been ended (writableEnded).
CountedClose(c) == req[c].metered /\ req[c].at # "ended"

\* The connection breaks; what the handler still does changes nothing here.
Lose(c) ==
  /\ req[c].at \notin {"none", "upgraded"}
  /\ Over(c)
  /\ gauge' = IF CountedClose(c) THEN gauge - 1 ELSE gauge
  /\ IF req[c].metered /\ req[c].at = "ended"
     THEN leaked < MaxLeaked /\ leaked' = leaked + 1
     ELSE UNCHANGED leaked
  /\ Keep(c, {})
  /\ UNCHANGED <<process, count, late>>

\* The 15 minutes of a window are over.
WindowEnds(l) ==
  /\ count[l] > 0 \/ \E c \in Conn : l \in req[c].hit \ req[c].old
  /\ count' = [count EXCEPT ![l] = 0]
  /\ kept' = [kept EXCEPT ![l] = 0]
  /\ late' = [late EXCEPT ![l] = 0]
  /\ req' = [c \in Conn |-> [req[c] EXCEPT !.old = @ \cup ({l} \cap req[c].hit)]]
  /\ UNCHANGED <<process, gauge, leaked>>

-----------------------------------------------------------------------------
(***************************************************************************)
(* The process.                                                            *)
(***************************************************************************)
Exit(code) == exit' = code

\* startServer.  No step of it comes between shutdown's close() and the end of
\* a process that does not listen yet.
Starting(from, to) == ~closing /\ boot = from /\ boot' = to

\* DatabaseConnection.connect.
ConnectDatabase ==
  /\ Starting("connecting", "graphql")
  /\ flag' = TRUE
  /\ UNCHANGED <<halts, apollo, open, closing, crash, exit, signals, rejected, requests>>

\* setupGraphQLServer, if it is enabled.
SetupGraphQLServer ==
  /\ Starting("graphql", "websocket")
  /\ apollo' = IF GraphQL THEN "started" ELSE "off"
  /\ UNCHANGED <<flag, halts, open, closing, crash, exit, signals, rejected, requests>>

\* initializeWebSocket, which does without Redis if it cannot be reached, and
\* all that follows it, up to listen.
Listen ==
  /\ Starting("websocket", "listening")
  /\ open' = TRUE
  /\ UNCHANGED <<flag, halts, apollo, closing, crash, exit, signals, rejected, requests>>

\* What is awaited before that may be rejected.
StartFails ==
  /\ boot = "connecting" \/ (boot = "graphql" /\ GraphQL)
  /\ Starting(boot, boot)
  /\ Exit("failed")
  /\ UNCHANGED <<flag, halts, apollo, open, closing, crash, signals, rejected, requests>>

Close == closing' = TRUE /\ open' = FALSE

\* disconnect() returns at once if the flag is down.
Shutdown ==
  IF flag THEN halts' = halts + 1 /\ UNCHANGED <<open, closing>>
  ELSE Close /\ UNCHANGED halts

\* SIGTERM or SIGINT: Apollo Server has a handler of its own beside shutdown.
Signal ==
  /\ signals < MaxSignals
  /\ signals' = signals + 1
  /\ Shutdown
  /\ apollo' = IF apollo = "started" THEN "stopping" ELSE apollo
  /\ UNCHANGED <<boot, flag, crash, exit, rejected, requests>>

\* Fault: the listener is closed only if the flag is still up.
DisconnectedOnce ==
  /\ halts > 0
  /\ halts' = halts - 1
  /\ IF flag THEN Close ELSE UNCHANGED <<open, closing>>
  /\ flag' = FALSE
  /\ UNCHANGED <<boot, apollo, crash, exit, signals, rejected, requests>>

Disconnected ==
  /\ halts > 0
  /\ halts' = halts - 1
  /\ Close
  /\ flag' = FALSE
  /\ UNCHANGED <<boot, apollo, crash, exit, signals, rejected, requests>>

\* The rejection of shutdown's promise is logged by unhandledRejection, and
\* the process goes on.
DisconnectRejected ==
  /\ halts > 0
  /\ halts' = halts - 1
  /\ rejected' = TRUE
  /\ UNCHANGED <<boot, flag, apollo, open, closing, crash, exit, signals, requests>>

\* `disconnected' of mongoose takes the flag down; nothing raises it again
\* when the driver has reconnected.
MongoDisconnected ==
  /\ DbType = "mongodb" /\ flag
  /\ flag' = FALSE
  /\ UNCHANGED <<boot, halts, apollo, open, closing, crash, exit, signals, rejected, requests>>

NoConnection == \A c \in Conn : req[c].at = "none"

\* The plugins that setupGraphQLServer gives to Apollo Server: the listener is
\* closed, then connections end (Lose, Leave), those that are not idle after a
\* grace period.
ApolloDrains ==
  /\ apollo = "stopping"
  /\ apollo' = "draining"
  /\ open' = FALSE
  /\ UNCHANGED <<boot, flag, halts, closing, crash, exit, signals, rejected, requests>>

\* When all have ended, Apollo Server sends the signal again.
ApolloStopped ==
  /\ apollo = "draining" /\ NoConnection
  /\ apollo' = "stopped"
  /\ Shutdown
  /\ UNCHANGED <<boot, flag, crash, exit, signals, rejected, requests>>

\* The callback of httpServer.close: the last connection is gone.
HttpServerClosed ==
  /\ closing /\ NoConnection
  /\ Exit("clean")
  /\ UNCHANGED <<boot, flag, halts, apollo, open, closing, crash, signals, rejected, requests>>

\* uncaughtException: the process goes on for a second.
UncaughtException ==
  /\ ~crash
  /\ crash' = TRUE
  /\ UNCHANGED <<boot, flag, halts, apollo, open, closing, exit, signals, rejected, requests>>

CrashExit ==
  /\ crash
  /\ Exit("failed")
  /\ UNCHANGED <<boot, flag, halts, apollo, open, closing, crash, signals, rejected, requests>>

\* A WebSocket of Socket.IO or of GraphQL subscriptions.
Upgrade(c) ==
  /\ open
  /\ req[c].at = "none"
  /\ req' = [req EXCEPT ![c].at = "upgraded"]
  /\ UNCHANGED <<process, limits, gauge, leaked>>

\* It lasts until the client leaves, or Apollo Server cuts it off.
Leave(c) ==
  /\ req[c].at = "upgraded"
  /\ Over(c)
  /\ UNCHANGED <<process, limits, gauge, leaked>>

-----------------------------------------------------------------------------
Serve(c) == EnterRoute(c) \/ TurnedAway(c) \/ Answer(c) \/ Finish(c) \/ Lose(c)

Running == exit = "no"

Next ==
  /\ Running
  /\ \/ \E c \in Conn : Arrive(c) \/ Serve(c) \/ Upgrade(c) \/ Leave(c)
     \/ \E l \in Limiter : WindowEnds(l)
     \/ ConnectDatabase \/ SetupGraphQLServer \/ Listen \/ StartFails \/ Signal \/ Disconnected \/ DisconnectRejected \/ MongoDisconnected
     \/ ApolloDrains \/ ApolloStopped \/ HttpServerClosed \/ UncaughtException \/ CrashExit

Spec == Init /\ [][Next]_vars

\* Handlers return and responses leave or break; disconnect() settles; the
\* close callback, the timer of the crash and Apollo Server's handler run.
\* Clients may keep their WebSockets unless Apollo Server cuts them off.
Fairness ==
  /\ \A c \in Conn : WF_vars(Running /\ Serve(c))
  /\ \A c \in Conn : WF_vars(Running /\ apollo = "draining" /\ Leave(c))
  /\ WF_vars(Running /\ (ApolloDrains \/ ApolloStopped))
  /\ WF_vars(Running /\ (Disconnected \/ DisconnectRejected))
  /\ WF_vars(Running /\ HttpServerClosed)
  /\ WF_vars(Running /\ CrashExit)

FairSpec == Spec /\ Fairness
-----------------------------------------------------------------------------
(***************************************************************************)
(* What operators of the service can rely on.                              *)
(***************************************************************************)

\* Every variable has its type, only a server that has listened has requests,
\* and each request is counted by limiters of its route.
TypeOK ==
  /\ boot \in {"connecting", "graphql", "websocket", "listening"}
  /\ apollo \in {"off", "started", "stopping", "draining", "stopped"}
  /\ flag \in BOOLEAN /\ open \in BOOLEAN /\ closing \in BOOLEAN /\ crash \in BOOLEAN /\ rejected \in BOOLEAN
  /\ exit \in {"no", "clean", "failed"}
  /\ halts \in Nat /\ signals \in Nat /\ halts <= signals + 1
  /\ open => boot = "listening" /\ ~closing
  /\ req \in [Conn -> [at : {"none", "entered", "handling", "ended", "upgraded"}, route : Route,
                       ok : BOOLEAN, metered : BOOLEAN,
                       hit : SUBSET Limiter, old : SUBSET Limiter]]
  /\ count \in [Limiter -> Nat] /\ kept \in [Limiter -> Nat] /\ late \in [Limiter -> Nat]
  /\ gauge \in Nat /\ leaked \in Nat
  /\ \A c \in Conn :
       LET r == req[c] IN
       /\ r.at \in {"none", "upgraded"} => r = [NoRequest EXCEPT !.at = r.at]
       /\ r.at # "none" => boot = "listening"
       /\ r.old \subseteq r.hit /\ r.hit \subseteq Outer(r.route) \cup Inner(r.route)
       /\ r.at \in {"entered", "handling"} \/ r.ok => r.metered

\* Requests that a limiter has counted in its present window, not yet over.
Open(l) == Cardinality({c \in Conn : l \in req[c].hit \ req[c].old})

\* The count of a window is what it should be, the requests that failed or
\* broke off and those in flight, although requests finish in another order
\* than they arrived: except that a success which began in an earlier window
\* takes back a hit of this one (late), so that a failure goes uncounted.
CountExact ==
  \A l \in Limiter :
    /\ count[l] <= kept[l] + Open(l)
    /\ count[l] >= kept[l] + Open(l) - late[l]

\* http_active_requests ("Number of active HTTP requests") is the number of
\* requests past the limiter, however they end, plus the responses broken off
\* between end() and `finish': neither handler counts those as over.
GaugeExact == gauge = Cardinality({c \in Conn : req[c].metered}) + leaked

\* A signal closes the listener for good unless disconnect() is rejected,
\* whatever the flag says and however often it comes; then the process ends
\* once no client keeps a WebSocket open, which with Apollo Server none can for
\* long, provided that the server was listening already; and it ends when it
\* is crashing.
ShutdownEnds ==
  /\ signals > 0 ~> (closing \/ rejected \/ ~Running)
  /\ closing /\ (\A c \in Conn : req[c].at # "upgraded") ~> ~Running
  /\ closing /\ apollo = "draining" ~> ~Running
  /\ crash ~> ~Running
=============================================================================
