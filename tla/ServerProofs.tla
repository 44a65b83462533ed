---------------------------- MODULE ServerProofs ----------------------------
(***************************************************************************)
(* Server, for any number of connections, any limits and either database:  *)
(* types, the counts of the limiters and the gauge of active requests.     *)
(***************************************************************************)
EXTENDS Server, FiniteSetTheorems, TLAPS

RequestType ==
  [at : {"none", "entered", "handling", "ended", "upgraded"}, route : Route,
   ok : BOOLEAN, metered : BOOLEAN, hit : SUBSET Limiter, old : SUBSET Limiter]

\* What TypeOK says of the process.
FlagsOK ==
  /\ flag \in BOOLEAN /\ open \in BOOLEAN /\ closing \in BOOLEAN /\ crash \in BOOLEAN /\ rejected \in BOOLEAN
  /\ open => boot = "listening" /\ ~closing

\* The one shutdown more than there were signals is that of Apollo Server, when
\* it has stopped, which it cannot do before it was started.
ProcessOK ==
  /\ boot \in {"connecting", "graphql", "websocket", "listening"}
  /\ apollo \in {"off", "started", "stopping", "draining", "stopped"}
  /\ exit \in {"no", "clean", "failed"}
  /\ halts \in Nat /\ signals \in Nat
  /\ halts <= signals + (IF apollo = "stopped" THEN 1 ELSE 0)
  /\ boot \in {"connecting", "graphql"} => apollo = "off"

\* What TypeOK says of a request; and the limiter of its path has counted it,
\* that of its route only after it has been entered.
RequestOK(r) ==
  /\ r \in RequestType
  /\ r.at \in {"none", "upgraded"} => r = [NoRequest EXCEPT !.at = r.at]
  /\ r.at # "none" => boot = "listening"
  /\ r.old \subseteq r.hit
  /\ Outer(r.route) \subseteq r.hit /\ r.hit \subseteq Outer(r.route) \cup Inner(r.route)
  /\ r.at = "entered" => r.hit = Outer(r.route)
  /\ r.at \in {"entered", "handling"} \/ r.ok => r.metered

CountersOK ==
  /\ count \in [Limiter -> Nat] /\ kept \in [Limiter -> Nat] /\ late \in [Limiter -> Nat]
  /\ gauge \in Nat /\ leaked \in Nat

RequestsOK == req \in [Conn -> RequestType] /\ \A c \in Conn : RequestOK(req[c])

Inv == FlagsOK /\ ProcessOK /\ CountersOK /\ RequestsOK /\ CountExact /\ GaugeExact

-----------------------------------------------------------------------------
(***************************************************************************)
(* Counting.                                                               *)
(***************************************************************************)

LEMMA SubsetsFinite ==
  ASSUME NEW S, IsFiniteSet(S), NEW A \in SUBSET S
  PROVE  IsFiniteSet(A) /\ Cardinality(A) \in Nat
  BY FS_Subset, FS_CardinalityType

\* Two sets that differ at most in x.
LEMMA DifferInOne ==
  ASSUME NEW S, IsFiniteSet(S), NEW x \in S,
         NEW A \in SUBSET S, NEW B \in SUBSET S,
         \A y \in S : y # x => (y \in A <=> y \in B)
  PROVE  /\ Cardinality(A) \in Nat /\ Cardinality(B) \in Nat
         /\ x \in A => Cardinality(A) > 0
         /\ Cardinality(B) = Cardinality(A) + (IF x \in B THEN 1 ELSE 0)
                                            - (IF x \in A THEN 1 ELSE 0)
  <1>1. IsFiniteSet(A) /\ IsFiniteSet(B)
        /\ Cardinality(A) \in Nat /\ Cardinality(B) \in Nat
    BY SubsetsFinite
  <1>2. x \in A => Cardinality(A) > 0
    BY <1>1, FS_EmptySet
  <1>3. CASE x \in A /\ x \notin B
    <2>1. B = A \ {x}
      BY <1>3
    <2> QED  BY <2>1, <1>1, <1>2, <1>3, FS_RemoveElement
  <1>4. CASE x \notin A /\ x \in B
    <2>1. B = A \cup {x}
      BY <1>4
    <2> QED  BY <2>1, <1>1, <1>4, FS_AddElement
  <1>5. CASE x \in A <=> x \in B
    <2>1. A = B
      BY <1>5
    <2> QED  BY <2>1, <1>1, <1>2
  <1> QED  BY <1>3, <1>4, <1>5

\* The requests that the gauge should count.
Metered == {c \in Conn : req[c].metered}

\* What a step that puts r in the place of the request of c does to the sets
\* that are counted.
Recounted(c, r) ==
  /\ Cardinality(Metered) \in Nat
  /\ req[c].metered => Cardinality(Metered) > 0
  /\ Cardinality(Metered)' = Cardinality(Metered) + (IF r.metered THEN 1 ELSE 0)
                                                  - (IF req[c].metered THEN 1 ELSE 0)
  /\ \A l \in Limiter :
       /\ Open(l) \in Nat
       /\ l \in req[c].hit \ req[c].old => Open(l) > 0
       /\ Open(l)' = Open(l) + (IF l \in r.hit \ r.old THEN 1 ELSE 0)
                             - (IF l \in req[c].hit \ req[c].old THEN 1 ELSE 0)

LEMMA OneRequest ==
  ASSUME RequestsOK, NEW c \in Conn, NEW r, req' = [req EXCEPT ![c] = r]
  PROVE  Recounted(c, r)
  <1>1. req'[c] = r /\ \A d \in Conn : d # c => req'[d] = req[d]
    BY DEF RequestsOK
  <1>2. /\ Cardinality(Metered) \in Nat
        /\ req[c].metered => Cardinality(Metered) > 0
        /\ Cardinality(Metered)' = Cardinality(Metered) + (IF r.metered THEN 1 ELSE 0)
                                                        - (IF req[c].metered THEN 1 ELSE 0)
    <2> DEFINE A == Metered
               B == {d \in Conn : req'[d].metered}
    <2>1. A \in SUBSET Conn /\ B \in SUBSET Conn
          /\ (c \in A <=> req[c].metered) /\ (c \in B <=> r.metered)
          /\ \A d \in Conn : d # c => (d \in A <=> d \in B)
      BY <1>1 DEF Metered
    <2>2. Metered' = B
      BY DEF Metered
    <2> HIDE DEF A, B
    <2>3. /\ Cardinality(A) \in Nat /\ (c \in A => Cardinality(A) > 0)
          /\ Cardinality(B) = Cardinality(A) + (IF c \in B THEN 1 ELSE 0) - (IF c \in A THEN 1 ELSE 0)
      BY <2>1, ConnAssumption, DifferInOne
    <2> QED  BY <2>1, <2>2, <2>3 DEF A
  <1>3. ASSUME NEW l \in Limiter
        PROVE  /\ Open(l) \in Nat
               /\ l \in req[c].hit \ req[c].old => Open(l) > 0
               /\ Open(l)' = Open(l) + (IF l \in r.hit \ r.old THEN 1 ELSE 0)
                                     - (IF l \in req[c].hit \ req[c].old THEN 1 ELSE 0)
    <2> DEFINE A == {d \in Conn : l \in req[d].hit \ req[d].old}
               B == {d \in Conn : l \in req'[d].hit \ req'[d].old}
    <2>1. A \in SUBSET Conn /\ B \in SUBSET Conn
          /\ (c \in A <=> l \in req[c].hit \ req[c].old) /\ (c \in B <=> l \in r.hit \ r.old)
          /\ \A d \in Conn : d # c => (d \in A <=> d \in B)
      BY <1>1
    <2>2. Open(l) = Cardinality(A) /\ Open(l)' = Cardinality(B)
      BY DEF Open
    <2> HIDE DEF A, B
    <2>3. /\ Cardinality(A) \in Nat /\ (c \in A => Cardinality(A) > 0)
          /\ Cardinality(B) = Cardinality(A) + (IF c \in B THEN 1 ELSE 0) - (IF c \in A THEN 1 ELSE 0)
      BY <2>1, ConnAssumption, DifferInOne
    <2> QED  BY <2>1, <2>2, <2>3
  <1> QED  BY <1>2, <1>3 DEF Recounted

-----------------------------------------------------------------------------
(***************************************************************************)
(* Every step keeps Inv.                                                   *)
(***************************************************************************)

LEMMA InitInv == Init => Inv
<1> SUFFICES ASSUME Init PROVE Inv
  OBVIOUS
<1>1. FlagsOK /\ ProcessOK /\ CountersOK
  <2>1. FlagsOK
    BY Zenon DEF Init, FlagsOK
  <2>2. ProcessOK
    BY DEF Init, ProcessOK
  <2>3. CountersOK
    BY DEF Init, CountersOK
  <2> QED  BY <2>1, <2>2, <2>3
<1>2. RequestsOK
  BY DEF Init, RequestsOK, RequestOK, RequestType, NoRequest, Route, Outer, Inner
<1>3. Metered = {} /\ \A l \in Limiter : {c \in Conn : l \in req[c].hit \ req[c].old} = {}
  BY DEF Init, Metered, NoRequest
<1>4. CountExact /\ GaugeExact
  <2>1. Cardinality({}) = 0
    BY FS_EmptySet
  <2>2. \A l \in Limiter : Open(l) = 0 /\ count[l] = 0 /\ kept[l] = 0 /\ late[l] = 0
    BY <1>3, <2>1 DEF Init, Open
  <2>3. CountExact
    BY <2>2 DEF CountExact
  <2>4. GaugeExact
    BY <1>3, <2>1 DEF Init, GaugeExact, Metered
  <2> QED  BY <2>3, <2>4
<1> QED  BY <1>1, <1>2, <1>4 DEF Inv

\* The steps of the process leave requests alone, and a server that listens
\* does not start again.
LEMMA ProcessStep ==
  ASSUME Inv, FlagsOK', ProcessOK', UNCHANGED requests, boot = "listening" => boot' = boot
  PROVE  Inv'
<1>1. CountersOK' /\ CountExact' /\ GaugeExact'
  BY DEF Inv, requests, limits, CountersOK, CountExact, Open, GaugeExact
<1>2. RequestsOK'
  <2>1. \A r : RequestOK(r) => RequestOK(r)'
    BY DEF RequestOK
  <2> QED  BY <2>1 DEF Inv, RequestsOK, requests
<1> QED  BY <1>1, <1>2 DEF Inv

LEMMA ShutdownStep ==
  ASSUME Inv, Shutdown, UNCHANGED <<boot, flag, crash, rejected>>
  PROVE  halts' \in Nat /\ halts' <= halts + 1 /\ FlagsOK'
<1>1. halts' = halts + 1 \/ halts' = halts
  BY DEF Shutdown
<1>2. FlagsOK'
  BY Zenon DEF Inv, FlagsOK, Shutdown, Close
<1> QED  BY <1>1, <1>2 DEF Inv, ProcessOK

LEMMA ProcessSteps ==
  ASSUME Inv,
         \/ ConnectDatabase \/ SetupGraphQLServer \/ Listen \/ StartFails \/ Signal
         \/ Disconnected \/ DisconnectRejected \/ MongoDisconnected
         \/ ApolloDrains \/ ApolloStopped \/ HttpServerClosed \/ UncaughtException \/ CrashExit
  PROVE  Inv'
<1> USE DEF Inv
<1>1. CASE ConnectDatabase
  <2>1. FlagsOK'
    BY Zenon, <1>1 DEF ConnectDatabase, Starting, FlagsOK
  <2>2. ProcessOK' /\ (boot = "listening" => boot' = boot)
    BY <1>1 DEF ConnectDatabase, Starting, ProcessOK
  <2> QED  BY <1>1, <2>1, <2>2, ProcessStep DEF ConnectDatabase
<1>2. CASE SetupGraphQLServer
  <2>1. FlagsOK'
    BY Zenon, <1>2 DEF SetupGraphQLServer, Starting, FlagsOK
  <2>2. ProcessOK' /\ (boot = "listening" => boot' = boot)
    BY <1>2 DEF SetupGraphQLServer, Starting, ProcessOK
  <2> QED  BY <1>2, <2>1, <2>2, ProcessStep DEF SetupGraphQLServer
<1>3. CASE Listen
  <2>1. FlagsOK'
    BY Zenon, <1>3 DEF Listen, Starting, FlagsOK
  <2>2. ProcessOK' /\ (boot = "listening" => boot' = boot)
    BY <1>3 DEF Listen, Starting, ProcessOK
  <2> QED  BY <1>3, <2>1, <2>2, ProcessStep DEF Listen
<1>4. CASE StartFails
  <2>1. FlagsOK'
    BY Zenon, <1>4 DEF StartFails, Starting, Exit, FlagsOK
  <2>2. ProcessOK' /\ boot' = boot
    BY <1>4 DEF StartFails, Starting, Exit, ProcessOK
  <2> QED  BY <1>4, <2>1, <2>2, ProcessStep DEF StartFails
<1>5. CASE Signal
  <2>1. boot' = boot /\ signals' = signals + 1 /\ (apollo' = "stopped" <=> apollo = "stopped")
    BY <1>5 DEF Signal
  <2>2. halts' \in Nat /\ halts' <= halts + 1 /\ FlagsOK'
    BY <1>5, ShutdownStep DEF Signal
  <2>3. ProcessOK'
    BY <1>5, <2>1, <2>2 DEF Signal, ProcessOK
  <2> QED  BY <1>5, <2>1, <2>2, <2>3, ProcessStep DEF Signal
<1>6. CASE Disconnected
  <2>1. FlagsOK'
    BY Zenon, <1>6 DEF Disconnected, Close, FlagsOK
  <2>2. ProcessOK' /\ boot' = boot
    BY <1>6 DEF Disconnected, Close, ProcessOK
  <2> QED  BY <1>6, <2>1, <2>2, ProcessStep DEF Disconnected
<1>7. CASE DisconnectRejected
  <2>1. FlagsOK'
    BY Zenon, <1>7 DEF DisconnectRejected, FlagsOK
  <2>2. ProcessOK' /\ boot' = boot
    BY <1>7 DEF DisconnectRejected, ProcessOK
  <2> QED  BY <1>7, <2>1, <2>2, ProcessStep DEF DisconnectRejected
<1>8. CASE MongoDisconnected
  <2>1. FlagsOK'
    BY Zenon, <1>8 DEF MongoDisconnected, FlagsOK
  <2>2. ProcessOK' /\ boot' = boot
    BY <1>8 DEF MongoDisconnected, ProcessOK
  <2> QED  BY <1>8, <2>1, <2>2, ProcessStep DEF MongoDisconnected
<1>9. CASE ApolloDrains
  <2>1. FlagsOK'
    BY Zenon, <1>9 DEF ApolloDrains, FlagsOK
  <2>2. ProcessOK' /\ boot' = boot
    BY <1>9 DEF ApolloDrains, ProcessOK
  <2> QED  BY <1>9, <2>1, <2>2, ProcessStep DEF ApolloDrains
<1>10. CASE ApolloStopped
  <2>1. boot' = boot /\ apollo = "draining" /\ apollo' = "stopped" /\ signals' = signals
    BY <1>10 DEF ApolloStopped
  <2>2. halts' \in Nat /\ halts' <= halts + 1 /\ FlagsOK'
    BY <1>10, ShutdownStep DEF ApolloStopped
  <2>3. ProcessOK'
    BY <1>10, <2>1, <2>2 DEF ApolloStopped, ProcessOK
  <2> QED  BY <1>10, <2>1, <2>2, <2>3, ProcessStep DEF ApolloStopped
<1>11. CASE HttpServerClosed
  <2>1. FlagsOK'
    BY Zenon, <1>11 DEF HttpServerClosed, Exit, FlagsOK
  <2>2. ProcessOK' /\ boot' = boot
    BY <1>11 DEF HttpServerClosed, Exit, ProcessOK
  <2> QED  BY <1>11, <2>1, <2>2, ProcessStep DEF HttpServerClosed
<1>12. CASE UncaughtException
  <2>1. FlagsOK'
    BY Zenon, <1>12 DEF UncaughtException, FlagsOK
  <2>2. ProcessOK' /\ boot' = boot
    BY <1>12 DEF UncaughtException, ProcessOK
  <2> QED  BY <1>12, <2>1, <2>2, ProcessStep DEF UncaughtException
<1>13. CASE CrashExit
  <2>1. FlagsOK'
    BY Zenon, <1>13 DEF CrashExit, Exit, FlagsOK
  <2>2. ProcessOK' /\ boot' = boot
    BY <1>13 DEF CrashExit, Exit, ProcessOK
  <2> QED  BY <1>13, <2>1, <2>2, ProcessStep DEF CrashExit
<1> QED
  BY <1>1, <1>2, <1>3, <1>4, <1>5, <1>6, <1>7, <1>8, <1>9, <1>10, <1>11, <1>12, <1>13

\* The steps of a request leave the process alone.
LEMMA RequestTyped ==
  ASSUME Inv, NEW c \in Conn, NEW r, req' = [req EXCEPT ![c] = r], RequestOK(r), UNCHANGED process
  PROVE  FlagsOK' /\ ProcessOK' /\ RequestsOK'
<1>1. FlagsOK' /\ ProcessOK'
  BY DEF Inv, process, FlagsOK, ProcessOK
<1>2. \A q : RequestOK(q) => RequestOK(q)'
  BY DEF RequestOK, process
<1>3. r \in RequestType
  BY DEF RequestOK
<1>4. RequestsOK'
  BY <1>2, <1>3 DEF Inv, RequestsOK
<1> QED  BY <1>1, <1>4

Bit(b) == IF b THEN 1 ELSE 0

\* The gauge moves with the request that is replaced, or with leaked.
LEMMA GaugeStep ==
  ASSUME Inv, NEW c \in Conn, NEW r, req' = [req EXCEPT ![c] = r],
         r.metered \in BOOLEAN, leaked' \in Nat,
         gauge' = gauge + Bit(r.metered) - Bit(req[c].metered) + (leaked' - leaked)
  PROVE  GaugeExact' /\ gauge' \in Nat
<1>1. Recounted(c, r)
  BY OneRequest DEF Inv
<1>2. req[c].metered \in BOOLEAN
  BY DEF Inv, RequestsOK, RequestType
<1>3. gauge = Cardinality(Metered) + leaked /\ leaked \in Nat
  BY DEF Inv, GaugeExact, Metered, CountersOK
<1>4. gauge' = Cardinality(Metered)' + leaked' /\ Cardinality(Metered)' \in Nat
  BY <1>1, <1>2, <1>3 DEF Recounted, Bit
<1> QED  BY <1>4 DEF GaugeExact, Metered

\* A limiter's window, where the count moves with the request and with kept.
LEMMA WindowStep ==
  ASSUME Inv, NEW c \in Conn, NEW r, req' = [req EXCEPT ![c] = r], NEW l \in Limiter,
         UNCHANGED late, count'[l] \in Nat, kept'[l] \in Nat,
         count'[l] - count[l] =
           (kept'[l] - kept[l]) + Bit(l \in r.hit \ r.old) - Bit(l \in req[c].hit \ req[c].old)
  PROVE  count'[l] <= kept'[l] + Open(l)' /\ count'[l] >= kept'[l] + Open(l)' - late'[l]
<1>1. Recounted(c, r)
  BY OneRequest DEF Inv
<1>2. Open(l) \in Nat
      /\ Open(l)' = Open(l) + Bit(l \in r.hit \ r.old) - Bit(l \in req[c].hit \ req[c].old)
  BY <1>1 DEF Recounted, Bit
<1>3. count[l] \in Nat /\ kept[l] \in Nat /\ late[l] \in Nat
      /\ count[l] <= kept[l] + Open(l) /\ count[l] >= kept[l] + Open(l) - late[l]
  BY DEF Inv, CountersOK, CountExact
<1>4. Bit(l \in r.hit \ r.old) \in Int /\ Bit(l \in req[c].hit \ req[c].old) \in Int
  BY DEF Bit
<1> QED  BY <1>2, <1>3, <1>4

LEMMA ArriveStep == ASSUME Inv, NEW c \in Conn, Arrive(c) PROVE Inv'
<1>1. PICK t \in Routes :
        LET through == LetThrough(Outer(t)) IN
        /\ count' = Plus(count, Outer(t))
        /\ req' = [req EXCEPT ![c] =
             [at |-> IF ~through THEN "ended" ELSE IF Inner(t) = {} THEN "handling" ELSE "entered",
              route |-> t, ok |-> FALSE, metered |-> through, hit |-> Outer(t), old |-> {}]]
        /\ gauge' = IF through THEN gauge + 1 ELSE gauge
  BY DEF Arrive
<1> DEFINE through == LetThrough(Outer(t))
           r == [at |-> IF ~through THEN "ended" ELSE IF Inner(t) = {} THEN "handling" ELSE "entered",
                 route |-> t, ok |-> FALSE, metered |-> through, hit |-> Outer(t), old |-> {}]
<1>2. /\ req[c] = NoRequest /\ boot = "listening"
      /\ UNCHANGED <<process, kept, late, leaked>>
  BY DEF Arrive, Inv, FlagsOK, RequestsOK, RequestOK, NoRequest
<1>3. through \in BOOLEAN
  BY DEF LetThrough
<1>4. t \in Route /\ Outer(t) \subseteq Limiter
  BY RoutesAssumption DEF Outer, Route, Limiter
<1>5. RequestOK(r)
  BY <1>2, <1>3, <1>4 DEF RequestOK, RequestType, NoRequest, Inner
<1>6. /\ req' = [req EXCEPT ![c] = r]
      /\ r.metered = through /\ r.hit = Outer(t) /\ r.old = {}
      /\ req[c].metered = FALSE /\ req[c].hit = {} /\ req[c].old = {}
  BY <1>1, <1>2 DEF NoRequest
<1>7. count' = Plus(count, Outer(t)) /\ gauge' = IF through THEN gauge + 1 ELSE gauge
  BY <1>1
<1> HIDE DEF r, through
<1>8. FlagsOK' /\ ProcessOK' /\ RequestsOK'
  BY <1>2, <1>5, <1>6, RequestTyped
<1>9. GaugeExact' /\ gauge' \in Nat
  <2>1. gauge' = gauge + Bit(r.metered) - Bit(req[c].metered) + (leaked' - leaked)
    BY <1>2, <1>3, <1>6, <1>7 DEF Bit, Inv, CountersOK
  <2> QED  BY <1>2, <1>3, <1>6, <2>1, GaugeStep DEF Inv, CountersOK
<1>10. CountersOK'
  BY <1>2, <1>7, <1>9 DEF Inv, CountersOK, Plus
<1>11. CountExact'
  <2> SUFFICES ASSUME NEW l \in Limiter
               PROVE  count'[l] <= kept'[l] + Open(l)' /\ count'[l] >= kept'[l] + Open(l)' - late'[l]
    BY DEF CountExact
  <2>1. count'[l] - count[l] =
          (kept'[l] - kept[l]) + Bit(l \in r.hit \ r.old) - Bit(l \in req[c].hit \ req[c].old)
    BY <1>2, <1>6, <1>7 DEF Plus, Bit, Inv, CountersOK
  <2>2. count'[l] \in Nat /\ kept'[l] \in Nat
    BY <1>10 DEF CountersOK
  <2> QED  BY <1>2, <1>6, <2>1, <2>2, WindowStep
<1> QED  BY <1>8, <1>9, <1>10, <1>11 DEF Inv

LEMMA EnterRouteStep == ASSUME Inv, NEW c \in Conn, EnterRoute(c) PROVE Inv'
<1> DEFINE L == Inner(req[c].route)
           r == [req[c] EXCEPT !.at = IF LetThrough(L) THEN "handling" ELSE "ended", !.hit = @ \cup L]
<1>1. /\ req[c].at = "entered" /\ req' = [req EXCEPT ![c] = r]
      /\ count' = Plus(count, L) /\ UNCHANGED <<process, kept, late, gauge, leaked>>
  BY DEF EnterRoute, Inv, RequestsOK
<1>2. req[c] \in RequestType /\ RequestOK(req[c])
  BY DEF Inv, RequestsOK
<1>3. L \subseteq Limiter /\ L \cap req[c].hit = {} /\ req[c].old \subseteq req[c].hit
  BY <1>1, <1>2 DEF RequestOK, RequestType, Inner, Outer, Limiter
<1>4. r.metered = req[c].metered /\ r.hit = req[c].hit \cup L /\ r.old = req[c].old
      /\ r.at \in {"handling", "ended"} /\ r.route = req[c].route /\ r.ok = req[c].ok
      /\ r \in RequestType
  BY <1>2, <1>3 DEF RequestType
<1>5. RequestOK(r)
  BY <1>1, <1>2, <1>4 DEF RequestOK
<1> HIDE DEF r
<1>6. FlagsOK' /\ ProcessOK' /\ RequestsOK'
  BY <1>1, <1>5, RequestTyped
<1>7. GaugeExact' /\ gauge' \in Nat
  <2>1. gauge' = gauge + Bit(r.metered) - Bit(req[c].metered) + (leaked' - leaked)
    BY <1>1, <1>4 DEF Bit, Inv, CountersOK
  <2> QED  BY <1>1, <1>2, <1>4, <2>1, GaugeStep DEF Inv, CountersOK, RequestType
<1>8. CountersOK'
  BY <1>1, <1>7 DEF Inv, CountersOK, Plus
<1>9. CountExact'
  <2> SUFFICES ASSUME NEW l \in Limiter
               PROVE  count'[l] <= kept'[l] + Open(l)' /\ count'[l] >= kept'[l] + Open(l)' - late'[l]
    BY DEF CountExact
  <2>1. count'[l] - count[l] =
          (kept'[l] - kept[l]) + Bit(l \in r.hit \ r.old) - Bit(l \in req[c].hit \ req[c].old)
    BY <1>1, <1>3, <1>4 DEF Plus, Bit, Inv, CountersOK
  <2>2. count'[l] \in Nat /\ kept'[l] \in Nat
    BY <1>8 DEF CountersOK
  <2> QED  BY <1>1, <2>1, <2>2, WindowStep
<1> QED  BY <1>6, <1>7, <1>8, <1>9 DEF Inv

\* Answer, Upgrade and Leave change a request, but not what is counted of it.
LEMMA UncountedStep ==
  ASSUME Inv, NEW c \in Conn, NEW r, req' = [req EXCEPT ![c] = r], RequestOK(r),
         r.metered = req[c].metered, r.hit = req[c].hit, r.old = req[c].old,
         UNCHANGED <<process, limits, gauge, leaked>>
  PROVE  Inv'
<1>1. FlagsOK' /\ ProcessOK' /\ RequestsOK'
  BY RequestTyped
<1>2. GaugeExact' /\ gauge' \in Nat
  <2>1. gauge' = gauge + Bit(r.metered) - Bit(req[c].metered) + (leaked' - leaked)
    BY DEF Bit, Inv, CountersOK
  <2> QED  BY <2>1, GaugeStep DEF Inv, CountersOK, RequestOK, RequestType
<1>3. CountersOK'
  BY DEF limits, Inv, CountersOK
<1>4. CountExact'
  <2> SUFFICES ASSUME NEW l \in Limiter
               PROVE  count'[l] <= kept'[l] + Open(l)' /\ count'[l] >= kept'[l] + Open(l)' - late'[l]
    BY DEF CountExact
  <2>1. count'[l] - count[l] =
          (kept'[l] - kept[l]) + Bit(l \in r.hit \ r.old) - Bit(l \in req[c].hit \ req[c].old)
    BY DEF limits, Bit, Inv, CountersOK
  <2>2. count'[l] \in Nat /\ kept'[l] \in Nat
    BY <1>3 DEF CountersOK
  <2> QED  BY <2>1, <2>2, WindowStep DEF limits
<1> QED  BY <1>1, <1>2, <1>3, <1>4 DEF Inv

LEMMA AnswerStep == ASSUME Inv, NEW c \in Conn, Answer(c) PROVE Inv'
<1>1. PICK ok \in BOOLEAN : req' = [req EXCEPT ![c].at = "ended", ![c].ok = ok]
  BY DEF Answer
<1> DEFINE r == [req[c] EXCEPT !.at = "ended", !.ok = ok]
<1>2. req[c].at = "handling" /\ RequestOK(req[c]) /\ req[c] \in RequestType
      /\ UNCHANGED <<process, limits, gauge, leaked>>
  BY DEF Answer, Inv, RequestsOK
<1>3. req' = [req EXCEPT ![c] = r]
  BY <1>1 DEF Inv, RequestsOK
<1>4. RequestOK(r) /\ r.metered = req[c].metered /\ r.hit = req[c].hit /\ r.old = req[c].old
  BY <1>2 DEF RequestOK, RequestType
<1> QED  BY <1>2, <1>3, <1>4, UncountedStep

LEMMA TurnedAwayStep == ASSUME Inv, NEW c \in Conn, TurnedAway(c) PROVE Inv'
<1> DEFINE r == [req[c] EXCEPT !.at = "ended"]
<1>1. req[c].at = "entered" /\ RequestOK(req[c]) /\ req[c] \in RequestType
      /\ UNCHANGED <<process, limits, gauge, leaked>>
  BY DEF TurnedAway, Inv, RequestsOK
<1>2. req' = [req EXCEPT ![c] = r]
  BY DEF TurnedAway, Inv, RequestsOK
<1>3. RequestOK(r) /\ r.metered = req[c].metered /\ r.hit = req[c].hit /\ r.old = req[c].old
  BY <1>1 DEF RequestOK, RequestType
<1> QED  BY <1>1, <1>2, <1>3, UncountedStep

LEMMA UpgradeStep == ASSUME Inv, NEW c \in Conn, Upgrade(c) PROVE Inv'
<1> DEFINE r == [req[c] EXCEPT !.at = "upgraded"]
<1>1. req[c] = NoRequest /\ boot = "listening" /\ req' = [req EXCEPT ![c] = r]
      /\ UNCHANGED <<process, limits, gauge, leaked>>
  BY DEF Upgrade, Inv, FlagsOK, RequestsOK, RequestOK, NoRequest
<1>2. r = [NoRequest EXCEPT !.at = "upgraded"]
  BY <1>1
<1>3. RequestOK(r)
  BY <1>1, <1>2 DEF RequestOK, RequestType, NoRequest, Route, Outer
<1>4. r.metered = req[c].metered /\ r.hit = req[c].hit /\ r.old = req[c].old
  BY <1>1, <1>2 DEF NoRequest
<1> QED  BY <1>1, <1>3, <1>4, UncountedStep

LEMMA NoRequestOK == RequestOK(NoRequest)
  BY DEF RequestOK, RequestType, NoRequest, Route, Outer

LEMMA LeaveStep == ASSUME Inv, NEW c \in Conn, Leave(c) PROVE Inv'
<1>1. req' = [req EXCEPT ![c] = NoRequest] /\ UNCHANGED <<process, limits, gauge, leaked>>
  BY DEF Leave, Over
<1>2. NoRequest.metered = req[c].metered /\ NoRequest.hit = req[c].hit /\ NoRequest.old = req[c].old
  BY DEF Leave, Inv, RequestsOK, RequestOK, NoRequest
<1> QED  BY <1>1, <1>2, NoRequestOK, UncountedStep

LEMMA LoseStep == ASSUME Inv, NEW c \in Conn, Lose(c) PROVE Inv'
<1>1. /\ req' = [req EXCEPT ![c] = NoRequest]
      /\ gauge' = IF CountedClose(c) THEN gauge - 1 ELSE gauge
      /\ leaked' = IF req[c].metered /\ req[c].at = "ended" THEN leaked + 1 ELSE leaked
      /\ kept' = Plus(kept, req[c].hit \ req[c].old)
      /\ UNCHANGED <<process, count, late>>
  BY DEF Lose, Over, Keep
<1>2. NoRequest.metered = FALSE /\ NoRequest.hit = {} /\ NoRequest.old = {}
      /\ req[c].metered \in BOOLEAN
  BY DEF NoRequest, Inv, RequestsOK, RequestType
<1>3. FlagsOK' /\ ProcessOK' /\ RequestsOK'
  BY <1>1, NoRequestOK, RequestTyped
<1>4. leaked' \in Nat
  BY <1>1 DEF Inv, CountersOK
<1>5. GaugeExact' /\ gauge' \in Nat
  <2>1. gauge' = gauge + Bit(NoRequest.metered) - Bit(req[c].metered) + (leaked' - leaked)
    BY <1>1, <1>2 DEF CountedClose, Bit, Inv, CountersOK
  <2> QED  BY <1>1, <1>2, <1>4, <2>1, GaugeStep
<1>6. CountersOK'
  BY <1>1, <1>4, <1>5 DEF Inv, CountersOK, Plus
<1>7. CountExact'
  <2> SUFFICES ASSUME NEW l \in Limiter
               PROVE  count'[l] <= kept'[l] + Open(l)' /\ count'[l] >= kept'[l] + Open(l)' - late'[l]
    BY DEF CountExact
  <2>1. kept'[l] = kept[l] + Bit(l \in req[c].hit \ req[c].old) /\ count'[l] = count[l]
    BY <1>1 DEF Plus, Bit, Inv, CountersOK
  <2>2. count[l] \in Nat /\ kept[l] \in Nat /\ Bit(l \in req[c].hit \ req[c].old) \in Int
        /\ Bit(l \in NoRequest.hit \ NoRequest.old) = 0
    BY <1>2 DEF Bit, Inv, CountersOK
  <2>3. count'[l] - count[l] = (kept'[l] - kept[l])
          + Bit(l \in NoRequest.hit \ NoRequest.old) - Bit(l \in req[c].hit \ req[c].old)
    BY <2>1, <2>2
  <2>4. count'[l] \in Nat /\ kept'[l] \in Nat
    BY <1>6 DEF CountersOK
  <2> QED  BY <1>1, <2>3, <2>4, WindowStep
<1> QED  BY <1>3, <1>5, <1>6, <1>7 DEF Inv

\* The one step that may count too little: a success takes back a hit of its
\* limiter, which is its own unless the window of that one is over.
LEMMA FinishStep == ASSUME Inv, NEW c \in Conn, Finish(c) PROVE Inv'
<1> DEFINE T == TakenBack(c)
           back == {l \in T : count[l] > 0}
<1>1. /\ req' = [req EXCEPT ![c] = NoRequest]
      /\ count' = [l \in Limiter |-> IF l \in back THEN count[l] - 1 ELSE count[l]]
      /\ gauge' = IF req[c].metered THEN gauge - 1 ELSE gauge
      /\ kept' = Plus(kept, (req[c].hit \ req[c].old) \ (Outer(req[c].route) \cap (IF req[c].ok THEN Limiter ELSE {})))
      /\ late' = Plus(late, back \cap req[c].old)
      /\ UNCHANGED <<process, leaked>>
  BY DEF Finish, Over, Keep
<1>2. NoRequest.metered = FALSE /\ NoRequest.hit = {} /\ NoRequest.old = {}
  BY DEF NoRequest
<1>3. req[c] \in RequestType /\ RequestOK(req[c])
  BY DEF Inv, RequestsOK
<1>4. T = Outer(req[c].route) \cap (IF req[c].ok THEN Limiter ELSE {}) /\ T \subseteq req[c].hit
  BY <1>3 DEF TakenBack, RequestOK, RequestType
<1>5. FlagsOK' /\ ProcessOK' /\ RequestsOK'
  BY <1>1, NoRequestOK, RequestTyped
<1>6. GaugeExact' /\ gauge' \in Nat
  <2>1. gauge' = gauge + Bit(NoRequest.metered) - Bit(req[c].metered) + (leaked' - leaked)
    BY <1>1, <1>2, <1>3 DEF Bit, RequestType, Inv, CountersOK
  <2> QED  BY <1>1, <1>2, <2>1, GaugeStep DEF Inv, CountersOK
<1> HIDE DEF T
<1>7. CountersOK'
  <2>1. count' \in [Limiter -> Nat]
    <3> SUFFICES ASSUME NEW l \in Limiter
                 PROVE  (IF l \in back THEN count[l] - 1 ELSE count[l]) \in Nat
      BY <1>1
    <3> QED  BY DEF Inv, CountersOK
  <2>2. kept' \in [Limiter -> Nat] /\ late' \in [Limiter -> Nat]
    BY <1>1 DEF Inv, CountersOK, Plus
  <2> QED  BY <1>1, <1>6, <2>1, <2>2 DEF Inv, CountersOK
<1>8. CountExact'
  <2> SUFFICES ASSUME NEW l \in Limiter
               PROVE  count'[l] <= kept'[l] + Open(l)' /\ count'[l] >= kept'[l] + Open(l)' - late'[l]
    BY DEF CountExact
  <2> DEFINE own == l \in req[c].hit \ req[c].old
  <2>1. Open(l) \in Nat /\ (own => Open(l) > 0) /\ Open(l)' = Open(l) - Bit(own)
    <3>1. Recounted(c, NoRequest)
      BY <1>1, OneRequest DEF Inv
    <3> QED  BY <1>2, <3>1 DEF Recounted, Bit
  <2>2. count'[l] = count[l] - Bit(l \in T /\ count[l] > 0)
    BY <1>1 DEF Bit, Inv, CountersOK
  <2>3. kept'[l] = kept[l] + Bit(own /\ l \notin T)
    BY <1>1, <1>4 DEF Plus, Bit, Inv, CountersOK
  <2>4. late'[l] = late[l] + Bit(l \in T /\ count[l] > 0 /\ l \in req[c].old)
    BY <1>1 DEF Plus, Bit, Inv, CountersOK
  <2>5. count[l] \in Nat /\ kept[l] \in Nat /\ late[l] \in Nat
        /\ count[l] <= kept[l] + Open(l) /\ count[l] >= kept[l] + Open(l) - late[l]
    BY DEF Inv, CountersOK, CountExact
  <2>6. CASE l \notin T
    <3>1. count'[l] = count[l] /\ kept'[l] = kept[l] + Bit(own) /\ late'[l] = late[l] /\ Bit(own) \in Int
      BY <2>2, <2>3, <2>4, <2>5, <2>6 DEF Bit
    <3> QED  BY <2>1, <2>5, <3>1
  <2>7. CASE l \in T /\ own
    <3>1. kept'[l] = kept[l] /\ late'[l] = late[l] /\ Open(l)' = Open(l) - 1
          /\ count'[l] = IF count[l] > 0 THEN count[l] - 1 ELSE 0
      BY <2>1, <2>2, <2>3, <2>4, <2>5, <2>7 DEF Bit
    <3> QED  BY <2>1, <2>5, <2>7, <3>1
  <2>8. CASE l \in T /\ l \in req[c].old
    <3>1. kept'[l] = kept[l] /\ Open(l)' = Open(l)
          /\ late'[l] = late[l] + (IF count[l] > 0 THEN 1 ELSE 0)
          /\ count'[l] = IF count[l] > 0 THEN count[l] - 1 ELSE 0
      BY <2>1, <2>2, <2>3, <2>4, <2>5, <2>8 DEF Bit
    <3> QED  BY <2>1, <2>5, <3>1
  <2> QED  BY <1>4, <2>6, <2>7, <2>8
<1> QED  BY <1>5, <1>6, <1>7, <1>8 DEF Inv

LEMMA WindowEndsStep == ASSUME Inv, NEW l \in Limiter, WindowEnds(l) PROVE Inv'
<1>1. /\ count' = [count EXCEPT ![l] = 0] /\ kept' = [kept EXCEPT ![l] = 0]
      /\ late' = [late EXCEPT ![l] = 0]
      /\ req' = [c \in Conn |-> [req[c] EXCEPT !.old = @ \cup ({l} \cap req[c].hit)]]
      /\ UNCHANGED <<process, gauge, leaked>>
  BY DEF WindowEnds
<1>2. FlagsOK' /\ ProcessOK'
  BY <1>1 DEF Inv, process, FlagsOK, ProcessOK
<1>3. CountersOK'
  BY <1>1 DEF Inv, CountersOK
<1>4. ASSUME NEW c \in Conn
      PROVE  /\ RequestOK(req'[c])
             /\ req'[c].metered = req[c].metered /\ req'[c].hit = req[c].hit
             /\ req'[c].old = req[c].old \cup ({l} \cap req[c].hit)
  <2>1. req[c] \in RequestType /\ RequestOK(req[c])
    BY DEF Inv, RequestsOK
  <2>2. req'[c] = [req[c] EXCEPT !.old = @ \cup ({l} \cap req[c].hit)] /\ boot' = boot
    BY <1>1 DEF process
  <2>3. req'[c].metered = req[c].metered /\ req'[c].hit = req[c].hit /\ req'[c].at = req[c].at
        /\ req'[c].route = req[c].route /\ req'[c].ok = req[c].ok
        /\ req'[c].old = req[c].old \cup ({l} \cap req[c].hit)
        /\ req'[c] \in RequestType
    BY <2>1, <2>2 DEF RequestType
  <2>4. req[c].at \in {"none", "upgraded"} => req'[c] = req[c]
    BY <2>1, <2>2 DEF RequestOK, NoRequest
  <2>5. RequestOK(req'[c])
    BY <2>1, <2>2, <2>3, <2>4 DEF RequestOK
  <2> QED  BY <2>3, <2>5
<1>5. RequestsOK'
  <2>1. req' \in [Conn -> RequestType]
    BY <1>1, <1>4 DEF RequestOK
  <2>2. \A q : RequestOK(q) => RequestOK(q)'
    BY <1>1 DEF RequestOK, process
  <2> QED  BY <1>4, <2>1, <2>2 DEF RequestsOK
<1>6. GaugeExact'
  <2>1. {c \in Conn : req[c].metered}' = {c \in Conn : req[c].metered}
    BY <1>4
  <2> QED  BY <1>1, <2>1 DEF Inv, GaugeExact
<1>7. CountExact'
  <2> SUFFICES ASSUME NEW m \in Limiter
               PROVE  count'[m] <= kept'[m] + Open(m)' /\ count'[m] >= kept'[m] + Open(m)' - late'[m]
    BY DEF CountExact
  <2>1. CASE m = l
    <3>1. {c \in Conn : m \in req'[c].hit \ req'[c].old} = {}
      BY <1>4, <2>1
    <3>2. Open(m)' = 0
      BY <3>1, FS_EmptySet DEF Open
    <3>3. count'[m] = 0 /\ kept'[m] = 0 /\ late'[m] = 0
      BY <1>1, <2>1 DEF Inv, CountersOK
    <3> QED  BY <3>2, <3>3
  <2>2. CASE m # l
    <3>1. {c \in Conn : m \in req'[c].hit \ req'[c].old} = {c \in Conn : m \in req[c].hit \ req[c].old}
      BY <1>4, <2>2
    <3>2. Open(m)' = Open(m) /\ count'[m] = count[m] /\ kept'[m] = kept[m] /\ late'[m] = late[m]
      BY <1>1, <2>2, <3>1 DEF Open, Inv, CountersOK
    <3> QED  BY <3>2 DEF Inv, CountExact
  <2> QED  BY <2>1, <2>2
<1> QED  BY <1>2, <1>3, <1>5, <1>6, <1>7 DEF Inv

LEMMA StepInv == Inv /\ [Next]_vars => Inv'
<1> SUFFICES ASSUME Inv, [Next]_vars PROVE Inv'
  OBVIOUS
<1>1. CASE UNCHANGED vars
  <2>1. UNCHANGED process /\ UNCHANGED requests
    BY <1>1 DEF vars
  <2>2. FlagsOK' /\ ProcessOK' /\ boot' = boot
    BY <2>1 DEF process, Inv, FlagsOK, ProcessOK
  <2> QED  BY <2>1, <2>2, ProcessStep
<1>2. ASSUME NEW c \in Conn, Arrive(c) \/ Serve(c) \/ Upgrade(c) \/ Leave(c)
      PROVE  Inv'
  BY <1>2, ArriveStep, EnterRouteStep, TurnedAwayStep, AnswerStep, FinishStep, LoseStep, UpgradeStep, LeaveStep
  DEF Serve
<1>3. ASSUME NEW l \in Limiter, WindowEnds(l) PROVE Inv'
  BY <1>3, WindowEndsStep
<1> QED  BY <1>1, <1>2, <1>3, ProcessSteps DEF Next

-----------------------------------------------------------------------------
(***************************************************************************)
(* What operators can rely on.                                             *)
(***************************************************************************)

\* Every variable of an instance has its type, a request is counted by limiters
\* of its route only, and shutdown is never called more often than there were
\* signals, but once more by Apollo Server.
THEOREM ServerTyped == Spec => []TypeOK
<1>1. Inv => TypeOK
  <2> SUFFICES ASSUME Inv PROVE TypeOK
    OBVIOUS
  <2>1. halts <= signals + 1
    BY DEF Inv, ProcessOK
  <2>2. \A c \in Conn : RequestOK(req[c])
    BY DEF Inv, RequestsOK
  <2> QED
    BY <2>1, <2>2 DEF Inv, FlagsOK, ProcessOK, CountersOK, RequestsOK, RequestOK, RequestType, TypeOK
<1> QED  BY <1>1, InitInv, StepInv, PTL DEF Spec

\* However requests overlap, fail, break off or outlive a window, a limiter's
\* count is the failed ones and those in flight, less the successes of an
\* earlier window; for any maximum and any number of connections.
THEOREM LimitersCount == Spec => []CountExact
<1>1. Inv => CountExact
  BY DEF Inv
<1> QED  BY <1>1, InitInv, StepInv, PTL DEF Spec

\* The gauge of active requests is the number of them, plus the responses
\* broken off after their end.
THEOREM GaugeCounts == Spec => []GaugeExact
<1>1. Inv => GaugeExact
  BY DEF Inv
<1> QED  BY <1>1, InitInv, StepInv, PTL DEF Spec
=============================================================================
