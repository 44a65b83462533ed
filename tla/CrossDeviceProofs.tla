------------------------- MODULE CrossDeviceProofs -------------------------
(***************************************************************************)
(* Proofs about CrossDevice, for every number of users, devices and jobs:  *)
(* it implements SessionService, so that the theorems about the table hold *)
(* of the whole, and a device whose session is deleted is told.            *)
(***************************************************************************)
EXTENDS CrossDevice, SequenceTheorems, TLAPS

P == INSTANCE SessionServiceProofs WITH Request <- Device

-----------------------------------------------------------------------------
(***************************************************************************)
(* One service, instantiated twice: S in CrossDevice, P with its theorems. *)
(***************************************************************************)

LEMMA SameInit == S!Init <=> P!Init
BY DEF S!Init, P!Init, S!Idle, P!Idle, S!Worker, P!Worker

LEMMA SameNext == S!Next <=> P!Next
BY DEF S!Next, P!Next, S!Call, P!Call, S!Step, P!Step,
       S!StartLogin, P!StartLogin, S!Count, P!Count,
       S!FindOldest, P!FindOldest, S!Evict, P!Evict, S!Create, P!Create,
       S!FindSession, P!FindSession, S!Expire, P!Expire,
       S!Terminate, P!Terminate, S!TerminateAll, P!TerminateAll,
       S!SweepFind, P!SweepFind, S!SweepDelete, P!SweepDelete,
       S!TerminateAllUnanswered, P!TerminateAllUnanswered,
       S!CreateUnanswered, P!CreateUnanswered, S!EndUnanswered, P!EndUnanswered,
       S!Forget, P!Forget, S!NoBroadcast, P!NoBroadcast,
       S!Fail, P!Fail, S!EmitUpdate, P!EmitUpdate, S!Tick, P!Tick,
       S!RowsOf, P!RowsOf, S!Ids, P!Ids, S!Tokens, P!Tokens,
       S!Expired, P!Expired, S!Become, P!Become, S!Remove, P!Remove,
       S!Broadcast, P!Broadcast, S!Clock, P!Clock,
       S!IsOldest, P!IsOldest, S!EvictTaskOf, P!EvictTaskOf,
       S!CreateTaskOf, P!CreateTaskOf, S!NewRow, P!NewRow,
       S!Idle, P!Idle, S!Cardinality, P!Cardinality

LEMMA SameStep == [S!Next]_(S!vars) <=> [P!Next]_(P!vars)
BY SameNext DEF S!vars, P!vars

LEMMA SameTypeOK == S!TypeOK <=> P!TypeOK
BY DEF S!TypeOK, P!TypeOK, S!Row, P!Row, S!Token, P!Token, S!Task, P!Task,
       S!Idle, P!Idle, S!LoginTask, P!LoginTask, S!EvictTask, P!EvictTask,
       S!EndTask, P!EndTask, S!SweepTask, P!SweepTask, S!Worker, P!Worker,
       S!IsFiniteSet, P!IsFiniteSet

LEMMA SameLocalsFresh == S!LocalsFresh <=> P!LocalsFresh
BY DEF S!LocalsFresh, P!LocalsFresh, S!LocalFresh, P!LocalFresh,
       S!Known, P!Known, S!Expired, P!Expired, S!Worker, P!Worker

LEMMA SameOvershoot == S!OvershootBounded <=> P!OvershootBounded
BY DEF S!OvershootBounded, P!OvershootBounded, S!RowsOf, P!RowsOf,
       S!Cardinality, P!Cardinality

LEMMA SameSpec == S!Spec <=> P!Spec
BY SameInit, SameStep, PTL DEF S!Spec, P!Spec

LEMMA ServiceTypeStep ==
  ASSUME S!TypeOK, [S!Next]_(S!vars)
  PROVE  S!TypeOK'
<1>1. P!TypeOK /\ [P!Next]_(P!vars)
  BY SameTypeOK, SameStep
<1>2. P!TypeOK'
  BY <1>1, ServiceAssumption, P!TypeStep DEF P!IsFiniteSet, IsFiniteSet
<1> QED
  BY <1>2, SameTypeOK, PTL

-----------------------------------------------------------------------------
(***************************************************************************)
(* Every step of the devices is a step of the service, or leaves it alone. *)
(***************************************************************************)

LEMMA CallsService ==
  ASSUME NEW d \in Device, DeviceCall(d) \/ Receive(d)
  PROVE  S!Call(d) \/ UNCHANGED service
<1>1. Owner[d] \in User
  BY DeviceAssumption
<1>2. LogIn(d) => S!Call(d)
  BY <1>1 DEF LogIn, S!Call
<1>3. LogOut(d) => S!Call(d) \/ UNCHANGED service
  BY DEF LogOut, S!Call
<1>4. \A r \in sessions :
        Revoke(d, r) \/ AskLogOutDevice(d, r) => S!Call(d) \/ UNCHANGED service
  BY DEF Revoke, AskLogOutDevice, S!Call
<1>5. LogOutAll(d) \/ Refresh(d) \/ Connect(d) \/ Disconnect(d) \/ AskLogOutAll(d)
        => UNCHANGED service
  BY DEF LogOutAll, Refresh, Connect, Disconnect, AskLogOutAll
<1>6. Receive(d) => S!Call(d) \/ UNCHANGED service
  BY <1>3 DEF Receive
<1> QED
  BY <1>2, <1>3, <1>4, <1>5, <1>6 DEF DeviceCall

LEMMA StepsService ==
  ASSUME TypeOK, NEW d \in Device, DeviceStep(d)
  PROVE  S!Call(d) \/ S!Step(d) \/ S!Fail(d) \/ UNCHANGED service
<1>1. LogOutAllEnd(d) => S!Call(d)
  <2> SUFFICES ASSUME LogOutAllEnd(d) PROVE S!Call(d)
    OBVIOUS
  <2>1. route[d].token \in Own(d)
    BY DEF LogOutAllEnd, TypeOK, DeviceOK
  <2>2. PICK t \in 0..now : route[d].token = <<Owner[d], t>>
    BY <2>1 DEF Own
  <2>3. S!TerminateAll(d, Owner[d], <<Owner[d], t>>)
    BY <2>2 DEF LogOutAllEnd
  <2> QED
    BY <2>3, DeviceAssumption DEF S!Call
<1>2. LoginCheck(d) \/ LoginEvict(d) \/ LoginCreate(d) => S!Step(d)
  BY DEF LoginCheck, LoginEvict, LoginCreate, S!Step
<1>3. LoginFails(d) \/ LogOutEnd(d) \/ RevokeEnd(d) \/ NotFound(d)
        => S!Step(d) \/ S!Fail(d)
  BY DEF LoginFails, LogOutEnd, RevokeEnd, NotFound, S!Step
<1>4. LogOutAllFails(d) => S!Call(d) \/ UNCHANGED service
  <2> SUFFICES ASSUME LogOutAllFails(d) PROVE S!Call(d) \/ UNCHANGED service
    OBVIOUS
  <2>1. route[d].token \in Own(d)
    BY DEF LogOutAllFails, TypeOK, DeviceOK
  <2>2. PICK t \in 0..now : route[d].token = <<Owner[d], t>>
    BY <2>1 DEF Own
  <2>3. S!TerminateAllUnanswered(d, Owner[d], <<Owner[d], t>>) \/ UNCHANGED service
    BY <2>2 DEF LogOutAllFails
  <2> QED
    BY <2>3, DeviceAssumption DEF S!Call
<1> QED
  BY <1>1, <1>2, <1>3, <1>4 DEF DeviceStep

LEMMA ServiceStep ==
  ASSUME TypeOK, [Next]_vars
  PROVE  [S!Next]_(S!vars)
<1>1. ASSUME NEW d \in Device, DeviceStep(d) PROVE [S!Next]_(S!vars)
  BY <1>1, StepsService DEF S!Next, S!vars, service
<1>2. ASSUME NEW d \in Device, DeviceCall(d) \/ Receive(d) PROVE [S!Next]_(S!vars)
  BY <1>2, CallsService DEF S!Next, S!vars, service
<1>3. ASSUME NEW c \in Cron, SweepFind(c) \/ SweepEnd(c) \/ SweepFails(c)
      PROVE  [S!Next]_(S!vars)
  BY <1>3 DEF SweepFind, SweepEnd, SweepFails, S!Next
<1>4. ASSUME NEW u \in User, EmitUpdate(u) PROVE [S!Next]_(S!vars)
  BY <1>4 DEF EmitUpdate, S!Next
<1>5. Tick => [S!Next]_(S!vars)
  BY DEF Tick, S!Next
<1>6. UNCHANGED vars => [S!Next]_(S!vars)
  BY DEF vars, service, S!vars
<1> QED
  BY <1>1, <1>2, <1>3, <1>4, <1>5, <1>6 DEF Next

-----------------------------------------------------------------------------
(***************************************************************************)
(* What a step leaves as it was, and what sending and losing change.       *)
(***************************************************************************)

LEMMA Moves ==
  ASSUME S!TypeOK, NEW w \in S!Worker, NEW t, S!Become(w, t)
  PROVE  task'[w] = t /\ \A e \in Device \ {w} : task'[e] = task[e]
BY DEF S!TypeOK, S!Become, S!Worker

LEMMA HeldRows ==
  ASSUME S!TypeOK, NEW w \in S!Worker
  PROVE  /\ task[w].at \in {"expire", "terminate"} => task[w].row \in S!Row
         /\ task[w].at = "create" => task[w].expiresAt \in Nat
BY DEF S!TypeOK, S!Task, S!Idle, S!LoginTask, S!EvictTask, S!EndTask, S!SweepTask

LEMMA EmitTyped ==
  ASSUME TypeOK, NEW users, NEW e \in Events, Emit(users, e)
  PROVE  /\ inbox' \in [Device -> Seq(Events)]
         /\ \A d \in Device : d \notin online => inbox'[d] = inbox[d]
BY DEF TypeOK, Emit

LEMMA LoseTyped ==
  ASSUME TypeOK,
         (\E d \in Device : LoseTo(d))
           \/ \E how \in {"evicted", "deleted", "unanswered", "expired", "loggedOut"} : Lose(how)
  PROVE  lost' \in [Device -> Causes]
BY DEF TypeOK, Lose, LoseTo, Causes, Deletions

LEMMA RunTyped ==
  ASSUME TypeOK, NEW d \in Device,
         Finish(d) \/ \E name \in RouteName : Run(d, name)
  PROVE  /\ route' \in [Device -> [name : RouteName, token : {None} \cup S!Token]]
         /\ \A e \in Device \ {d} : route'[e] = route[e]
         /\ Finish(d) => route'[d].name = "none"
<1>1. CASE Finish(d)
  <2>1. NoRoute \in [name : RouteName, token : {None} \cup S!Token] /\ NoRoute.name = "none"
    BY DEF NoRoute, RouteName
  <2> QED
    BY <1>1, <2>1 DEF Finish, TypeOK
<1>2. ASSUME NEW name \in RouteName, Run(d, name)
      PROVE  /\ route' \in [Device -> [name : RouteName, token : {None} \cup S!Token]]
             /\ \A e \in Device \ {d} : route'[e] = route[e]
  <2>1. [name |-> name, token |-> token[d]] \in [name : RouteName, token : {None} \cup S!Token]
    BY DEF TypeOK
  <2> QED
    BY <1>2, <2>1 DEF Run, TypeOK
<1> QED
  BY <1>1, <1>2 DEF Finish, TypeOK

Typed ==
  /\ token \in [Device -> {None} \cup S!Token]
  /\ online \subseteq Device
  /\ inbox \in [Device -> Seq(Events)]
  /\ route \in [Device -> [name : RouteName, token : {None} \cup S!Token]]
  /\ home \in [Device -> {None} \cup S!Row]
  /\ lost \in [Device -> Causes]

\* A step that does nothing to a device but send to its socket.
Same(e) ==
  /\ token'[e] = token[e] /\ route'[e] = route[e] /\ task'[e] = task[e]
  /\ home'[e] = home[e]
  /\ (e \in online') <=> (e \in online)
  /\ e \notin online => inbox'[e] = inbox[e]

LEMMA SameDeviceOK ==
  ASSUME NEW e \in Device, DeviceOK(e), Same(e),
         now \in Nat, now' \in Nat, now <= now'
  PROVE  DeviceOK(e)'
<1>1. \A t : t \in Own(e) => t \in Own(e)'
  BY DEF Own
<1> QED
  BY <1>1 DEF DeviceOK, Same, S!Idle

\* For a step of one device it is enough to look at that device.
LEMMA OneDevice ==
  ASSUME TypeOK, S!TypeOK, NEW d \in Device, now' = now, Typed',
         \A e \in Device \ {d} : Same(e), DeviceOK(d)'
  PROVE  TypeOK'
<1>1. \A e \in Device \ {d} : DeviceOK(e)'
  BY SameDeviceOK DEF TypeOK, S!TypeOK
<1> QED
  BY <1>1 DEF TypeOK, Typed

LEMMA NoDevice ==
  ASSUME TypeOK, S!TypeOK, now' \in Nat, now <= now', Typed', \A e \in Device : Same(e)
  PROVE  TypeOK'
<1>1. \A e \in Device : DeviceOK(e)'
  BY SameDeviceOK DEF TypeOK, S!TypeOK
<1> QED
  BY <1>1 DEF TypeOK, Typed

-----------------------------------------------------------------------------
(***************************************************************************)
(* Types, one route at a time.                                             *)
(***************************************************************************)

LEMMA CreatesRow ==
  ASSUME TypeOK, S!TypeOK, NEW d \in Device, route[d].name = "login", task[d].at = "create"
  PROVE  /\ S!NewRow(task[d]) \in S!Row /\ task[d].token \in Own(d)
         /\ S!NewRow(task[d]).token = task[d].token
         /\ S!NewRow(task[d]).user = Owner[d]
<1>1. DeviceOK(d) /\ now \in Nat /\ nextId \in Nat
  BY DEF TypeOK, S!TypeOK
<1> QED
  BY <1>1, HeldRows, DeviceAssumption DEF DeviceOK, Own, S!NewRow, S!Row, S!Token, S!Worker

LEMMA LoginTypes ==
  ASSUME TypeOK, S!TypeOK, NEW d \in Device,
         LogIn(d) \/ LoginCheck(d) \/ LoginEvict(d) \/ LoginCreate(d) \/ LoginFails(d)
  PROVE  TypeOK'
<1> USE DEF S!Worker
<1>0. DeviceOK(d) /\ now \in Nat /\ nextId \in Nat /\ token \in [Device -> {None} \cup S!Token]
      /\ home \in [Device -> {None} \cup S!Row]
  BY DEF TypeOK, S!TypeOK
<1>1. CASE LogIn(d)
  <2> DEFINE t == [at |-> "count", user |-> Owner[d], token |-> <<Owner[d], now>>,
                   expiresAt |-> now + Lifetime]
  <2>1. S!Become(d, t) /\ now' = now /\ Run(d, "login")
    BY <1>1 DEF LogIn, S!StartLogin, S!Clock
  <2>2. task'[d] = t /\ \A e \in Device \ {d} : task'[e] = task[e]
    BY <2>1, Moves
  <2>3. Typed' /\ \A e \in Device \ {d} : Same(e)
    BY <1>1, <2>1, <2>2, RunTyped DEF LogIn, Typed, TypeOK, Same, RouteName
  <2>4. route'[d].name = "login"
    BY <2>1 DEF Run, TypeOK
  <2>5. <<Owner[d], now>> \in Own(d)'
    BY <2>1, <1>0 DEF Own
  <2>6. DeviceOK(d)'
    BY <1>0, <1>1, <2>2, <2>4, <2>5 DEF LogIn, DeviceOK
  <2> QED
    BY <2>1, <2>3, <2>6, OneDevice
<1>2. CASE LoginCheck(d)
  <2>1. now' = now /\ route[d].name = "login" /\ UNCHANGED client
    BY <1>2 DEF LoginCheck, S!Count, S!FindOldest, S!Clock
  <2>2. PICK t : S!Become(d, t) /\ t.at \in {"findOldest", "create", "evict"}
                 /\ t.user = task[d].user /\ t.token = task[d].token
    <3>1. \A s \in {"findOldest", "create"} :
            /\ [task[d] EXCEPT !.at = s].at = s
            /\ [task[d] EXCEPT !.at = s].user = task[d].user
            /\ [task[d] EXCEPT !.at = s].token = task[d].token
      <4>1. task[d] \in S!LoginTask
        BY <1>2 DEF LoginCheck, S!Count, S!FindOldest, S!TypeOK, S!Task, S!Idle,
                    S!LoginTask, S!EvictTask, S!EndTask, S!SweepTask
      <4> QED
        BY <4>1 DEF S!LoginTask
    <3>2. \A r : /\ S!EvictTaskOf(task[d], r).at = "evict"
                 /\ S!EvictTaskOf(task[d], r).user = task[d].user
                 /\ S!EvictTaskOf(task[d], r).token = task[d].token
      BY DEF S!EvictTaskOf
    <3>3. CASE S!Count(d)
      BY <3>1, <3>3 DEF S!Count
    <3>4. CASE S!FindOldest(d)
      BY <3>1, <3>2, <3>4 DEF S!FindOldest
    <3> QED
      BY <1>2, <3>3, <3>4 DEF LoginCheck
  <2>3. task'[d] = t /\ \A e \in Device \ {d} : task'[e] = task[e]
    BY <2>2, Moves
  <2>4. Typed' /\ \A e \in Device \ {d} : Same(e)
    BY <2>1, <2>3 DEF client, Typed, TypeOK, Same
  <2>5. DeviceOK(d)'
    BY <1>0, <2>1, <2>2, <2>3 DEF client, DeviceOK, Own
  <2> QED
    BY <2>1, <2>4, <2>5, OneDevice
<1>3. CASE LoginEvict(d)
  <2>1. now' = now /\ route[d].name = "login" /\ Lose("evicted")
        /\ UNCHANGED <<token, online, inbox, home>>
        /\ (IF task'[d] = S!Idle THEN Finish(d) ELSE UNCHANGED route)
    BY <1>3 DEF LoginEvict, S!Evict, S!Clock
  <2>2. S!Become(d, S!CreateTaskOf(task[d])) \/ S!Become(d, S!Idle)
    BY <1>3 DEF LoginEvict, S!Evict
  <2>3. /\ task'[d] \in {S!CreateTaskOf(task[d]), S!Idle}
        /\ \A e \in Device \ {d} : task'[e] = task[e]
    BY <2>2, Moves
  <2>4. Typed' /\ \A e \in Device \ {d} : Same(e)
    BY <2>1, <2>3, RunTyped, LoseTyped DEF Typed, TypeOK, Same
  <2>5. CASE task'[d] = S!Idle
    <3>1. route'[d].name = "none"
      BY <2>1, <2>5, RunTyped
    <3>2. DeviceOK(d)'
      BY <1>0, <2>1, <2>5, <3>1 DEF DeviceOK, Own
    <3> QED
      BY <2>1, <2>4, <3>2, OneDevice
  <2>6. CASE task'[d] # S!Idle
    <3>1. task'[d] = S!CreateTaskOf(task[d]) /\ route' = route
      BY <2>1, <2>3, <2>6
    <3>2. DeviceOK(d)'
      BY <1>0, <2>1, <3>1 DEF DeviceOK, Own, S!CreateTaskOf
    <3> QED
      BY <2>1, <2>4, <3>2, OneDevice
  <2> QED
    BY <2>5, <2>6
<1>4. CASE LoginCreate(d)
  <2>1. now' = now /\ Finish(d) /\ UNCHANGED <<online, inbox, lost>>
        /\ S!Become(d, S!Idle)
        /\ route[d].name = "login" /\ task[d].at = "create"
    BY <1>4 DEF LoginCreate, S!Create
  <2>2. task'[d] = S!Idle /\ \A e \in Device \ {d} : task'[e] = task[e]
    BY <2>1, Moves
  <2>3. S!NewRow(task[d]) \in S!Row /\ task[d].token \in Own(d)
        /\ S!NewRow(task[d]).token = task[d].token
        /\ S!NewRow(task[d]).user = Owner[d]
    BY <2>1, CreatesRow
  <2>4. task[d].token \in S!Token /\ task[d].token # None
    BY <2>3, <1>0, DeviceAssumption, NoneAssumption DEF Own, S!Token
  <2>5. \/ UNCHANGED <<token, home>>
        \/ /\ token' = [token EXCEPT ![d] = task[d].token]
           /\ home' = [home EXCEPT ![d] = S!NewRow(task[d])]
    BY <1>4 DEF LoginCreate
  <2>6. Typed' /\ \A e \in Device \ {d} : Same(e)
    <3>1. /\ token' \in [Device -> {None} \cup S!Token]
          /\ home' \in [Device -> {None} \cup S!Row]
          /\ \A e \in Device \ {d} : token'[e] = token[e] /\ home'[e] = home[e]
      BY <2>3, <2>4, <2>5 DEF TypeOK
    <3>2. /\ route' \in [Device -> [name : RouteName, token : {None} \cup S!Token]]
          /\ \A e \in Device \ {d} : route'[e] = route[e]
      BY <2>1, RunTyped
    <3> QED  BY <2>1, <2>2, <3>1, <3>2 DEF Typed, TypeOK, Same
  <2>7. route'[d].name = "none"
    BY <2>1, RunTyped
  <2>8. DeviceOK(d)'
    <3>1. CASE UNCHANGED <<token, home>>
      BY <1>0, <2>1, <2>2, <2>7, <3>1 DEF DeviceOK, Own
    <3>2. CASE /\ token' = [token EXCEPT ![d] = task[d].token]
               /\ home' = [home EXCEPT ![d] = S!NewRow(task[d])]
      <4>1. token'[d] = task[d].token /\ home'[d] = S!NewRow(task[d])
        BY <1>0, <3>2 DEF Typed, TypeOK
      <4> QED  BY <1>0, <2>1, <2>2, <2>3, <2>4, <2>7, <4>1 DEF DeviceOK, Own
    <3> QED  BY <2>5, <3>1, <3>2
  <2> QED
    BY <2>1, <2>6, <2>8, OneDevice
<1>5. CASE LoginFails(d)
  <2>1. now' = now /\ Finish(d) /\ UNCHANGED <<token, online, inbox, home>>
        /\ Lose("unanswered") /\ S!Become(d, S!Idle)
    BY <1>5 DEF LoginFails, S!Fail, S!CreateUnanswered, S!EndUnanswered, S!Clock
  <2>2. task'[d] = S!Idle /\ \A e \in Device \ {d} : task'[e] = task[e]
    BY <2>1, Moves
  <2>3. Typed' /\ (\A e \in Device \ {d} : Same(e)) /\ route'[d].name = "none"
    BY <2>1, <2>2, RunTyped, LoseTyped DEF Typed, TypeOK, Same
  <2>4. DeviceOK(d)'
    BY <1>0, <2>1, <2>2, <2>3 DEF DeviceOK, Own
  <2> QED
    BY <2>1, <2>3, <2>4, OneDevice
<1> QED
  BY <1>1, <1>2, <1>3, <1>4, <1>5

LEMMA EndTypes ==
  ASSUME TypeOK, S!TypeOK, NEW d \in Device,
         LogOutEnd(d) \/ RevokeEnd(d) \/ NotFound(d) \/ LogOutAllEnd(d) \/ LogOutAllFails(d)
  PROVE  TypeOK'
<1> USE DEF S!Worker
<1>1. now' = now /\ Finish(d) /\ UNCHANGED <<token, online, home>>
  BY DEF LogOutEnd, RevokeEnd, NotFound, LogOutAllEnd, LogOutAllFails, service, S!Clock,
         S!Terminate, S!Expire, S!Fail, S!TerminateAll, S!TerminateAllUnanswered,
         S!CreateUnanswered, S!EndUnanswered
<1>2. S!Become(d, S!Idle) \/ (task' = task /\ route[d].name = "logOutAll")
  BY DEF LogOutEnd, RevokeEnd, NotFound, LogOutAllEnd, LogOutAllFails, service,
         S!Terminate, S!Expire, S!Fail, S!TerminateAll, S!TerminateAllUnanswered
<1>3. task'[d] = S!Idle /\ \A e \in Device \ {d} : task'[e] = task[e]
  BY <1>2, Moves DEF TypeOK, DeviceOK
<1>4. \/ inbox' = inbox
      \/ Emit({task[d].row.user}, Event(task[d].row.token, None)) /\ task[d].at = "terminate"
      \/ Emit({Owner[d]}, Event(None, route[d].token))
  BY DEF LogOutEnd, RevokeEnd, NotFound, LogOutAllEnd, LogOutAllFails
<1>5. /\ task[d].at = "terminate" => Event(task[d].row.token, None) \in Events
      /\ Event(None, route[d].token) \in Events
  BY HeldRows DEF Event, Events, Targets, TypeOK, S!Row
<1>6. /\ inbox' \in [Device -> Seq(Events)]
      /\ \A e \in Device : e \notin online => inbox'[e] = inbox[e]
  BY <1>4, <1>5, EmitTyped DEF TypeOK
<1>7. lost' \in [Device -> Causes]
  <2>1. \/ Lose("loggedOut") \/ Lose("deleted") \/ Lose("expired")
        \/ Lose("unanswered") \/ LoseTo(d)
    BY DEF LogOutEnd, RevokeEnd, NotFound, LogOutAllEnd, LogOutAllFails
  <2> QED
    BY <2>1, LoseTyped DEF TypeOK
<1>8. Typed' /\ \A e \in Device \ {d} : Same(e)
  BY <1>1, <1>3, <1>6, <1>7, RunTyped DEF Typed, TypeOK, Same
<1>9. DeviceOK(d)'
  BY <1>1, <1>3, <1>6, RunTyped DEF DeviceOK, TypeOK, Own
<1> QED
  BY <1>1, <1>8, <1>9, OneDevice

LEMMA LookUpTypes ==
  ASSUME TypeOK, S!TypeOK, NEW d \in Device, NEW r \in sessions,
         S!FindSession(d, r), ~Busy(d),
         NEW name \in {"logout", "revoke", "lookup"}, Run(d, name)
  PROVE  /\ now' = now /\ task'[d].at \in {"expire", "terminate"}
         /\ \A e \in Device \ {d} : task'[e] = task[e]
         /\ route'[d].name = name
<1> DEFINE t == [at |-> IF S!Expired(r, now) THEN "expire" ELSE "terminate", row |-> r]
<1>1. S!Become(d, t) /\ now' = now
  BY DEF S!FindSession, S!Clock
<1>2. task'[d] = t /\ \A e \in Device \ {d} : task'[e] = task[e]
  BY <1>1, Moves DEF S!Worker
<1>3. route'[d].name = name
  BY DEF Run, TypeOK
<1> QED
  BY <1>1, <1>2, <1>3

LEMMA LogOutTypes ==
  ASSUME TypeOK, S!TypeOK, NEW d \in Device, LogOut(d)
  PROVE  TypeOK'
<1>1. token' = [token EXCEPT ![d] = None] /\ home' = [home EXCEPT ![d] = None]
      /\ online' = online \ {d} /\ inbox' = [inbox EXCEPT ![d] = <<>>]
      /\ lost' = [lost EXCEPT ![d] = "no"] /\ ~Busy(d)
  BY DEF LogOut
<1>2. CASE UNCHANGED <<service, route>>
  <2>1. Typed' /\ (\A e \in Device \ {d} : Same(e)) /\ now' = now
    BY <1>1, <1>2 DEF Typed, TypeOK, Same, service, Causes
  <2>2. route'[d].name = "none" /\ task'[d] = S!Idle
    BY <1>1, <1>2 DEF Busy, TypeOK, DeviceOK, service
  <2>3. DeviceOK(d)'
    BY <1>1, <2>2 DEF DeviceOK, TypeOK
  <2> QED
    BY <2>1, <2>3, OneDevice
<1>3. CASE \E r \in sessions : S!FindSession(d, r) /\ Run(d, "logout")
  <2>1. /\ now' = now /\ task'[d].at \in {"expire", "terminate"}
        /\ \A e \in Device \ {d} : task'[e] = task[e]
        /\ route'[d].name = "logout"
    BY <1>1, <1>3, LookUpTypes
  <2>2. Run(d, "logout") /\ "logout" \in RouteName
    BY <1>3 DEF RouteName
  <2>3. Typed' /\ \A e \in Device \ {d} : Same(e)
    BY <1>1, <2>1, <2>2, RunTyped DEF Typed, TypeOK, Same, Causes
  <2>4. DeviceOK(d)'
    BY <1>1, <2>1 DEF DeviceOK, TypeOK
  <2> QED
    BY <2>1, <2>3, <2>4, OneDevice
<1> QED
  BY <1>2, <1>3 DEF LogOut

LEMMA SessionCallTypes ==
  ASSUME TypeOK, S!TypeOK, NEW d \in Device,
         LogOutAll(d) \/ \E r \in sessions : Revoke(d, r) \/ AskLogOutDevice(d, r)
  PROVE  TypeOK'
<1>1. CASE LogOutAll(d)
  <2>1. UNCHANGED <<service, token, online, inbox, home, lost>> /\ Run(d, "logOutAll")
        /\ "logOutAll" \in RouteName /\ token[d] # None /\ ~Busy(d)
    BY <1>1 DEF LogOutAll, RouteName
  <2>2. Typed' /\ (\A e \in Device \ {d} : Same(e)) /\ now' = now
    BY <2>1, RunTyped DEF Typed, TypeOK, Same, service
  <2>3. route'[d].name = "logOutAll" /\ route'[d].token = token[d] /\ task'[d] = S!Idle
    BY <2>1 DEF Run, TypeOK, Busy, DeviceOK, service
  <2>4. DeviceOK(d)'
    BY <2>1, <2>2, <2>3 DEF DeviceOK, TypeOK, Own, service
  <2> QED
    BY <2>2, <2>4, OneDevice
<1>2. ASSUME NEW r \in sessions, NEW name \in {"revoke", "lookup"},
             S!FindSession(d, r), ~Busy(d), Run(d, name),
             UNCHANGED <<token, online, inbox, home, lost>>, token[d] # None
      PROVE  TypeOK'
  <2>1. /\ now' = now /\ task'[d].at \in {"expire", "terminate"}
        /\ \A e \in Device \ {d} : task'[e] = task[e]
        /\ route'[d].name = name
    BY <1>2, LookUpTypes
  <2>2. name \in RouteName
    BY DEF RouteName
  <2>3. Typed' /\ \A e \in Device \ {d} : Same(e)
    BY <1>2, <2>1, <2>2, RunTyped DEF Typed, TypeOK, Same
  <2>4. DeviceOK(d)'
    BY <1>2, <2>1 DEF DeviceOK, TypeOK, Own
  <2> QED
    BY <2>1, <2>3, <2>4, OneDevice
<1>3. ASSUME NEW r \in sessions, Revoke(d, r) PROVE TypeOK'
  BY <1>2, <1>3 DEF Revoke
<1>4. ASSUME NEW r \in sessions, AskLogOutDevice(d, r) PROVE TypeOK'
  <2>0. d \in online /\ token[d] # None /\ ~Busy(d) /\ UNCHANGED <<token, online, home, lost>>
    BY <1>4 DEF AskLogOutDevice, TypeOK, DeviceOK
  <2>1. CASE S!FindSession(d, r) /\ Run(d, "lookup") /\ UNCHANGED inbox
    BY <1>2, <2>0, <2>1
  <2>2. CASE Emit({r.user}, Event(<<"id", r.id>>, None)) /\ UNCHANGED <<service, route>>
    <3>1. Event(<<"id", r.id>>, None) \in Events
      BY DEF Event, Events, Targets, S!TypeOK, S!Row
    <3>2. Typed' /\ \A e \in Device : Same(e)
      BY <2>0, <2>2, <3>1, EmitTyped DEF Typed, TypeOK, Same, service
    <3> QED
      BY <2>2, <3>2, NoDevice DEF service, S!TypeOK
  <2> QED
    BY <1>4, <2>1, <2>2 DEF AskLogOutDevice
<1> QED
  BY <1>1, <1>3, <1>4

LEMMA SocketTypes ==
  ASSUME TypeOK, S!TypeOK, NEW d \in Device,
         Refresh(d) \/ Connect(d) \/ Disconnect(d) \/ Receive(d) \/ AskLogOutAll(d)
  PROVE  TypeOK'
<1>1. CASE Refresh(d)
  <2>1. UNCHANGED <<service, online, inbox, route, home, lost>> /\ token[d] # None
        /\ token' = [token EXCEPT ![d] = <<Owner[d], now>>]
    BY <1>1 DEF Refresh
  <2>2. <<Owner[d], now>> \in Own(d) /\ <<Owner[d], now>> \in S!Token
        /\ <<Owner[d], now>> # None
    BY DeviceAssumption, NoneAssumption DEF Own, S!Token, S!TypeOK
  <2>3. Typed' /\ (\A e \in Device \ {d} : Same(e)) /\ now' = now
    BY <2>1, <2>2 DEF Typed, TypeOK, Same, service
  <2>4. route[d].name # "login"
    BY <2>1 DEF TypeOK, DeviceOK
  <2>5. DeviceOK(d)'
    BY <2>1, <2>2, <2>3, <2>4 DEF DeviceOK, TypeOK, Own, service
  <2> QED
    BY <2>3, <2>5, OneDevice
<1>2. CASE Connect(d)
  <2>1. Typed' /\ (\A e \in Device \ {d} : Same(e)) /\ now' = now
    BY <1>2 DEF Connect, Typed, TypeOK, Same, service
  <2>2. DeviceOK(d)'
    BY <1>2 DEF Connect, DeviceOK, TypeOK, Own, service
  <2> QED
    BY <2>1, <2>2, OneDevice
<1>3. CASE Disconnect(d)
  <2>1. inbox' = [inbox EXCEPT ![d] = <<>>] /\ <<>> \in Seq(Events)
    BY <1>3 DEF Disconnect
  <2>2. inbox' \in [Device -> Seq(Events)]
    BY <2>1 DEF TypeOK
  <2>3. Typed' /\ now' = now
    BY <1>3, <2>2 DEF Disconnect, Typed, TypeOK, service, Causes
  <2>4. \A e \in Device \ {d} : Same(e)
    BY <1>3 DEF Disconnect, TypeOK, Same, service
  <2>5. DeviceOK(d)'
    BY <1>3 DEF Disconnect, DeviceOK, TypeOK, Own, service
  <2> QED
    BY <2>3, <2>4, <2>5, OneDevice
<1>4. CASE Receive(d)
  <2>1. CASE LogOut(d)
    BY <2>1, LogOutTypes
  <2>2. CASE inbox' = [inbox EXCEPT ![d] = Tail(@)] /\ inbox[d] # <<>>
             /\ UNCHANGED <<service, token, online, route, home, lost>>
    <3>1. inbox[d] \in Seq(Events)
      BY DEF TypeOK
    <3>2. Tail(inbox[d]) \in Seq(Events)
      BY <2>2, <3>1
    <3>3. inbox' \in [Device -> Seq(Events)]
      BY <2>2, <3>2 DEF TypeOK
    <3>4. Typed' /\ now' = now
      BY <2>2, <3>3 DEF Typed, TypeOK, service
    <3>5. \A e \in Device \ {d} : Same(e)
      BY <2>2 DEF TypeOK, Same, service
    <3>6. DeviceOK(d)'
      BY <2>2 DEF DeviceOK, TypeOK, Own, service
    <3> QED
      BY <3>4, <3>5, <3>6, OneDevice
  <2> QED
    BY <1>4, <2>1, <2>2 DEF Receive
<1>5. CASE AskLogOutAll(d)
  <2>1. Event(None, None) \in Events
    BY DEF Event, Events, Targets
  <2>2. Typed' /\ \A e \in Device : Same(e)
    BY <1>5, <2>1, EmitTyped DEF AskLogOutAll, Typed, TypeOK, Same, service
  <2> QED
    BY <1>5, <2>2, NoDevice DEF AskLogOutAll, service, S!TypeOK
<1> QED
  BY <1>1, <1>2, <1>3, <1>4, <1>5

LEMMA JobTypes ==
  ASSUME TypeOK, S!TypeOK, NEW c \in Cron, SweepFind(c) \/ SweepEnd(c) \/ SweepFails(c)
  PROVE  TypeOK'
<1>1. now' = now /\ UNCHANGED <<token, online, route, home>>
  BY DEF SweepFind, SweepEnd, SweepFails, client, S!SweepFind, S!SweepDelete, S!Fail,
         S!CreateUnanswered, S!EndUnanswered, S!Clock
<1>2. task' = task \/ \E t : S!Become(c, t)
  BY DEF SweepFind, SweepEnd, SweepFails, S!SweepFind, S!SweepDelete, S!Fail
<1>3. \A e \in Device : task'[e] = task[e]
  BY <1>2, Moves, ServiceAssumption DEF S!Worker
<1>4. /\ lost' = lost \/ Lose("expired")
      /\ inbox' = inbox \/ \E users : Emit(users, Event(None, None))
  BY DEF SweepFind, SweepEnd, SweepFails, client
<1>5. Event(None, None) \in Events
  BY DEF Event, Events, Targets
<1>6. Typed' /\ \A e \in Device : Same(e)
  BY <1>1, <1>3, <1>4, <1>5, EmitTyped, LoseTyped DEF Typed, TypeOK, Same
<1> QED
  BY <1>1, <1>6, NoDevice DEF S!TypeOK

LEMMA DeviceTypeStep ==
  ASSUME TypeOK, S!TypeOK, [Next]_vars
  PROVE  TypeOK'
<1>1. ASSUME NEW d \in Device, DeviceStep(d) PROVE TypeOK'
  BY <1>1, LoginTypes, EndTypes DEF DeviceStep
<1>2. ASSUME NEW d \in Device, DeviceCall(d) \/ Receive(d) PROVE TypeOK'
  BY <1>2, LoginTypes, LogOutTypes, SessionCallTypes, SocketTypes DEF DeviceCall
<1>3. ASSUME NEW c \in Cron, SweepFind(c) \/ SweepEnd(c) \/ SweepFails(c) PROVE TypeOK'
  BY <1>3, JobTypes
<1>4. ASSUME (\E u \in User : EmitUpdate(u)) \/ Tick \/ UNCHANGED vars PROVE TypeOK'
  <2>1. /\ now' \in Nat /\ now <= now' /\ task' = task
        /\ UNCHANGED <<token, online, inbox, route, home, lost>>
    BY <1>4 DEF EmitUpdate, Tick, S!EmitUpdate, S!Tick, S!Clock, client, vars, service, S!TypeOK
  <2>2. Typed' /\ \A e \in Device : Same(e)
    BY <2>1 DEF Typed, TypeOK, Same
  <2> QED
    BY <2>1, <2>2, NoDevice
<1> QED
  BY <1>1, <1>2, <1>3, <1>4 DEF Next

\* Devices and tables keep their types, tokens and rows are their owner's, and
\* every worker is at a step of the route its device runs.
THEOREM DevicesTyped == Spec => [](TypeOK /\ S!TypeOK)
<1>1. Init => TypeOK /\ S!TypeOK
  <2>1. Init => S!TypeOK
    <3>1. P!Init => P!TypeOK
      BY ServiceAssumption, P!TypeInit DEF P!IsFiniteSet, IsFiniteSet
    <3> QED
      BY <3>1, SameInit, SameTypeOK DEF Init
  <2>2. Init => TypeOK
    BY DEF Init, S!Init, TypeOK, DeviceOK, RouteName, NoRoute, S!Worker, Causes
  <2> QED
    BY <2>1, <2>2
<1>2. TypeOK /\ S!TypeOK /\ [Next]_vars => (TypeOK /\ S!TypeOK)'
  BY DeviceTypeStep, ServiceStep, ServiceTypeStep
<1> QED
  BY <1>1, <1>2, PTL DEF Spec

\* The devices implement the service: what is proved of SessionService holds
\* of the whole system.
THEOREM DevicesImplementService == Spec => ServiceSpec
<1>1. Init => S!Init
  BY DEF Init
<1>2. TypeOK /\ [Next]_vars => [S!Next]_(S!vars)
  BY ServiceStep
<1> QED
  BY <1>1, <1>2, DevicesTyped, PTL DEF Spec, ServiceSpec, S!Spec

\* Racing logins of a user's devices exceed the session limit by at most their
\* number minus one, with sockets, refreshes and jobs around them.
THEOREM DevicesOvershoot == Spec => []S!OvershootBounded
<1>1. P!Spec => []P!OvershootBounded
  BY ServiceAssumption, P!OvershootTheorem DEF P!IsFiniteSet, IsFiniteSet
<1> QED
  BY <1>1, DevicesImplementService, SameSpec, SameOvershoot, PTL DEF ServiceSpec

\* Every row a route or job holds across an await is still what it says.
THEOREM DevicesFresh == Spec => []S!LocalsFresh
<1>1. P!Spec => []P!LocalsFresh
  BY ServiceAssumption, P!WhatWorkersKnow DEF P!IsFiniteSet, IsFiniteSet
<1> QED
  BY <1>1, DevicesImplementService, SameSpec, SameLocalsFresh, PTL DEF ServiceSpec

-----------------------------------------------------------------------------
(***************************************************************************)
(* A device whose session was deleted is told.                             *)
(***************************************************************************)

\* A refresh can only bring back the token of the login in the second of the
\* login itself, so a device that has moved on from it never returns to it.
Aged(d) ==
  /\ home[d] # None => token[d] = home[d].token \/ home[d].token[2] < token[d][2]
  /\ lost[d] \in Deletions => home[d] # None /\ d \in online

Told(d) ==
  d \in online /\ Revoked(d)
    => \E i \in 1..Len(inbox[d]) : Hits(inbox[d][i], token[d])

LEMMA InboxGrows ==
  ASSUME TypeOK, NEW users, NEW ev \in Events, Emit(users, ev)
  PROVE  \A d \in Device :
           /\ \A i \in 1..Len(inbox[d]) : i \in 1..Len(inbox'[d]) /\ inbox'[d][i] = inbox[d][i]
           /\ d \in online /\ Owner[d] \in users =>
                /\ Len(inbox[d]) + 1 \in 1..Len(inbox'[d])
                /\ inbox'[d][Len(inbox[d]) + 1] = ev
<1> SUFFICES ASSUME NEW d \in Device
    PROVE  /\ \A i \in 1..Len(inbox[d]) : i \in 1..Len(inbox'[d]) /\ inbox'[d][i] = inbox[d][i]
           /\ d \in online /\ Owner[d] \in users =>
                /\ Len(inbox[d]) + 1 \in 1..Len(inbox'[d])
                /\ inbox'[d][Len(inbox[d]) + 1] = ev
  OBVIOUS
<1>1. inbox[d] \in Seq(Events)
  BY DEF TypeOK
<1>2. CASE d \in online /\ Owner[d] \in users
  <2>1. inbox'[d] = Append(inbox[d], ev)
    BY <1>2 DEF Emit
  <2> QED
    BY <1>1, <2>1
<1>3. CASE ~(d \in online /\ Owner[d] \in users)
  <2>1. inbox'[d] = inbox[d]
    BY <1>3 DEF Emit
  <2> QED
    BY <1>1, <1>3, <2>1
<1> QED
  BY <1>2, <1>3

\* A device that keeps its token and row stays told while nothing it was sent
\* is taken back.
LEMMA StaysTold ==
  ASSUME NEW d \in Device, Told(d), Aged(d),
         token'[d] = token[d], home'[d] = home[d], d \in online' <=> d \in online,
         lost'[d] \in Deletions => lost[d] \in Deletions,
         \A i \in 1..Len(inbox[d]) : i \in 1..Len(inbox'[d]) /\ inbox'[d][i] = inbox[d][i]
  PROVE  Told(d)' /\ Aged(d)'
BY DEF Told, Revoked, Aged, Hits

\* The two requests that delete the sessions of others tell each of them.
LEMMA RevokeTells ==
  ASSUME TypeOK, S!TypeOK, S!LocalsFresh, NEW d \in Device, RevokeEnd(d),
         NEW e \in Device, Told(e), Aged(e)
  PROVE  Told(e)' /\ Aged(e)'
<1> DEFINE row == task[d].row
           ev == Event(row.token, None)
<1>1. row \in S!Row /\ (\A r \in sessions : r.id = row.id => r = row)
  BY HeldRows DEF RevokeEnd, S!LocalsFresh, S!LocalFresh, S!Known, S!Worker
<1>2. ev \in Events /\ Emit({row.user}, ev) /\ LoseTo(d)
      /\ UNCHANGED <<token, online, home>>
  BY <1>1 DEF RevokeEnd, Event, Events, Targets, S!Row
<1>3. sessions \ sessions' \subseteq {row}
  BY <1>1 DEF RevokeEnd, S!Terminate, S!Fail, S!CreateUnanswered, S!EndUnanswered, S!Remove
<1>4. CASE lost'[e] \in Deletions /\ lost[e] \notin Deletions
  <2>1. e \in online /\ home[e] \in sessions \ sessions'
    BY <1>2, <1>4 DEF LoseTo, Loses
  <2>2. home[e] = row /\ home[e] # None /\ row.user = Owner[e]
    BY <1>1, <1>3, <2>1, NoneAssumption DEF TypeOK, DeviceOK
  <2>3. /\ Len(inbox[e]) + 1 \in 1..Len(inbox'[e])
        /\ inbox'[e][Len(inbox[e]) + 1] = ev
    BY <1>2, <2>1, <2>2, InboxGrows
  <2>4. Hits(ev, row.token)
    BY <1>1, NoneAssumption DEF Hits, Event, S!Row
  <2> QED
    BY <1>2, <2>1, <2>2, <2>3, <2>4 DEF Told, Revoked, Aged
<1>5. CASE ~(lost'[e] \in Deletions /\ lost[e] \notin Deletions)
  <2>1. \A i \in 1..Len(inbox[e]) : i \in 1..Len(inbox'[e]) /\ inbox'[e][i] = inbox[e][i]
    BY <1>2, InboxGrows
  <2> QED
    BY <1>2, <1>5, <2>1, StaysTold
<1> QED
  BY <1>4, <1>5

LEMMA LogOutAllTells ==
  ASSUME TypeOK, S!TypeOK, NEW d \in Device, LogOutAllEnd(d),
         NEW e \in Device, Told(e), Aged(e)
  PROVE  Told(e)' /\ Aged(e)'
<1> DEFINE kept == route[d].token
           ev == Event(None, kept)
<1>1. ev \in Events /\ Emit({Owner[d]}, ev) /\ Lose("deleted")
      /\ UNCHANGED <<token, online, home>>
  BY DEF LogOutAllEnd, Event, Events, Targets, TypeOK
<1>2. \A r \in sessions \ sessions' : r.user = Owner[d] /\ r.token # kept
  BY DEF LogOutAllEnd, S!TerminateAll, S!Remove, S!RowsOf
<1>3. CASE lost'[e] \in Deletions /\ lost[e] \notin Deletions
  <2>1. e \in online /\ home[e] \in sessions \ sessions'
    BY <1>1, <1>3 DEF Lose, Loses
  <2>2. home[e] # None /\ Owner[e] = Owner[d] /\ home[e].token # kept
    BY <1>2, <2>1, NoneAssumption DEF TypeOK, DeviceOK, S!TypeOK
  <2>3. /\ Len(inbox[e]) + 1 \in 1..Len(inbox'[e])
        /\ inbox'[e][Len(inbox[e]) + 1] = ev
    BY <1>1, <2>1, <2>2, InboxGrows
  <2>4. Hits(ev, home[e].token)
    BY <2>2 DEF Hits, Event
  <2> QED
    BY <1>1, <2>1, <2>2, <2>3, <2>4 DEF Told, Revoked, Aged
<1>4. CASE ~(lost'[e] \in Deletions /\ lost[e] \notin Deletions)
  <2>1. \A i \in 1..Len(inbox[e]) : i \in 1..Len(inbox'[e]) /\ inbox'[e][i] = inbox[e][i]
    BY <1>1, InboxGrows
  <2> QED
    BY <1>1, <1>4, <2>1, StaysTold
<1> QED
  BY <1>3, <1>4

\* Reading an event that does not hit leaves the one that does.
LEMMA ReceiveKeepsTold ==
  ASSUME TypeOK, S!TypeOK, NEW d \in Device, Receive(d) \/ LogOut(d),
         NEW e \in Device, Told(e), Aged(e)
  PROVE  Told(e)' /\ Aged(e)'
<1>1. CASE LogOut(d)
  <2>1. CASE e = d
    BY <1>1, <2>1 DEF LogOut, Told, Revoked, Deletions, Aged, TypeOK
  <2>2. CASE e # d
    <3>1. token'[e] = token[e] /\ home'[e] = home[e] /\ lost'[e] = lost[e]
          /\ inbox'[e] = inbox[e] /\ (e \in online' <=> e \in online)
      BY <1>1, <2>2 DEF LogOut, TypeOK
    <3> QED
      BY <3>1, StaysTold
  <2> QED
    BY <2>1, <2>2
<1>2. CASE ~LogOut(d)
  <2>1. /\ inbox[d] # <<>> /\ ~Hits(Head(inbox[d]), token[d])
        /\ inbox' = [inbox EXCEPT ![d] = Tail(inbox[d])]
        /\ UNCHANGED <<token, online, home, lost>>
    BY <1>2 DEF Receive
  <2>2. CASE e # d
    BY <2>1, <2>2, StaysTold DEF TypeOK
  <2>3. CASE e = d
    <3>1. inbox[d] \in Seq(Events) /\ inbox'[d] = Tail(inbox[d])
      BY <2>1 DEF TypeOK
    <3>2. \A i \in 1..Len(inbox[d]) :
            i # 1 => i - 1 \in 1..Len(inbox'[d]) /\ inbox'[d][i - 1] = inbox[d][i]
      <4>1. inbox[d] # <<>>
        BY <2>1
      <4>2. /\ Len(Tail(inbox[d])) = Len(inbox[d]) - 1
            /\ \A j \in 1..Len(Tail(inbox[d])) : Tail(inbox[d])[j] = inbox[d][j + 1]
        BY <3>1, <4>1, HeadTailProperties
      <4>3. Len(inbox[d]) \in Nat
        BY <3>1
      <4> QED
        BY <3>1, <4>2, <4>3
    <3>3. ~Hits(inbox[d][1], token[d])
      BY <2>1, <3>1
    <3>4. Aged(e)'
      BY <2>1 DEF Aged
    <3>5. Told(e)'
      <4>1. SUFFICES ASSUME d \in online, Revoked(d)
                     PROVE  \E j \in 1..Len(inbox'[d]) : Hits(inbox'[d][j], token[d])
        BY <2>1, <2>3 DEF Told, Revoked, Hits
      <4>2. PICK i \in 1..Len(inbox[d]) : Hits(inbox[d][i], token[d])
        BY <2>3, <4>1 DEF Told
      <4>3. i # 1
        BY <3>3, <4>2
      <4>4. i - 1 \in 1..Len(inbox'[d]) /\ inbox'[d][i - 1] = inbox[d][i]
        BY <3>2, <4>3
      <4> QED
        BY <4>2, <4>4
    <3> QED
      BY <3>4, <3>5
  <2> QED
    BY <2>2, <2>3
<1> QED
  BY <1>1, <1>2

LEMMA RefreshKeepsTold ==
  ASSUME TypeOK, S!TypeOK, NEW d \in Device, Refresh(d),
         NEW e \in Device, Told(e), Aged(e)
  PROVE  Told(e)' /\ Aged(e)'
<1>1. UNCHANGED <<online, inbox, home, lost>> /\ token[d] # None
      /\ token' = [token EXCEPT ![d] = <<Owner[d], now>>]
  BY DEF Refresh
<1>2. CASE e # d
  BY <1>1, <1>2, StaysTold DEF TypeOK
<1>3. CASE e = d /\ home[e] = None
  BY <1>1, <1>3 DEF Told, Revoked, Aged
<1>4. CASE e = d /\ home[e] # None
  <2>1. token'[e] = <<Owner[e], now>>
    BY <1>1, <1>4 DEF TypeOK
  <2>2. home[e].token \in Own(e) /\ token[e] \in Own(e)
    BY <1>1, <1>4 DEF TypeOK, DeviceOK
  <2>3. PICK h \in 0..now : home[e].token = <<Owner[e], h>>
    BY <2>2 DEF Own
  <2>4. PICK t \in 0..now : token[e] = <<Owner[e], t>>
    BY <2>2 DEF Own
  <2>5. now \in Nat
    BY DEF S!TypeOK
  <2>6. t = h \/ h < t
    BY <1>4, <2>3, <2>4 DEF Aged
  <2>7. Aged(e)'
    BY <1>1, <1>4, <2>1, <2>3, <2>5 DEF Aged
  <2>8. token'[e] = home[e].token => token[e] = home[e].token
    BY <2>1, <2>3, <2>4, <2>5, <2>6
  <2> QED
    BY <1>1, <2>7, <2>8 DEF Told, Revoked, Hits
<1> QED
  BY <1>2, <1>3, <1>4

\* Every other step leaves what a device was sent, and takes nobody's session
\* away in the name of another device.
LEMMA OthersKeepTold ==
  ASSUME TypeOK, S!TypeOK, NEW e \in Device, Told(e), Aged(e),
         \/ Tick \/ UNCHANGED vars
         \/ \E u \in User : EmitUpdate(u)
         \/ \E c \in Cron : SweepFind(c) \/ SweepEnd(c) \/ SweepFails(c)
         \/ \E d \in Device :
              \/ LogIn(d) \/ LoginCheck(d) \/ LoginEvict(d) \/ LoginCreate(d) \/ LoginFails(d)
              \/ LogOutEnd(d) \/ NotFound(d) \/ LogOutAll(d) \/ LogOutAllFails(d)
              \/ Connect(d) \/ Disconnect(d) \/ AskLogOutAll(d)
              \/ \E r \in sessions : Revoke(d, r) \/ AskLogOutDevice(d, r)
  PROVE  Told(e)' /\ Aged(e)'
<1> DEFINE Grows == \A i \in 1..Len(inbox[e]) :
                      i \in 1..Len(inbox'[e]) /\ inbox'[e][i] = inbox[e][i]
           Kept == /\ token'[e] = token[e] /\ home'[e] = home[e]
                   /\ (e \in online' <=> e \in online)
                   /\ (lost'[e] \in Deletions => lost[e] \in Deletions)
<1>1. \A how \in {"evicted", "unanswered", "expired", "loggedOut"} :
        Lose(how) => (lost'[e] \in Deletions => lost[e] \in Deletions)
  BY DEF Lose, Deletions
<1>2. Event(None, None) \in Events
      /\ \A r \in sessions : Event(<<"id", r.id>>, None) \in Events
  BY DEF Event, Events, Targets, S!TypeOK, S!Row
<1>3. inbox' = inbox => Grows
  OBVIOUS
<1>4. ASSUME NEW ev \in Events, NEW users, Emit(users, ev) PROVE Grows
  BY <1>4, InboxGrows
<1> HIDE DEF Grows
<1>5. ASSUME Grows, Kept PROVE Told(e)' /\ Aged(e)'
  BY <1>5, StaysTold DEF Grows
<1>6. CASE Tick \/ UNCHANGED vars \/ \E u \in User : EmitUpdate(u)
  BY <1>3, <1>5, <1>6 DEF Tick, EmitUpdate, vars, client
<1>7. ASSUME NEW c \in Cron, SweepFind(c) \/ SweepEnd(c) \/ SweepFails(c)
      PROVE  Told(e)' /\ Aged(e)'
  BY <1>1, <1>2, <1>3, <1>4, <1>5, <1>7 DEF SweepFind, SweepEnd, SweepFails, client
<1>8. ASSUME NEW d \in Device, LogIn(d) \/ LoginCheck(d) \/ LogOutAll(d)
      PROVE  Told(e)' /\ Aged(e)'
  BY <1>3, <1>5, <1>8 DEF LogIn, LoginCheck, LogOutAll, client
<1>9. ASSUME NEW d \in Device, \/ LoginEvict(d) \/ LoginFails(d) \/ LogOutEnd(d)
                                \/ NotFound(d) \/ LogOutAllFails(d)
      PROVE  Told(e)' /\ Aged(e)'
  BY <1>1, <1>3, <1>5, <1>9 DEF LoginEvict, LoginFails, LogOutEnd, NotFound, LogOutAllFails
<1>10. ASSUME NEW d \in Device, LoginCreate(d) PROVE Told(e)' /\ Aged(e)'
  <2>1. CASE e # d
    BY <1>3, <1>5, <1>10, <2>1 DEF LoginCreate, TypeOK
  <2>2. CASE e = d /\ UNCHANGED <<token, home>>
    BY <1>3, <1>5, <1>10, <2>2 DEF LoginCreate
  <2>3. CASE e = d /\ token' = [token EXCEPT ![d] = task[d].token]
             /\ home' = [home EXCEPT ![d] = S!NewRow(task[d])]
    <3>1. e \notin online /\ online' = online /\ lost' = lost
      BY <1>10, <2>3 DEF LoginCreate, TypeOK, DeviceOK
    <3>2. token'[e] = task[d].token /\ home'[e] = S!NewRow(task[d])
          /\ home'[e].token = task[d].token /\ home'[e] # None
      <4>1. home'[e] = S!NewRow(task[d])
        BY <2>3 DEF TypeOK
      <4>2. S!NewRow(task[d]) \in S!Row /\ S!NewRow(task[d]).token = task[d].token
        BY <1>10, <2>3, CreatesRow DEF LoginCreate, S!Create
      <4> QED
        BY <2>3, <4>1, <4>2, NoneAssumption DEF TypeOK
    <3> QED
      BY <3>1, <3>2 DEF Told, Revoked, Aged
  <2> QED
    BY <1>10, <2>1, <2>2, <2>3 DEF LoginCreate
<1>11. ASSUME NEW d \in Device, Connect(d) PROVE Told(e)' /\ Aged(e)'
  <2>1. CASE e # d
    BY <1>3, <1>5, <1>11, <2>1 DEF Connect
  <2>2. CASE e = d
    BY <1>11, <2>2 DEF Connect, Told, Revoked, Aged
  <2> QED
    BY <2>1, <2>2
<1>12. ASSUME NEW d \in Device, Disconnect(d) PROVE Told(e)' /\ Aged(e)'
  <2>1. CASE e # d
    <3>1. inbox'[e] = inbox[e] /\ lost'[e] = lost[e]
      BY <1>12, <2>1 DEF Disconnect, TypeOK
    <3>2. Grows
      BY <3>1 DEF Grows
    <3> QED
      BY <1>5, <1>12, <2>1, <3>1, <3>2 DEF Disconnect
  <2>2. CASE e = d
    BY <1>12, <2>2 DEF Disconnect, Told, Revoked, Deletions, Aged, TypeOK
  <2> QED
    BY <2>1, <2>2
<1>13. ASSUME NEW d \in Device, AskLogOutAll(d) PROVE Told(e)' /\ Aged(e)'
  BY <1>2, <1>4, <1>5, <1>13 DEF AskLogOutAll
<1>14. ASSUME NEW d \in Device, NEW r \in sessions, Revoke(d, r) \/ AskLogOutDevice(d, r)
       PROVE  Told(e)' /\ Aged(e)'
  BY <1>2, <1>3, <1>4, <1>5, <1>14 DEF Revoke, AskLogOutDevice
<1> QED
  BY <1>6, <1>7, <1>8, <1>9, <1>10, <1>11, <1>12, <1>13, <1>14

LEMMA ToldStep ==
  ASSUME TypeOK, S!TypeOK, S!LocalsFresh, [Next]_vars,
         NEW e \in Device, Told(e), Aged(e)
  PROVE  Told(e)' /\ Aged(e)'
<1>1. ASSUME NEW d \in Device, DeviceStep(d) PROVE Told(e)' /\ Aged(e)'
  BY <1>1, RevokeTells, LogOutAllTells, OthersKeepTold DEF DeviceStep
<1>2. ASSUME NEW d \in Device, DeviceCall(d) \/ Receive(d) PROVE Told(e)' /\ Aged(e)'
  BY <1>2, ReceiveKeepsTold, RefreshKeepsTold, OthersKeepTold DEF DeviceCall
<1>3. ASSUME \/ \E c \in Cron : SweepFind(c) \/ SweepEnd(c) \/ SweepFails(c)
             \/ \E u \in User : EmitUpdate(u)
             \/ Tick \/ UNCHANGED vars
      PROVE  Told(e)' /\ Aged(e)'
  BY <1>3, OthersKeepTold
<1> QED
  BY <1>1, <1>2, <1>3 DEF Next

\* A connected device that still holds the token of its login, and whose
\* session a DELETE /sessions request removed without an error, has an event
\* on its way that signs it out: for any number of devices, with refreshes,
\* races, and queries that are rejected before or after they are executed.
THEOREM RevokedAreTold == Spec => []RevokedIsTold
<1> DEFINE Inv == \A d \in Device : Told(d) /\ Aged(d)
<1>1. Init => Inv
  BY DEF Init, Told, Revoked, Deletions, Aged
<1>2. TypeOK /\ S!TypeOK /\ S!LocalsFresh /\ Inv /\ [Next]_vars => Inv'
  BY ToldStep
<1>3. TypeOK /\ Inv => RevokedIsTold
  BY DEF Told, RevokedIsTold, TypeOK
<1> QED
  BY <1>1, <1>2, <1>3, DevicesTyped, DevicesFresh, PTL DEF Spec
=============================================================================
