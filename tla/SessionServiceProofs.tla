------------------------ MODULE SessionServiceProofs ------------------------
(***************************************************************************)
(* Proofs about SessionService, for every number of users, requests and    *)
(* jobs and every limit.                                                   *)
(***************************************************************************)
EXTENDS SessionService, FiniteSetTheorems, TLAPS

\* What a worker's step name says of the local variables it holds.
LEMMA TaskTypes ==
  ASSUME NEW t \in Task
  PROVE  /\ t.at \in {"count", "findOldest", "create"} => t \in LoginTask
         /\ t.at = "evict" => t \in EvictTask
         /\ t.at \in {"expire", "terminate"} => t \in EndTask
         /\ t.at = "sweep" => t \in SweepTask
         /\ t.at = "idle" => t = Idle
BY DEF Task, Idle, LoginTask, EvictTask, EndTask, SweepTask

\* Assigning a worker its next task changes that worker only.
LEMMA BecomeTyped ==
  ASSUME task \in [Worker -> Task], NEW w \in Worker, NEW t \in Task, Become(w, t)
  PROVE  /\ task' \in [Worker -> Task]
         /\ task'[w] = t
         /\ \A v \in Worker \ {w} : task'[v] = task[v]
BY DEF Become

\* Deleting rows keeps every fact about the table's rows.
LEMMA RemoveTyped ==
  ASSUME TypeOK, NEW gone, Remove(gone), Clock
  PROVE  /\ sessions' \in SUBSET sessions
         /\ sessions' \in SUBSET Row
         /\ IsFiniteSet(sessions')
         /\ now' \in Nat /\ nextId' \in Nat
         /\ \A r \in sessions' : r.id < nextId' /\ r.createdAt <= now'
         /\ \A r, s \in sessions' : r.id = s.id \/ r.token = s.token => r = s
<1>1. sessions' \in SUBSET sessions
  BY DEF Remove
<1>2. IsFiniteSet(sessions')
  BY <1>1, FS_Subset DEF TypeOK
<1> QED
  BY <1>1, <1>2 DEF TypeOK, Clock

\* Creating a row under a fresh token does too.
LEMMA CreateTyped ==
  ASSUME TypeOK, NEW w \in Worker, task[w].at = "create", task[w].token \notin Tokens,
         sessions' = sessions \cup {NewRow(task[w])}, nextId' = nextId + 1, now' = now
  PROVE  /\ NewRow(task[w]) \in Row
         /\ sessions' \in SUBSET Row
         /\ IsFiniteSet(sessions')
         /\ now' \in Nat /\ nextId' \in Nat
         /\ \A r \in sessions' : r.id < nextId' /\ r.createdAt <= now'
         /\ \A r, s \in sessions' : r.id = s.id \/ r.token = s.token => r = s
<1> DEFINE n == NewRow(task[w])
<1>1. task[w] \in LoginTask
  BY TaskTypes DEF TypeOK
<1>2. n \in Row /\ n.id = nextId /\ n.token = task[w].token /\ n.createdAt = now
  BY <1>1 DEF NewRow, LoginTask, Row, TypeOK
<1>3. IsFiniteSet(sessions')
  BY FS_AddElement DEF TypeOK
<1>4. \A r \in sessions : r.id # n.id /\ r.token # n.token
  BY <1>2 DEF TypeOK, Tokens, Row
<1>5. sessions' = sessions \cup {n}
  OBVIOUS
<1> HIDE DEF n
<1>6. \A r \in sessions' : r.id < nextId' /\ r.createdAt <= now'
  BY <1>2, <1>5 DEF TypeOK, Row
<1>7. \A r, s \in sessions' : r.id = s.id \/ r.token = s.token => r = s
  BY <1>4, <1>5 DEF TypeOK
<1>8. n \in Row /\ sessions' \in SUBSET Row /\ now' \in Nat /\ nextId' \in Nat
  BY <1>2, <1>5 DEF TypeOK
<1> QED
  BY <1>3, <1>6, <1>7, <1>8 DEF n

\* Broadcasting to users, and keeping silent about rows, name users.
LEMMA TellTyped ==
  ASSUME TypeOK
  PROVE  /\ \A users \in SUBSET User :
              Broadcast(users) => updates' \in SUBSET User /\ unheard' \in SUBSET User
         /\ \A rows \in SUBSET Row : Forget(rows) => unheard' \in SUBSET User
BY DEF TypeOK, Broadcast, Forget, Row

LEMMA TypeInit == Init => TypeOK
BY FS_EmptySet DEF Init, TypeOK, Task

\* A step keeps sessions and local variables typed, and rows identified.
LEMMA TypeStep ==
  ASSUME TypeOK, [Next]_vars
  PROVE  TypeOK'
<1> USE DEF Worker
<1>1. ASSUME NEW w \in Request, NEW u \in User, StartLogin(w, u) PROVE TypeOK'
  <2> DEFINE t == [at |-> "count", user |-> u, token |-> <<u, now>>,
                   expiresAt |-> now + Lifetime]
  <2>1. t \in Task
    BY ClockAssumption DEF Task, LoginTask, Token, TypeOK
  <2>2. task' \in [Worker -> Task]
    BY <1>1, <2>1, BecomeTyped DEF StartLogin, TypeOK
  <2> QED
    BY <1>1, <2>2 DEF StartLogin, TypeOK, Clock, NoBroadcast
<1>2. ASSUME NEW w \in Request, Count(w) PROVE TypeOK'
  <2>1. task[w] \in LoginTask
    BY <1>2, TaskTypes DEF Count, TypeOK
  <2>2. \A s \in {"findOldest", "create"} : [task[w] EXCEPT !.at = s] \in Task
    BY <2>1 DEF Task, LoginTask
  <2>3. task' \in [Worker -> Task]
    BY <1>2, <2>2 DEF Count, TypeOK, Become
  <2> QED
    BY <1>2, <2>3 DEF Count, TypeOK, Clock, NoBroadcast
<1>3. ASSUME NEW w \in Request, FindOldest(w) PROVE TypeOK'
  <2>1. task[w] \in LoginTask
    BY <1>3, TaskTypes DEF FindOldest, TypeOK
  <2>2. [task[w] EXCEPT !.at = "create"] \in Task
    BY <2>1 DEF Task, LoginTask
  <2>3. \A r \in sessions : EvictTaskOf(task[w], r) \in Task
    BY <2>1 DEF Task, LoginTask, EvictTask, EvictTaskOf, TypeOK
  <2>4. task' \in [Worker -> Task]
    BY <1>3, <2>2, <2>3 DEF FindOldest, TypeOK, Become, RowsOf
  <2> QED
    BY <1>3, <2>4 DEF FindOldest, TypeOK, Clock, NoBroadcast
<1>4. ASSUME NEW w \in Request, Evict(w) PROVE TypeOK'
  <2>1. task[w] \in EvictTask
    BY <1>4, TaskTypes DEF Evict, TypeOK
  <2>2. CreateTaskOf(task[w]) \in Task /\ Idle \in Task /\ task[w].user \in User
    BY <2>1 DEF Task, LoginTask, EvictTask, CreateTaskOf
  <2>3. task' \in [Worker -> Task]
    BY <1>4, <2>2 DEF Evict, TypeOK, Become
  <2>4. CASE task[w].victim.id \in Ids
    <3>1. Remove({r \in sessions : r.id = task[w].victim.id}) /\ Clock
      BY <1>4, <2>4 DEF Evict
    <3>2. updates' \in SUBSET User /\ unheard' \in SUBSET User
      BY <1>4, <2>4, <2>2, TellTyped DEF Evict
    <3> QED
      BY <3>1, <3>2, <2>3, RemoveTyped DEF TypeOK
  <2>5. CASE task[w].victim.id \notin Ids
    BY <1>4, <2>3, <2>5 DEF Evict, TypeOK, Clock, NoBroadcast
  <2> QED
    BY <2>4, <2>5
<1>5. ASSUME NEW w \in Request, Create(w) PROVE TypeOK'
  <2>1. task[w] \in LoginTask
    BY <1>5, TaskTypes DEF Create, TypeOK
  <2>2. task' \in [Worker -> Task]
    BY <1>5 DEF Create, TypeOK, Become, Task
  <2>3. CASE task[w].token \in Tokens
    BY <1>5, <2>2, <2>3 DEF Create, TypeOK, NoBroadcast
  <2>4. CASE task[w].token \notin Tokens
    <3>1. /\ task[w].at = "create" /\ sessions' = sessions \cup {NewRow(task[w])}
          /\ nextId' = nextId + 1 /\ now' = now
      BY <1>5, <2>4 DEF Create
    <3>2. Broadcast({task[w].user}) /\ {task[w].user} \in SUBSET User
      BY <1>5, <2>4, <2>1 DEF Create, LoginTask
    <3>3. updates' \in SUBSET User /\ unheard' \in SUBSET User
      BY <3>2, TellTyped
    <3> QED
      BY <2>2, <2>4, <3>1, <3>3, CreateTyped DEF TypeOK
  <2> QED
    BY <2>3, <2>4
<1>6. ASSUME NEW w \in Request, NEW r \in sessions, FindSession(w, r) PROVE TypeOK'
  <2>1. \A s \in {"expire", "terminate"} : [at |-> s, row |-> r] \in Task
    BY DEF Task, EndTask, TypeOK
  <2>2. task' \in [Worker -> Task]
    BY <1>6, <2>1 DEF FindSession, TypeOK, Become
  <2> QED
    BY <1>6, <2>2 DEF FindSession, TypeOK, Clock, NoBroadcast
<1>7. ASSUME NEW w \in Request, Expire(w) PROVE TypeOK'
  <2>1. task' \in [Worker -> Task]
    BY <1>7 DEF Expire, TypeOK, Become, Task
  <2>2. Remove({r \in sessions : r.id = task[w].row.id}) /\ Clock
    BY <1>7 DEF Expire
  <2> QED
    BY <1>7, <2>1, <2>2, RemoveTyped DEF Expire, TypeOK, NoBroadcast
<1>8. ASSUME NEW w \in Request, Terminate(w) PROVE TypeOK'
  <2>1. task' \in [Worker -> Task]
    BY <1>8 DEF Terminate, TypeOK, Become, Task
  <2>2. Remove({r \in sessions : r.id = task[w].row.id}) /\ Clock
    BY <1>8 DEF Terminate
  <2>3. task[w].row.user \in User
    BY <1>8, TaskTypes DEF Terminate, TypeOK, EndTask, Row
  <2>4. updates' \in SUBSET User /\ unheard' \in SUBSET User
    BY <1>8, <2>3, TellTyped DEF Terminate, NoBroadcast, TypeOK
  <2> QED
    BY <2>1, <2>2, <2>4, RemoveTyped DEF TypeOK
<1>9. ASSUME NEW w \in Request, NEW u \in User, NEW k, TerminateAll(w, u, k)
      PROVE  TypeOK'
  <2>1. Remove({r \in RowsOf(u) : r.token # k}) /\ Clock
    BY <1>9 DEF TerminateAll
  <2>2. updates' \in SUBSET User /\ unheard' \in SUBSET User
    BY <1>9, TellTyped DEF TerminateAll
  <2> QED
    BY <1>9, <2>1, <2>2, RemoveTyped DEF TerminateAll, TypeOK
<1>10. ASSUME NEW c \in Cron, SweepFind(c) PROVE TypeOK'
  <2> DEFINE found == {r \in sessions : Expired(r, now)}
  <2>1. [at |-> "sweep", cutoff |-> now, found |-> found] \in Task
    BY DEF Task, SweepTask, TypeOK
  <2>2. task' \in [Worker -> Task]
    BY <1>10, <2>1 DEF SweepFind, TypeOK, Become
  <2> QED
    BY <1>10, <2>2 DEF SweepFind, TypeOK, Clock, NoBroadcast
<1>11. ASSUME NEW c \in Cron, SweepDelete(c) PROVE TypeOK'
  <2>1. task' \in [Worker -> Task]
    BY <1>11 DEF SweepDelete, TypeOK, Become, Task
  <2>2. Remove({r \in sessions : Expired(r, task[c].cutoff)}) /\ Clock
    BY <1>11 DEF SweepDelete
  <2>3. {r.user : r \in task[c].found} \in SUBSET User
    BY <1>11, TaskTypes DEF SweepDelete, TypeOK, SweepTask, Row
  <2>4. updates' \in SUBSET User /\ unheard' \in SUBSET User
    BY <1>11, <2>3, TellTyped DEF SweepDelete
  <2> QED
    BY <2>1, <2>2, <2>4, RemoveTyped DEF TypeOK
<1>12. ASSUME NEW w \in Worker, Fail(w) PROVE TypeOK'
  <2>1. task' \in [Worker -> Task]
    BY <1>12 DEF Fail, TypeOK, Become, Task
  <2>2. CASE UNCHANGED sessions /\ NoBroadcast /\ Clock
    BY <2>1, <2>2 DEF TypeOK, NoBroadcast, Clock
  <2>3. CASE CreateUnanswered(w)
    <3>1. NewRow(task[w]) \in Row
      BY <2>3, CreateTyped DEF CreateUnanswered
    <3>2. unheard' \in SUBSET User
      BY <2>3, <3>1, TellTyped DEF CreateUnanswered
    <3> QED
      BY <2>1, <2>3, <3>2, CreateTyped DEF CreateUnanswered, TypeOK
  <2>4. ASSUME NEW row, EndUnanswered(w, row) PROVE TypeOK'
    <3> DEFINE gone == {r \in sessions : r.id = row.id}
    <3>1. Remove(gone) /\ Clock /\ updates' = updates
      BY <2>4 DEF EndUnanswered
    <3>2. gone \in SUBSET Row
      BY DEF TypeOK
    <3>3. unheard' \in SUBSET User
      BY <2>4, <3>2, TellTyped DEF EndUnanswered, TypeOK
    <3> QED
      BY <2>1, <3>1, <3>3, RemoveTyped DEF TypeOK
  <2>5. CASE /\ Remove({r \in sessions : Expired(r, task[w].cutoff)})
             /\ NoBroadcast /\ Clock
    BY <2>1, <2>5, RemoveTyped DEF TypeOK, NoBroadcast
  <2> QED
    BY <1>12, <2>2, <2>3, <2>4, <2>5 DEF Fail
<1>16. ASSUME NEW w \in Request, NEW u \in User, NEW k, TerminateAllUnanswered(w, u, k)
       PROVE  TypeOK'
  <2> DEFINE gone == {r \in RowsOf(u) : r.token # k}
  <2>1. /\ Remove(gone) /\ Clock /\ Forget(gone)
        /\ updates' = updates /\ task' = task
    BY <1>16 DEF TerminateAllUnanswered
  <2>2. gone \in SUBSET Row
    BY DEF RowsOf, TypeOK
  <2> HIDE DEF gone
  <2> QED
    BY <2>1, <2>2, TellTyped, RemoveTyped DEF TypeOK
<1>13. ASSUME NEW u \in User, EmitUpdate(u) PROVE TypeOK'
  BY <1>13 DEF EmitUpdate, TypeOK, Clock
<1>14. CASE Tick
  <2>1. \A r \in sessions : r.createdAt <= now'
    BY <1>14 DEF Tick, TypeOK, Row
  <2> QED
    BY <1>14, <2>1 DEF Tick, TypeOK
<1>15. CASE UNCHANGED vars
  BY <1>15 DEF vars, TypeOK
<1> QED
  BY <1>1, <1>2, <1>3, <1>4, <1>5, <1>6, <1>7, <1>8, <1>9, <1>10, <1>11,
     <1>12, <1>13, <1>14, <1>15, <1>16 DEF Next, Call, Step

\* Sessions and local variables keep their types, ids and tokens identify
\* rows, and no row is from the future.
THEOREM TypeInvariant == Spec => []TypeOK
<1> QED
  BY TypeInit, TypeStep, PTL DEF Spec

\* A job only sweeps: no query of its own creates a row.
JobsSweep == \A c \in Cron : task[c].at \in {"idle", "sweep"}

LEMMA JobsOnlySweep == Spec => []JobsSweep
<1>1. Init => JobsSweep
  BY DEF Init, JobsSweep, Idle, Worker
<1>2. TypeOK /\ JobsSweep /\ [Next]_vars => JobsSweep'
  <2> SUFFICES ASSUME TypeOK, JobsSweep, [Next]_vars, NEW c \in Cron
               PROVE  task'[c].at \in {"idle", "sweep"}
    BY DEF JobsSweep
  <2> USE DEF Worker
  <2>1. task[c].at \in {"idle", "sweep"}
    BY DEF JobsSweep
  <2>2. ASSUME NEW w \in Worker, NEW t, Become(w, t), w # c \/ t.at \in {"idle", "sweep"}
        PROVE  task'[c].at \in {"idle", "sweep"}
    BY <2>1, <2>2 DEF Become, TypeOK
  <2>3. CASE UNCHANGED task
    BY <2>1, <2>3
  <2>4. ASSUME NEW w \in Request, Call(w) \/ Step(w) PROVE task'[c].at \in {"idle", "sweep"}
    <3>1. w # c
      BY FiniteWorkers
    <3>2. UNCHANGED task \/ \E t : Become(w, t)
      BY <2>4 DEF Call, Step, StartLogin, FindSession, TerminateAll,
         TerminateAllUnanswered, Count, FindOldest, Evict, Create, Expire, Terminate
    <3> QED
      BY <2>2, <2>3, <3>1, <3>2
  <2>5. ASSUME NEW w \in Worker, Fail(w) \/ SweepFind(w) \/ SweepDelete(w)
        PROVE  task'[c].at \in {"idle", "sweep"}
    BY <2>2, <2>3, <2>5 DEF Fail, SweepFind, SweepDelete, Idle
  <2> QED
    BY <2>3, <2>4, <2>5 DEF Next, EmitUpdate, Tick, vars
<1> QED
  BY <1>1, <1>2, TypeInvariant, PTL DEF Spec
-----------------------------------------------------------------------------
(***************************************************************************)
(* The two ways the table changes, and what both leave alone.              *)
(***************************************************************************)

Shrinks == sessions' \in SUBSET sessions /\ nextId' = nextId

Grows ==
  \E n \in Row :
    /\ n.id = nextId /\ n.createdAt = now
    /\ sessions' = sessions \cup {n}
    /\ nextId' = nextId + 1

\* A step deletes rows or creates one, and time does not go back.
LEMMA TableStep ==
  ASSUME TypeOK, [Next]_vars
  PROVE  (Shrinks \/ Grows) /\ now <= now'
<1> USE DEF Worker
<1>0. now \in Nat
  BY DEF TypeOK
<1>1. ASSUME NEW w \in Worker, Create(w) \/ CreateUnanswered(w)
      PROVE  (Shrinks \/ Grows) /\ now <= now'
  <2>1. task[w] \in LoginTask
    BY <1>1, TaskTypes DEF Create, CreateUnanswered, TypeOK
  <2>2. NewRow(task[w]) \in Row /\ NewRow(task[w]).id = nextId
        /\ NewRow(task[w]).createdAt = now
    BY <2>1 DEF NewRow, LoginTask, Row, TypeOK
  <2> QED
    BY <1>1, <2>2, <1>0 DEF Create, CreateUnanswered, Shrinks, Grows
<1>2. ASSUME NEW w \in Worker,
             Evict(w) \/ Expire(w) \/ Terminate(w) \/ SweepDelete(w)
      PROVE  (Shrinks \/ Grows) /\ now <= now'
  BY <1>2, <1>0 DEF Evict, Expire, Terminate, SweepDelete, Remove, Clock, Shrinks
<1>3. ASSUME NEW u \in User, NEW w \in Worker, NEW k,
             TerminateAll(w, u, k) \/ TerminateAllUnanswered(w, u, k)
      PROVE  (Shrinks \/ Grows) /\ now <= now'
  BY <1>3, <1>0 DEF TerminateAll, TerminateAllUnanswered, Remove, Clock, Shrinks
<1>4. ASSUME NEW w \in Worker, Count(w) \/ FindOldest(w) \/ SweepFind(w)
      PROVE  (Shrinks \/ Grows) /\ now <= now'
  BY <1>4, <1>0 DEF Count, FindOldest, SweepFind, Clock, Shrinks
<1>8. ASSUME NEW w \in Worker, Fail(w) PROVE (Shrinks \/ Grows) /\ now <= now'
  <2>1. CreateUnanswered(w) \/ (sessions' \in SUBSET sessions /\ Clock)
    BY <1>8 DEF Fail, EndUnanswered, Remove
  <2> QED
    BY <1>0, <1>1, <2>1 DEF Clock, Shrinks
<1>5. ASSUME NEW w \in Worker, NEW x, StartLogin(w, x) \/ FindSession(w, x)
      PROVE  (Shrinks \/ Grows) /\ now <= now'
  BY <1>5, <1>0 DEF StartLogin, FindSession, Clock, Shrinks
<1>6. ASSUME NEW u \in User, EmitUpdate(u)
      PROVE  (Shrinks \/ Grows) /\ now <= now'
  BY <1>6, <1>0 DEF EmitUpdate, Clock, Shrinks
<1>7. CASE Tick \/ UNCHANGED vars
  BY <1>7, <1>0 DEF Tick, vars, Shrinks
<1> QED
  BY <1>1, <1>2, <1>3, <1>4, <1>5, <1>6, <1>7, <1>8 DEF Next, Call, Step

\* A copy of a row outlives any step.
LEMMA KnownStays ==
  ASSUME TypeOK, now' \in Nat, Shrinks \/ Grows, now <= now',
         NEW copy \in Row, Known(copy)
  PROVE  /\ copy.id < nextId' /\ copy.createdAt <= now'
         /\ \A r \in sessions' : r.id = copy.id => r = copy
<1>1. copy.createdAt <= now'
  BY DEF Known, Row, TypeOK
<1>2. CASE Shrinks
  BY <1>1, <1>2 DEF Shrinks, Known
<1>3. CASE Grows
  BY <1>1, <1>3 DEF Grows, Known, Row, TypeOK
<1> QED
  BY <1>2, <1>3

\* A worker that does not move keeps what it knows.
LEMMA FreshStays ==
  ASSUME TypeOK, TypeOK', Shrinks \/ Grows, now <= now',
         NEW v \in Worker, LocalFresh(v), task'[v] = task[v]
  PROVE  LocalFresh(v)'
<1>1. task[v] \in Task
  BY DEF TypeOK
<1>0. now' \in Nat
  BY DEF TypeOK
<1>2. CASE task[v].at = "evict"
  <2>1. task[v].victim \in Row
    BY <1>1, <1>2, TaskTypes DEF EvictTask
  <2> QED
    BY <1>0, <1>2, <2>1, KnownStays DEF LocalFresh, Known
<1>3. CASE task[v].at \in {"expire", "terminate"}
  <2>1. task[v].row \in Row
    BY <1>1, <1>3, TaskTypes DEF EndTask
  <2>2. Known(task[v].row)'
    BY <1>0, <1>3, <2>1, KnownStays DEF LocalFresh, Known
  <2>3. task[v].at = "expire" => Expired(task[v].row, now')
    BY <2>1 DEF LocalFresh, Expired, Row, TypeOK
  <2> QED
    BY <1>3, <2>2, <2>3 DEF LocalFresh, Expired
<1>4. CASE task[v].at = "sweep"
  <2>1. task[v].cutoff \in Nat
    BY <1>1, <1>4, TaskTypes DEF SweepTask
  <2> QED
    BY <1>4, <2>1 DEF LocalFresh, TypeOK
<1> QED
  BY <1>2, <1>3, <1>4 DEF LocalFresh

\* A worker that starts or ends, or goes on with a login, holds no copy.
LEMMA FreshWithoutCopy ==
  ASSUME NEW v \in Worker, task'[v].at \in {"idle", "count", "findOldest", "create"}
  PROVE  LocalFresh(v)'
BY DEF LocalFresh
\* When one worker moves, the others keep what they know.
LEMMA OneMoves ==
  ASSUME TypeOK, TypeOK', [Next]_vars, LocalsFresh,
         NEW w \in Worker, NEW t, Become(w, t), LocalFresh(w)'
  PROVE  LocalsFresh'
<1>1. ASSUME NEW v \in Worker, v # w PROVE LocalFresh(v)'
  <2>1. task'[v] = task[v]
    BY <1>1 DEF Become, TypeOK
  <2> QED
    BY <2>1, TableStep, FreshStays DEF LocalsFresh
<1> QED
  BY <1>1 DEF LocalsFresh

\* The two facts about what workers remember, by one step.
LEMMA FreshStep ==
  ASSUME TypeOK, TypeOK', [Next]_vars, LocalsFresh
  PROVE  LocalsFresh'
<1> USE DEF Worker
<1>1. ASSUME NEW w \in Request, NEW u \in User, StartLogin(w, u) PROVE LocalsFresh'
  <2>1. task'[w].at = "count"
    BY <1>1 DEF StartLogin, Become, TypeOK
  <2>2. PICK t : Become(w, t)
    BY <1>1 DEF StartLogin
  <2> QED
    BY <2>1, <2>2, FreshWithoutCopy, OneMoves
<1>2. ASSUME NEW w \in Request, Count(w) PROVE LocalsFresh'
  <2>1. task[w] \in LoginTask
    BY <1>2, TaskTypes DEF Count, TypeOK
  <2>2. \A s : [task[w] EXCEPT !.at = s].at = s
    BY <2>1 DEF LoginTask
  <2>3. task'[w].at \in {"findOldest", "create"}
    BY <1>2, <2>2 DEF Count, Become, TypeOK
  <2>4. PICK t : Become(w, t)
    BY <1>2 DEF Count
  <2> QED
    BY <2>3, <2>4, FreshWithoutCopy, OneMoves
<1>3. ASSUME NEW w \in Request, FindOldest(w) PROVE LocalsFresh'
  <2>1. task[w] \in LoginTask
    BY <1>3, TaskTypes DEF FindOldest, TypeOK
  <2>2. CASE Become(w, [task[w] EXCEPT !.at = "create"])
    <3>1. task'[w].at = "create"
      BY <2>1, <2>2 DEF Become, LoginTask, TypeOK
    <3> QED
      BY <2>2, <3>1, FreshWithoutCopy, OneMoves
  <2>3. ASSUME NEW r \in RowsOf(task[w].user), Become(w, EvictTaskOf(task[w], r))
        PROVE  LocalsFresh'
    <3>1. /\ task'[w].at = "evict" /\ task'[w].victim = r
          /\ task'[w].user = task[w].user
      BY <2>3 DEF Become, EvictTaskOf, TypeOK
    <3>2. r \in sessions /\ r.user = task[w].user /\ sessions' = sessions /\ nextId' = nextId
      BY <1>3, <2>3 DEF RowsOf, FindOldest, Clock
    <3>3. LocalFresh(w)'
      BY <3>1, <3>2 DEF LocalFresh, Known, TypeOK
    <3> QED
      BY <2>3, <3>3, OneMoves
  <2> QED
    BY <1>3, <2>2, <2>3 DEF FindOldest
<1>4. ASSUME NEW w \in Request, Evict(w) PROVE LocalsFresh'
  <2>1. task'[w].at \in {"idle", "create"}
    BY <1>4 DEF Evict, Become, Idle, CreateTaskOf, TypeOK
  <2>2. PICK t : Become(w, t)
    BY <1>4 DEF Evict
  <2> QED
    BY <2>1, <2>2, FreshWithoutCopy, OneMoves
<1>5. ASSUME NEW w \in Worker, Become(w, Idle) PROVE LocalsFresh'
  <2>1. task'[w].at = "idle"
    BY <1>5 DEF Become, Idle, TypeOK
  <2> QED
    BY <1>5, <2>1, FreshWithoutCopy, OneMoves
<1>6. ASSUME NEW w \in Request, NEW r \in sessions, FindSession(w, r)
      PROVE  LocalsFresh'
  <2>1. /\ task'[w].at = IF Expired(r, now) THEN "expire" ELSE "terminate"
        /\ task'[w].row = r
    BY <1>6 DEF FindSession, Become, TypeOK
  <2>2. sessions' = sessions /\ nextId' = nextId /\ now' = now
    BY <1>6 DEF FindSession, Clock
  <2>3. LocalFresh(w)'
    BY <2>1, <2>2 DEF LocalFresh, Known, Expired, TypeOK
  <2>4. PICK t : Become(w, t)
    BY <1>6 DEF FindSession
  <2> QED
    BY <2>3, <2>4, OneMoves
<1>7. ASSUME NEW c \in Cron, SweepFind(c) PROVE LocalsFresh'
  <2> DEFINE found == {r \in sessions : Expired(r, now)}
  <2>1. CASE found = {}
    <3>1. UNCHANGED <<sessions, now, nextId, task>>
      BY <1>7, <2>1 DEF SweepFind, Clock
    <3> QED
      BY <3>1 DEF LocalsFresh, LocalFresh, Known, Expired
  <2>2. CASE found # {}
    <3>1. Become(c, [at |-> "sweep", cutoff |-> now, found |-> found]) /\ now' = now
      BY <1>7, <2>2 DEF SweepFind, Clock
    <3>2. task'[c].at = "sweep" /\ task'[c].cutoff = now
      BY <3>1 DEF Become, TypeOK
    <3>3. LocalFresh(c)'
      BY <3>1, <3>2 DEF LocalFresh, TypeOK
    <3> QED
      BY <3>1, <3>3, OneMoves
  <2> QED
    BY <2>1, <2>2
<1>8. CASE UNCHANGED task
  BY <1>8, TableStep, FreshStays DEF LocalsFresh
<1>9. \A w \in Worker :
        Create(w) \/ Expire(w) \/ Terminate(w) \/ SweepDelete(w) \/ Fail(w)
          => Become(w, Idle)
  BY DEF Create, Expire, Terminate, SweepDelete, Fail
<1>10. ASSUME \/ \E w \in Request, u \in User, t \in 0..now :
                   TerminateAll(w, u, <<u, t>>) \/ TerminateAllUnanswered(w, u, <<u, t>>)
              \/ \E u \in User : EmitUpdate(u)
              \/ Tick \/ UNCHANGED vars
       PROVE  UNCHANGED task
  BY <1>10 DEF TerminateAll, TerminateAllUnanswered, EmitUpdate, Tick, vars
<1> QED
  BY <1>1, <1>2, <1>3, <1>4, <1>5, <1>6, <1>7, <1>8, <1>9, <1>10 DEF Next, Call, Step

\* What a worker read before an await, and acts on after it, still holds.
THEOREM WhatWorkersKnow == Spec => []LocalsFresh
<1>1. Init => LocalsFresh
  BY DEF Init, LocalsFresh, LocalFresh, Idle
<1>2. TypeOK /\ TypeOK' /\ LocalsFresh /\ [Next]_vars => LocalsFresh'
  BY FreshStep
<1> QED
  BY <1>1, <1>2, TypeInvariant, PTL DEF Spec
-----------------------------------------------------------------------------
(***************************************************************************)
(* Eviction in order.                                                      *)
(***************************************************************************)

\* A worker that waits to evict, and does not move, still holds the oldest:
\* rows created in the meantime are younger.
LEMMA OldestStays ==
  ASSUME TypeOK, TypeOK', LocalsFresh, Shrinks \/ Grows,
         NEW v \in Request, task'[v] = task[v], task[v].at = "evict",
         \A r \in RowsOf(task[v].user) : task[v].victim.createdAt <= r.createdAt
  PROVE  \A r \in sessions' :
           r.user = task[v].user => task[v].victim.createdAt <= r.createdAt
<1>1. task[v].victim.createdAt <= now
  BY DEF LocalsFresh, LocalFresh, Known, Worker
<1>2. CASE Shrinks
  BY <1>2 DEF Shrinks, RowsOf
<1>3. CASE Grows
  BY <1>1, <1>3 DEF Grows, RowsOf
<1> QED
  BY <1>2, <1>3

\* The row a login is about to delete is the oldest of its user, at the time
\* it is deleted as it was when it was chosen.
THEOREM EvictionOrder == Spec => []OldestIsEvicted
<1>1. Init => OldestIsEvicted
  BY DEF Init, OldestIsEvicted, Idle, Worker
<1>2. TypeOK /\ TypeOK' /\ LocalsFresh /\ OldestIsEvicted /\ [Next]_vars
        => OldestIsEvicted'
  <2> SUFFICES ASSUME TypeOK, TypeOK', LocalsFresh, OldestIsEvicted, [Next]_vars,
                      NEW v \in Request, task'[v].at = "evict"
               PROVE  \A r \in sessions' : r.user = task'[v].user
                        => task'[v].victim.createdAt <= r.createdAt
    BY DEF OldestIsEvicted, RowsOf
  <2>1. CASE task'[v] = task[v]
    <3>1. \A r \in RowsOf(task[v].user) : task[v].victim.createdAt <= r.createdAt
      BY <2>1 DEF OldestIsEvicted
    <3> QED
      BY <2>1, <3>1, TableStep, OldestStays
  <2>2. CASE FindOldest(v)
    <3>1. task[v] \in LoginTask
      BY <2>2, TaskTypes DEF FindOldest, TypeOK, Worker
    <3>2. [task[v] EXCEPT !.at = "create"].at = "create"
      BY <3>1 DEF LoginTask
    <3>3. task' # [task EXCEPT ![v] = [task[v] EXCEPT !.at = "create"]]
      BY <3>2 DEF TypeOK, Worker
    <3>4. PICK r \in RowsOf(task[v].user) :
            /\ IsOldest(r, RowsOf(task[v].user))
            /\ Become(v, EvictTaskOf(task[v], r))
      BY <2>2, <3>3 DEF FindOldest, Become
    <3>5. task'[v].victim = r /\ task'[v].user = task[v].user
      BY <3>4 DEF Become, EvictTaskOf, TypeOK, Worker
    <3>6. sessions' = sessions
      BY <2>2 DEF FindOldest
    <3> QED
      BY <3>4, <3>5, <3>6 DEF IsOldest, RowsOf
  <2>3. ASSUME NEW w \in Worker, NEW t, Become(w, t), t.at # "evict"
        PROVE  task'[v] = task[v]
    BY <2>3 DEF Become, TypeOK, Worker
  <2>4. ASSUME NEW w \in Request, FindOldest(w), w # v PROVE task'[v] = task[v]
    BY <2>4 DEF FindOldest, Become, TypeOK, Worker
  <2>5. ASSUME NEW w \in Request, Call(w) PROVE task'[v] = task[v]
    BY <2>3, <2>5 DEF Call, StartLogin, FindSession, TerminateAll,
       TerminateAllUnanswered, Worker
  <2>6. ASSUME NEW w \in Request, Count(w) PROVE task'[v] = task[v]
    <3>1. task[w] \in LoginTask
      BY <2>6, TaskTypes DEF Count, TypeOK, Worker
    <3>2. \A s : [task[w] EXCEPT !.at = s].at = s
      BY <3>1 DEF LoginTask
    <3> QED
      BY <2>3, <2>6, <3>2 DEF Count, Worker
  <2>7. ASSUME NEW w \in Worker,
               \/ Evict(w) \/ Create(w) \/ Expire(w) \/ Terminate(w)
               \/ SweepDelete(w) \/ Fail(w) \/ SweepFind(w)
        PROVE  task'[v] = task[v]
    BY <2>3, <2>7 DEF Evict, Create, Expire, Terminate, SweepDelete, Fail, SweepFind,
       Idle, CreateTaskOf
  <2>8. CASE UNCHANGED task
    BY <2>8, <2>1
  <2> QED
    BY <2>1, <2>2, <2>4, <2>5, <2>6, <2>7, <2>8
       DEF Next, Step, EmitUpdate, Tick, vars, Worker
<1> QED
  BY <1>1, <1>2, TypeInvariant, WhatWorkersKnow, PTL DEF Spec
-----------------------------------------------------------------------------
(***************************************************************************)
(* What a step may do to the table.                                        *)
(***************************************************************************)

\* Lazy deletion and the cleanup job delete only rows that are expired now.
LEMMA SweptAreExpired ==
  ASSUME TypeOK, LocalsFresh, NEW w \in Worker, Expire(w) \/ SweepDelete(w),
         NEW r \in sessions \ sessions'
  PROVE  Expired(r, now)
<1>1. CASE Expire(w)
  <2>1. r.id = task[w].row.id
    BY <1>1 DEF Expire, Remove
  <2> QED
    BY <1>1, <2>1 DEF Expire, LocalsFresh, LocalFresh, Known
<1>2. CASE SweepDelete(w)
  <2>1. Expired(r, task[w].cutoff) /\ task[w].cutoff <= now
    BY <1>2 DEF SweepDelete, Remove, LocalsFresh, LocalFresh
  <2>2. task[w].cutoff \in Nat
    BY <1>2, TaskTypes DEF SweepDelete, SweepTask, TypeOK
  <2> QED
    BY <2>1, <2>2 DEF Expired, Row, TypeOK
<1> QED
  BY <1>1, <1>2

\* However late a lazy deletion or a cleanup acts on what it read, it deletes
\* no row that is not expired.
THEOREM SweepsSpareActive == Spec => OnlyExpiredSwept
<1>1. TypeOK /\ LocalsFresh /\ [Next]_vars
        => [\A w \in Worker : Expire(w) \/ SweepDelete(w)
              => \A r \in sessions \ sessions' : Expired(r, now)]_vars
  BY SweptAreExpired
<1> QED
  BY <1>1, TypeInvariant, WhatWorkersKnow, PTL DEF Spec, OnlyExpiredSwept

\* Deleting rows that are not active, or that are not a user's, leaves that
\* user's list of active sessions alone.
LEMMA ListUntouched ==
  ASSUME NEW u \in User, sessions' \in SUBSET sessions,
         \A r \in sessions \ sessions' : r.user # u \/ ~(r.expiresAt > now)
  PROVE  ActiveOf(sessions, u, now) = ActiveOf(sessions', u, now)
BY DEF ActiveOf

\* The user's list of active sessions stays as it is.
Quiet(u) == ActiveOf(sessions, u, now) = ActiveOf(sessions', u, now)

\* A user's list shows no expired row.
LEMMA ExpiredUnlisted ==
  ASSUME TypeOK, NEW u \in User, sessions' \in SUBSET sessions,
         \A r \in sessions \ sessions' : Expired(r, now)
  PROVE  Quiet(u)
<1>1. \A r \in sessions \ sessions' : ~(r.expiresAt > now)
  BY DEF Expired, Row, TypeOK
<1> QED
  BY <1>1, ListUntouched DEF Quiet

\* The users who will be told of a change, or of whom it is recorded that
\* nobody will tell them.
Accounted(u) == u \in updates' \cup unheard'

\* What the two ways to account for a change do.
LEMMA BroadcastAccounts ==
  ASSUME NEW users, Broadcast(users), NEW u \in users
  PROVE  Accounted(u)
BY DEF Broadcast, Accounted

LEMMA ForgetAccounts ==
  ASSUME NEW rows, Forget(rows), updates' = updates, NEW r \in rows
  PROVE  Accounted(r.user)
BY DEF Forget, Accounted

\* A deletion of rows whose users are all accounted for.
LEMMA ListAccounted ==
  ASSUME NEW u \in User, sessions' \in SUBSET sessions,
         \A r \in sessions \ sessions' : Accounted(r.user)
  PROVE  Quiet(u) \/ Accounted(u)
<1>1. CASE \E r \in sessions \ sessions' : r.user = u
  BY <1>1
<1>2. CASE \A r \in sessions \ sessions' : r.user # u
  BY <1>2, ListUntouched DEF Quiet
<1> QED
  BY <1>1, <1>2

\* A row that is deleted by the id that a worker remembers is the row it
\* remembers.
LEMMA DeletedIsKnown ==
  ASSUME NEW copy, Known(copy), NEW r \in sessions, r.id = copy.id
  PROVE  r = copy
BY DEF Known

\* The rejected query of a worker that acts on what it knows.
LEMMA FailAccounted ==
  ASSUME TypeOK, LocalsFresh, NEW w \in Worker, Fail(w), NEW u \in User
  PROVE  Quiet(u) \/ Accounted(u)
<1>1. CASE UNCHANGED sessions
  BY <1>1 DEF Quiet
<1>2. CASE CreateUnanswered(w)
  <2>1. sessions' = sessions \cup {NewRow(task[w])} /\ updates' = updates
        /\ Forget({NewRow(task[w])})
    BY <1>2 DEF CreateUnanswered
  <2>2. CASE u = NewRow(task[w]).user
    BY <2>1, <2>2, ForgetAccounts
  <2>3. CASE u # NewRow(task[w]).user
    BY <2>1, <2>3 DEF Quiet, ActiveOf
  <2> QED
    BY <2>2, <2>3
<1>3. ASSUME NEW row, EndUnanswered(w, row), Known(row), task[w].at # "expire"
      PROVE  Quiet(u) \/ Accounted(u)
  <2> DEFINE gone == {r \in sessions : r.id = row.id}
  <2>1. Remove(gone) /\ Forget(gone) /\ updates' = updates
    BY <1>3 DEF EndUnanswered
  <2>2. \A r \in sessions \ sessions' : r \in gone
    BY <2>1 DEF Remove
  <2> HIDE DEF gone
  <2>3. \A r \in sessions \ sessions' : Accounted(r.user)
    BY <2>1, <2>2, ForgetAccounts
  <2>4. sessions' \in SUBSET sessions
    BY <2>1 DEF Remove
  <2> QED
    BY <2>3, <2>4, ListAccounted
<1>4. CASE task[w].at = "expire" /\ EndUnanswered(w, task[w].row)
  <2>1. sessions' = sessions \ {r \in sessions : r.id = task[w].row.id}
    BY <1>4 DEF EndUnanswered, Remove
  <2>2. \A r \in sessions \ sessions' : Expired(r, now)
    BY <1>4, <2>1, DeletedIsKnown DEF LocalsFresh, LocalFresh
  <2> QED
    BY <2>1, <2>2, ExpiredUnlisted
<1>5. CASE task[w].at = "sweep" /\ Remove({r \in sessions : Expired(r, task[w].cutoff)})
  <2>1. \A r \in sessions \ sessions' : Expired(r, task[w].cutoff)
    BY <1>5 DEF Remove
  <2>2. task[w].cutoff <= now /\ task[w].cutoff \in Nat
    BY <1>5, TaskTypes DEF LocalsFresh, LocalFresh, SweepTask, TypeOK
  <2>3. \A r \in sessions \ sessions' : Expired(r, now)
    BY <2>1, <2>2 DEF Expired, Row, TypeOK
  <2>4. sessions' \in SUBSET sessions
    BY <1>5 DEF Remove
  <2> QED
    BY <2>3, <2>4, ExpiredUnlisted
<1>6. /\ task[w].at = "evict" => Known(task[w].victim)
      /\ task[w].at \in {"expire", "terminate"} => Known(task[w].row)
  BY DEF LocalsFresh, LocalFresh
<1> QED
  BY <1>1, <1>2, <1>3, <1>4, <1>5, <1>6 DEF Fail

\* A step that changes a user's list of active sessions starts a broadcast,
\* unless its query is rejected after it was executed.
THEOREM ListChangesReachDevices == Spec => ListChangesAnnounced
<1>1. TypeOK /\ LocalsFresh /\ [Next]_vars
        => \A u \in User : now' = now => Quiet(u) \/ Accounted(u)
  <2> SUFFICES ASSUME TypeOK, LocalsFresh, [Next]_vars, NEW u \in User, now' = now
               PROVE  Quiet(u) \/ Accounted(u)
    OBVIOUS
  <2> USE DEF Worker
  <2>1. CASE UNCHANGED sessions
    BY <2>1 DEF Quiet
  <2>2. ASSUME NEW w \in Request, Evict(w) PROVE Quiet(u) \/ Accounted(u)
    <3>1. CASE task[w].victim.id \in Ids
      <4>1. sessions' = {r \in sessions : r.id # task[w].victim.id}
            /\ Broadcast({task[w].user})
        BY <2>2, <3>1 DEF Evict, Remove
      <4>2. Known(task[w].victim) /\ task[w].victim.user = task[w].user
        BY <2>2 DEF Evict, LocalsFresh, LocalFresh
      <4>3. \A r \in sessions \ sessions' : Accounted(r.user)
        BY <4>1, <4>2, DeletedIsKnown, BroadcastAccounts
      <4> QED
        BY <4>1, <4>3, ListAccounted
    <3>2. CASE task[w].victim.id \notin Ids
      BY <2>1, <2>2, <3>2 DEF Evict
    <3> QED
      BY <3>1, <3>2
  <2>3. ASSUME NEW w \in Request, Create(w) PROVE Quiet(u) \/ Accounted(u)
    <3>1. NewRow(task[w]).user = task[w].user
      BY DEF NewRow
    <3>2. CASE task[w].token \in Tokens
      BY <2>1, <2>3, <3>2 DEF Create
    <3>3. CASE task[w].token \notin Tokens /\ u = task[w].user
      BY <2>3, <3>3, BroadcastAccounts DEF Create
    <3>4. CASE task[w].token \notin Tokens /\ u # task[w].user
      BY <2>3, <3>1, <3>4 DEF Create, Quiet, ActiveOf
    <3> QED
      BY <3>2, <3>3, <3>4
  <2>4. ASSUME NEW w \in Request, Terminate(w) PROVE Quiet(u) \/ Accounted(u)
    <3>1. sessions' = {r \in sessions : r.id # task[w].row.id}
      BY <2>4 DEF Terminate, Remove
    <3>2. Known(task[w].row)
      BY <2>4 DEF Terminate, LocalsFresh, LocalFresh
    <3>3. CASE task[w].row.id \in Ids
      <4>1. Broadcast({task[w].row.user})
        BY <2>4, <3>3 DEF Terminate
      <4>2. \A r \in sessions \ sessions' : Accounted(r.user)
        BY <3>1, <3>2, <4>1, DeletedIsKnown, BroadcastAccounts
      <4> QED
        BY <3>1, <4>2, ListAccounted
    <3>4. CASE task[w].row.id \notin Ids
      BY <2>1, <3>1, <3>4 DEF Ids
    <3> QED
      BY <3>3, <3>4
  <2>5. ASSUME NEW w \in Request, NEW x \in User, NEW k,
               TerminateAll(w, x, k) \/ TerminateAllUnanswered(w, x, k)
        PROVE  Quiet(u) \/ Accounted(u)
    <3> DEFINE gone == {r \in RowsOf(x) : r.token # k}
    <3>1. sessions' = sessions \ gone
      BY <2>5 DEF TerminateAll, TerminateAllUnanswered, Remove
    <3>2. \A r \in gone : Accounted(r.user)
      <4>1. Broadcast({x}) \/ (Forget(gone) /\ updates' = updates)
        BY <2>5 DEF TerminateAll, TerminateAllUnanswered
      <4>2. \A r \in gone : r.user = x
        BY DEF RowsOf
      <4> HIDE DEF gone
      <4> QED
        BY <4>1, <4>2, BroadcastAccounts, ForgetAccounts
    <3> HIDE DEF gone
    <3> QED
      BY <3>1, <3>2, ListAccounted
  <2>6. ASSUME NEW w \in Worker, Expire(w) \/ SweepDelete(w)
        PROVE  Quiet(u) \/ Accounted(u)
    <3>1. sessions' \in SUBSET sessions
      BY <2>6 DEF Expire, SweepDelete, Remove
    <3>2. \A r \in sessions \ sessions' : Expired(r, now)
      BY <2>6, SweptAreExpired
    <3> QED
      BY <3>1, <3>2, ExpiredUnlisted
  <2>7. ASSUME NEW w \in Worker,
               \/ Count(w) \/ FindOldest(w) \/ SweepFind(w)
               \/ \E x : StartLogin(w, x) \/ FindSession(w, x)
        PROVE  UNCHANGED sessions
    BY <2>7 DEF Count, FindOldest, SweepFind, StartLogin, FindSession
  <2>8. CASE UNCHANGED vars \/ Tick \/ \E x \in User : EmitUpdate(x)
    BY <2>1, <2>8 DEF vars, Tick, EmitUpdate
  <2> QED
    BY <2>1, <2>2, <2>3, <2>4, <2>5, <2>6, <2>7, <2>8, FailAccounted
       DEF Next, Call, Step
<1>2. TypeOK /\ LocalsFresh /\ [Next]_vars
        => [\A u \in User :
              now' = now /\ ActiveOf(sessions, u, now) # ActiveOf(sessions', u, now)
                => u \in updates' \cup unheard']_vars
  BY <1>1 DEF Quiet, Accounted
<1> QED
  BY <1>2, TypeInvariant, WhatWorkersKnow, PTL DEF Spec, ListChangesAnnounced
-----------------------------------------------------------------------------
(***************************************************************************)
(* The slots of a user.                                                    *)
(***************************************************************************)

\* Two finite sets that lose elements together count less.
LEMMA FewerOfBoth ==
  ASSUME NEW S, NEW C, IsFiniteSet(S), IsFiniteSet(C),
         NEW S2 \in SUBSET S, NEW C2 \in SUBSET C,
         NEW n \in Int, Cardinality(S) + Cardinality(C) <= n
  PROVE  Cardinality(S2) + Cardinality(C2) <= n
<1>1. Cardinality(S2) <= Cardinality(S) /\ Cardinality(C2) <= Cardinality(C)
  BY FS_Subset
<1>2. /\ Cardinality(S) \in Nat /\ Cardinality(C) \in Nat
      /\ Cardinality(S2) \in Nat /\ Cardinality(C2) \in Nat
  BY FS_Subset, FS_CardinalityType
<1> QED
  BY <1>1, <1>2

\* One set loses an element and the other gains at most one.
LEMMA Exchange ==
  ASSUME NEW S, NEW C, IsFiniteSet(S), IsFiniteSet(C),
         NEW r \in S, NEW w, NEW S2 \in SUBSET (S \ {r}), NEW C2 \in SUBSET (C \cup {w}),
         NEW n \in Int, Cardinality(S) + Cardinality(C) <= n
  PROVE  Cardinality(S2) + Cardinality(C2) <= n
<1>1. Cardinality(S) \in Nat /\ Cardinality(C) \in Nat
  BY FS_CardinalityType
<1>2. IsFiniteSet(S \ {r}) /\ Cardinality(S \ {r}) = Cardinality(S) - 1
  BY FS_RemoveElement
<1>3. /\ IsFiniteSet(C \cup {w})
      /\ Cardinality(C \cup {w}) = Cardinality(C)
           \/ Cardinality(C \cup {w}) = Cardinality(C) + 1
  BY FS_AddElement
<1>4. Cardinality(S \ {r}) + Cardinality(C \cup {w}) <= n
  BY <1>1, <1>2, <1>3
<1> QED
  BY <1>2, <1>3, <1>4, FewerOfBoth

\* How a worker's step changes the set of requests that are creating.
LEMMA CreatingStep ==
  ASSUME TypeOK, NEW w \in Worker, NEW t, Become(w, t), NEW u
  PROVE  /\ Creating(u)' \in SUBSET (Creating(u) \cup {w})
         /\ t.at # "create" \/ t.user # u => Creating(u)' \in SUBSET (Creating(u) \ {w})
<1>1. task'[w] = t /\ \A v \in Request \ {w} : task'[v] = task[v]
  BY DEF Become, TypeOK, Worker
<1> QED
  BY <1>1 DEF Creating

Slots(u) ==
  Cardinality(RowsOf(u)) + Cardinality(Creating(u))
    <= MaxSessions - 1 + Cardinality(Request)

\* What is needed to count the slots.
LEMMA SlotsFinite ==
  ASSUME TypeOK, NEW u
  PROVE  /\ IsFiniteSet(RowsOf(u)) /\ Cardinality(RowsOf(u)) \in Nat
         /\ IsFiniteSet(Creating(u)) /\ Cardinality(Creating(u)) \in Nat
         /\ Cardinality(Creating(u)) <= Cardinality(Request)
         /\ Cardinality(Request) \in Nat
         /\ MaxSessions - 1 + Cardinality(Request) \in Int
<1>1. RowsOf(u) \in SUBSET sessions /\ Creating(u) \in SUBSET Request
  BY DEF RowsOf, Creating
<1>2. Cardinality(Request) \in Nat
  BY FiniteWorkers, FS_CardinalityType
<1> QED
  BY <1>1, <1>2, FS_Subset, FS_CardinalityType, FiniteWorkers, LimitAssumption DEF TypeOK

\* A step that deletes rows, and lets no request pass the limit check.
LEMMA SlotsFree ==
  ASSUME TypeOK, NEW u, Slots(u), sessions' \in SUBSET sessions,
         Creating(u)' \in SUBSET Creating(u)
  PROVE  Slots(u)'
<1>1. RowsOf(u)' \in SUBSET RowsOf(u)
  BY DEF RowsOf
<1> QED
  BY <1>1, SlotsFinite, FewerOfBoth DEF Slots

\* A request passes the limit check of a user who has a free slot.
LEMMA SlotsTaken ==
  ASSUME TypeOK, TypeOK', NEW u, Cardinality(RowsOf(u)) < MaxSessions,
         sessions' = sessions
  PROVE  Slots(u)'
<1>1. RowsOf(u)' = RowsOf(u)
  BY DEF RowsOf
<1>2. Cardinality(Creating(u)') \in Nat /\ Cardinality(Creating(u)') <= Cardinality(Request)
  <2>1. Creating(u)' \in SUBSET Request
    BY DEF Creating
  <2> QED
    BY <2>1, FS_Subset, FS_CardinalityType, FiniteWorkers
<1> QED
  BY <1>1, <1>2, SlotsFinite, LimitAssumption DEF Slots
\* Every step keeps the slots of every user within the bound.
LEMMA SlotsStep ==
  ASSUME TypeOK, TypeOK', LocalsFresh, JobsSweep, [Next]_vars,
         NEW u \in User, Slots(u)
  PROVE  Slots(u)'
<1> USE DEF Worker
<1>1. ASSUME NEW w \in Worker, NEW t, Become(w, t), t.at # "create",
             sessions' \in SUBSET sessions
      PROVE  Slots(u)'
  BY <1>1, CreatingStep, SlotsFree
<1>2. ASSUME NEW w \in Request, NEW x \in User, StartLogin(w, x) PROVE Slots(u)'
  BY <1>1, <1>2 DEF StartLogin
<1>3. ASSUME NEW w \in Request, Count(w) PROVE Slots(u)'
  <2> DEFINE s == IF Cardinality(RowsOf(task[w].user)) >= MaxSessions
                  THEN "findOldest" ELSE "create"
             t == [task[w] EXCEPT !.at = s]
  <2>1. task[w] \in LoginTask
    BY <1>3, TaskTypes DEF Count, TypeOK
  <2>2. t.at = s /\ t.user = task[w].user
    BY <2>1 DEF LoginTask
  <2>3. Become(w, t) /\ sessions' = sessions
    BY <1>3 DEF Count
  <2> HIDE DEF t
  <2>4. CASE Cardinality(RowsOf(task[w].user)) >= MaxSessions
    BY <1>1, <2>2, <2>3, <2>4
  <2>5. CASE u # task[w].user
    BY <2>2, <2>3, <2>5, CreatingStep, SlotsFree
  <2>6. CASE u = task[w].user /\ ~(Cardinality(RowsOf(u)) >= MaxSessions)
    <3>1. Cardinality(RowsOf(u)) < MaxSessions
      BY <2>6, SlotsFinite, LimitAssumption
    <3> QED
      BY <2>3, <3>1, SlotsTaken
  <2> QED
    BY <2>4, <2>5, <2>6
<1>4. ASSUME NEW w \in Request, FindOldest(w) PROVE Slots(u)'
  <2> DEFINE t == [task[w] EXCEPT !.at = "create"]
  <2>1. task[w] \in LoginTask
    BY <1>4, TaskTypes DEF FindOldest, TypeOK
  <2>2. t.user = task[w].user
    BY <2>1 DEF LoginTask
  <2>3. sessions' = sessions
    BY <1>4 DEF FindOldest
  <2>4. CASE RowsOf(task[w].user) = {} /\ Become(w, t)
    <3> HIDE DEF t
    <3>1. CASE u # task[w].user
      BY <2>2, <2>3, <2>4, <3>1, CreatingStep, SlotsFree
    <3>2. CASE u = task[w].user
      <4>1. Cardinality(RowsOf(u)) = 0
        BY <2>4, <3>2, FS_EmptySet
      <4>2. Cardinality(RowsOf(u)) < MaxSessions
        BY <4>1, LimitAssumption
      <4> QED
        BY <2>3, <4>2, SlotsTaken
    <3> QED
      BY <3>1, <3>2
  <2>5. ASSUME NEW r, Become(w, EvictTaskOf(task[w], r)) PROVE Slots(u)'
    <3>1. EvictTaskOf(task[w], r).at # "create"
      BY DEF EvictTaskOf
    <3> QED
      BY <1>1, <2>3, <2>5, <3>1
  <2> QED
    BY <1>4, <2>4, <2>5 DEF FindOldest
<1>5. ASSUME NEW w \in Request, Evict(w) PROVE Slots(u)'
  <2>1. CASE task[w].victim.id \notin Ids
    BY <1>1, <1>5, <2>1 DEF Evict, Idle
  <2>2. CASE task[w].victim.id \in Ids
    <3>1. /\ sessions' = {r \in sessions : r.id # task[w].victim.id}
          /\ Become(w, CreateTaskOf(task[w]))
      BY <1>5, <2>2 DEF Evict, Remove
    <3>2. CreateTaskOf(task[w]).user = task[w].user
      BY DEF CreateTaskOf
    <3>3. CASE u # task[w].user
      BY <3>1, <3>2, <3>3, CreatingStep, SlotsFree
    <3>4. CASE u = task[w].user
      <4>1. LocalFresh(w) /\ task[w].at = "evict"
        BY <1>5 DEF Evict, LocalsFresh
      <4>2. task[w].victim \in RowsOf(u)
        BY <2>2, <3>4, <4>1 DEF LocalFresh, Known, Ids, RowsOf
      <4>3. RowsOf(u)' \in SUBSET (RowsOf(u) \ {task[w].victim})
        BY <3>1 DEF RowsOf
      <4>4. Creating(u)' \in SUBSET (Creating(u) \cup {w})
        BY <3>1, CreatingStep
      <4> DEFINE n == MaxSessions - 1 + Cardinality(Request)
      <4>5. /\ n \in Int /\ IsFiniteSet(RowsOf(u)) /\ IsFiniteSet(Creating(u))
            /\ Cardinality(RowsOf(u)) + Cardinality(Creating(u)) <= n
        BY SlotsFinite DEF Slots
      <4>6. Slots(u)' <=> Cardinality(RowsOf(u)') + Cardinality(Creating(u)') <= n
        BY DEF Slots
      <4> HIDE DEF n
      <4> QED
        BY <4>2, <4>3, <4>4, <4>5, <4>6, Exchange
    <3> QED
      BY <3>3, <3>4
  <2> QED
    BY <2>1, <2>2
<1>6. ASSUME NEW w \in Request, Become(w, Idle), task[w].at = "create",
             sessions' = sessions \/ sessions' = sessions \cup {NewRow(task[w])}
      PROVE  Slots(u)'
  <2>1. Become(w, Idle) /\ Idle.at # "create"
    BY <1>6 DEF Idle
  <2>2. CASE sessions' = sessions
    BY <1>1, <2>1, <2>2
  <2>3. CASE sessions' = sessions \cup {NewRow(task[w])}
    <3>1. NewRow(task[w]).user = task[w].user
      BY DEF NewRow
    <3>2. Creating(u)' \in SUBSET (Creating(u) \ {w})
      BY <2>1, CreatingStep
    <3>3. CASE u # task[w].user
      <4>1. RowsOf(u)' \in SUBSET RowsOf(u)
        BY <2>3, <3>1, <3>3 DEF RowsOf
      <4> QED
        BY <3>2, <4>1, SlotsFinite, FewerOfBoth DEF Slots
    <3>4. CASE u = task[w].user
      <4>1. w \in Creating(u)
        BY <1>6, <3>4 DEF Creating
      <4>2. RowsOf(u)' \in SUBSET (RowsOf(u) \cup {NewRow(task[w])})
        BY <2>3 DEF RowsOf
      <4> DEFINE n == MaxSessions - 1 + Cardinality(Request)
      <4>3. /\ n \in Int /\ IsFiniteSet(RowsOf(u)) /\ IsFiniteSet(Creating(u))
            /\ Cardinality(Creating(u)) + Cardinality(RowsOf(u)) <= n
        BY SlotsFinite DEF Slots
      <4>4. Cardinality(Creating(u)') + Cardinality(RowsOf(u)') <= n
        <5> HIDE DEF n
        <5> QED
          BY <3>2, <4>1, <4>2, <4>3, Exchange
      <4>5. Cardinality(Creating(u)') \in Nat /\ Cardinality(RowsOf(u)') \in Nat
        <5>1. Creating(u)' \in SUBSET Creating(u)
          BY <3>2
        <5>2. IsFiniteSet(RowsOf(u) \cup {NewRow(task[w])})
          BY SlotsFinite, FS_AddElement
        <5> QED
          BY <4>2, <5>1, <5>2, SlotsFinite, FS_Subset, FS_CardinalityType
      <4>6. Slots(u)' <=> Cardinality(RowsOf(u)') + Cardinality(Creating(u)') <= n
        BY DEF Slots
      <4> QED
        BY <4>3, <4>4, <4>5, <4>6
    <3> QED
      BY <3>3, <3>4
  <2> QED
    BY <1>6, <2>2, <2>3
<1>7. ASSUME NEW w \in Request, NEW r, FindSession(w, r) PROVE Slots(u)'
  BY <1>1, <1>7 DEF FindSession
<1>8. ASSUME NEW w \in Worker,
             Expire(w) \/ Terminate(w) \/ SweepDelete(w)
      PROVE  Slots(u)'
  <2>1. Become(w, Idle) /\ sessions' \in SUBSET sessions
    BY <1>8 DEF Expire, Terminate, SweepDelete, Remove
  <2> QED
    BY <1>1, <2>1 DEF Idle
<1>12. ASSUME NEW w \in Request, Create(w) PROVE Slots(u)'
  BY <1>6, <1>12 DEF Create
<1>13. ASSUME NEW w \in Worker, Fail(w), w \in Request \/ task[w].at # "create"
       PROVE  Slots(u)'
  <2>1. Become(w, Idle) /\ Idle.at # "create"
    BY <1>13 DEF Fail, Idle
  <2>2. CreateUnanswered(w) \/ sessions' \in SUBSET sessions
    BY <1>13 DEF Fail, EndUnanswered, Remove
  <2>3. CASE CreateUnanswered(w)
    BY <1>6, <1>13, <2>1, <2>3 DEF CreateUnanswered
  <2> QED
    BY <1>1, <2>1, <2>2, <2>3
<1>9. CASE UNCHANGED task /\ sessions' \in SUBSET sessions
  <2>1. Creating(u)' = Creating(u)
    BY <1>9 DEF Creating
  <2> QED
    BY <1>9, <2>1, SlotsFree
<1>10. ASSUME NEW c \in Cron, SweepFind(c) PROVE Slots(u)'
  <2>1. sessions' = sessions
    BY <1>10 DEF SweepFind
  <2>2. UNCHANGED task
        \/ Become(c, [at |-> "sweep", cutoff |-> now,
                      found |-> {r \in sessions : Expired(r, now)}])
    BY <1>10 DEF SweepFind
  <2> QED
    BY <1>1, <1>9, <2>1, <2>2
<1>11. ASSUME \/ \E w \in Request, x \in User, k \in 0..now :
                   TerminateAll(w, x, <<x, k>>) \/ TerminateAllUnanswered(w, x, <<x, k>>)
              \/ \E x \in User : EmitUpdate(x)
              \/ Tick \/ UNCHANGED vars
       PROVE  UNCHANGED task /\ sessions' \in SUBSET sessions
  BY <1>11 DEF TerminateAll, TerminateAllUnanswered, EmitUpdate, Tick, vars, Remove
<1> QED
  BY <1>2, <1>3, <1>4, <1>5, <1>7, <1>8, <1>9, <1>10, <1>11, <1>12, <1>13
     DEF Next, Call, Step, JobsSweep

\* Rows and creations under way together stay within the limit minus one plus
\* the number of requests that can run at once.
THEOREM SlotsTheorem == Spec => []SlotsBounded
<1>1. Init => SlotsBounded
  <2> SUFFICES ASSUME Init, NEW u \in User PROVE Slots(u)
    BY DEF SlotsBounded, Slots
  <2>1. RowsOf(u) = {} /\ Creating(u) = {}
    BY DEF Init, RowsOf, Creating, Idle, Worker
  <2>2. Cardinality(Request) \in Nat
    BY FiniteWorkers, FS_CardinalityType
  <2> QED
    BY <2>1, <2>2, FS_EmptySet, LimitAssumption DEF Slots
<1>2. TypeOK /\ TypeOK' /\ LocalsFresh /\ JobsSweep /\ SlotsBounded /\ [Next]_vars
        => SlotsBounded'
  <2>1. SlotsBounded <=> \A u \in User : Slots(u)
    BY DEF SlotsBounded, Slots
  <2>2. SlotsBounded' <=> \A u \in User : Slots(u)'
    BY DEF SlotsBounded, Slots
  <2> QED
    BY <2>1, <2>2, SlotsStep
<1> QED
  BY <1>1, <1>2, TypeInvariant, WhatWorkersKnow, JobsOnlySweep, PTL DEF Spec

\* Racing logins exceed the session limit by less than their number.
THEOREM OvershootTheorem == Spec => []OvershootBounded
<1>1. TypeOK /\ SlotsBounded => OvershootBounded
  BY SlotsFinite DEF SlotsBounded, OvershootBounded
<1> QED
  BY <1>1, TypeInvariant, SlotsTheorem, PTL

\* One request at a time keeps the limit.
THEOREM SerialLoginsKeepLimit ==
  ASSUME Cardinality(Request) = 1
  PROVE  Spec => []WithinLimit
<1>1. TypeOK /\ OvershootBounded => WithinLimit
  BY LimitAssumption, SlotsFinite DEF OvershootBounded, WithinLimit
<1> QED
  BY <1>1, TypeInvariant, OvershootTheorem, PTL
=============================================================================
