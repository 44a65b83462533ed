------------------------- MODULE TodosAnswersProofs --------------------------
(***************************************************************************)
(* Todos: that its answers, pages and events are true, for any number of   *)
(* clients, users and todos and any page size.                             *)
(***************************************************************************)
EXTENDS TodosProofs

\* What every step of c leaves to the others: their requests, and the ids and
\* users of the rows, apart from a new one.
Evolves(c) ==
  /\ \A d \in Client \ {c} : req'[d] = req[d]
  /\ nextId \in Nat /\ nextId' \in Nat /\ nextId <= nextId' /\ dbType' = dbType
  /\ \A r \in todos' : r.id = nextId \/ \E s \in todos : s.id = r.id /\ s.user = r.user

LEMMA QuietEvolves ==
  ASSUME Types, NEW c \in Client, NEW r, Quiet(c, r) PROVE Evolves(c) /\ req'[c] = r
  BY DEF Types, TableOK, RequestsOK, Quiet, Become, Evolves

LEMMA WriteEvolves ==
  ASSUME Types, NEW c \in Client, Create(c) \/ Update(c) \/ Fetch(c) \/ Delete(c)
  PROVE  Evolves(c)
<1>1. nextId \in Nat /\ todos \in SUBSET Row
  BY DEF Types, TableOK
<1>2. \A d \in Client \ {c} : req'[d] = req[d]
  BY DEF Create, Update, Fetch, Delete, Become, Types, RequestsOK
<1>3. CASE Create(c)
  <2>1. /\ nextId' = nextId + 1 /\ todos' = todos \cup {NewRow(c)} /\ dbType' = dbType
        /\ NewRow(c).id = nextId
    BY <1>3 DEF Create, NewRow
  <2>2. \A r \in todos' : r.id = nextId \/ \E s \in todos : s.id = r.id /\ s.user = r.user
    BY <2>1
  <2> QED  BY <1>1, <1>2, <2>1, <2>2 DEF Evolves
<1>4. CASE Fetch(c) \/ Delete(c)
  <2>1. todos' \subseteq todos /\ UNCHANGED <<dbType, nextId>>
    BY <1>4 DEF Fetch, Delete
  <2> QED  BY <1>1, <1>2, <2>1 DEF Evolves
<1>5. CASE Update(c)
  <2>1. ASSUME NEW t \in Target(c), todos' = (todos \ {t}) \cup {Patched(t, req[c].patch)}
        PROVE  \A r \in todos' : \E s \in todos : s.id = r.id /\ s.user = r.user
    <3>1. t \in todos
      BY SeenTodos
    <3>2. Patched(t, req[c].patch).id = t.id /\ Patched(t, req[c].patch).user = t.user
      BY DEF Patched
    <3> QED  BY <2>1, <3>1, <3>2
  <2> QED  BY <1>1, <1>2, <1>5, <2>1 DEF Update, Evolves
<1> QED  BY <1>3, <1>4, <1>5

\* The steps that end a request, or may: what becomes of it.
LEMMA LoadAs ==
  ASSUME Types, NEW c \in Client, Load(c)
  PROVE  /\ req[c].at = "load"
         /\ \E e, r : /\ Given(c, e) /\ Quiet(c, r)
                      /\ IF e.row = None THEN EndedAs(r, req[c].cache \cup {e}, req[c].doubt)
                                         ELSE r = Toggling(c, e)
<1>1. req[c].at = "load" /\ req[c].doubt \in BOOLEAN
  BY DEF Load, Types, RequestsOK, RequestType
<1>2. PICK e, r :
        /\ Given(c, e) /\ Quiet(c, r) /\ CacheIs(req[c].cache \cup {e}, nextId)
        /\ IF e.row = None THEN Ended(c, r, req[c].cache \cup {e}, req[c].doubt)
                           ELSE r = Toggling(c, e)
  BY LoadDoes
<1>3. e.row = None => EndedAs(r, req[c].cache \cup {e}, req[c].doubt)
  BY <1>1, <1>2, EndedIs
<1> QED  BY <1>1, <1>2, <1>3

LEMMA ReturnAs ==
  ASSUME Types, NEW c \in Client, Return(c)
  PROVE  /\ req[c].at = "return"
         /\ \E r : Quiet(c, r) /\ EndedAs(r, ReturnsTo(c), req[c].doubt)
<1>1. req[c].doubt \in BOOLEAN
  BY DEF Types, RequestsOK, RequestType
<1>2. PICK r : Quiet(c, r) /\ Ended(c, r, ReturnsTo(c), req[c].doubt)
  BY ReturnDoes
<1>3. EndedAs(r, ReturnsTo(c), req[c].doubt)
  BY <1>1, <1>2, ReturnDoes, EndedIs
<1> QED  BY <1>2, <1>3, ReturnDoes

LEMMA FailAs ==
  ASSUME Types, NEW c \in Client, Fail(c)
  PROVE  \E r : /\ Quiet(c, r)
                /\ IF Swallowed(c) THEN r = Doubted(c) ELSE EndedAs(r, req[c].cache, TRUE)
<1>1. PICK r : /\ Quiet(c, r)
               /\ \/ Swallowed(c) /\ r = Doubted(c)
                  \/ ~Swallowed(c) /\ Ended(c, r, req[c].cache, TRUE)
  BY FailDoes
<1>2. CacheIs(req[c].cache, nextId)
  BY DEF Types, RequestsOK, RequestIs
<1>3. ~Swallowed(c) => EndedAs(r, req[c].cache, TRUE)
  BY <1>1, <1>2, EndedIs
<1> QED  BY <1>1, <1>3

\* The steps of c that are no write and no second query of one.
Settles(c) ==
  \/ \E r : Quiet(c, r) /\ r.at \in {"idle", "load", "write"}
  \/ \E r : Quiet(c, r) /\ r.kind \notin Write
  \/ Fail(c) /\ Swallowed(c) /\ Quiet(c, Doubted(c))

LEMMA ReturnSettles == ASSUME Types, NEW c \in Client, Return(c) PROVE Settles(c)
  BY ReturnAs DEF EndedAs, Settles

LEMMA FailSettles == ASSUME Types, NEW c \in Client, Fail(c) PROVE Settles(c)
  BY FailAs DEF EndedAs, Settles

LEMMA StepKinds ==
  ASSUME Types, NEW c \in Client, Call(c) \/ Step(c) \/ Fail(c)
  PROVE  Create(c) \/ Update(c) \/ Fetch(c) \/ Delete(c) \/ Settles(c)
<1>1. req[c] \in RequestType /\ RequestIs(req[c], nextId, dbType) /\ req[c].doubt \in BOOLEAN
  BY DEF Types, RequestsOK, RequestType
<1>2. CASE Call(c)
  BY <1>2, CallDoes DEF StartedAs, Settles
<1>3. CASE ReadRows(c) \/ ReadCount(c) \/ FindById(c) \/ FindAll(c)
  <2>1. PICK r : Looks(c, r)
    BY <1>3, ReadRowsDoes, ReadCountDoes, FindByIdDoes, FindAllDoes
  <2> QED  BY <2>1 DEF Looks, Settles, Write
<1>4. CASE TodoQuery(c)
  <2>1. PICK e, r : Loads(c, e, r)
    BY <1>4, TodoQueryDoes
  <2>2. r.kind = "load"
    BY <2>1 DEF Loads, Answered, Idle
  <2> QED  BY <2>1, <2>2 DEF Loads, Settles, Write
<1>5. CASE Load(c)
  <2>1. PICK e, r : /\ Quiet(c, r)
                    /\ IF e.row = None THEN EndedAs(r, req[c].cache \cup {e}, req[c].doubt)
                                       ELSE r = Toggling(c, e)
    BY <1>5, LoadAs
  <2>2. r.at \in {"idle", "load", "write"}
    BY <1>1, <2>1 DEF EndedAs, Toggling, RequestType
  <2> QED  BY <2>1, <2>2 DEF Settles
<1>6. CASE Return(c)
  BY <1>6, ReturnSettles
<1>7. CASE Fail(c)
  BY <1>7, FailSettles
<1> QED  BY <1>2, <1>3, <1>4, <1>5, <1>6, <1>7 DEF Step

LEMMA StepEvolves ==
  ASSUME Types, NEW c \in Client, Call(c) \/ Step(c) \/ Fail(c) PROVE Evolves(c)
  BY StepKinds, WriteEvolves, QuietEvolves DEF Settles

\* A result of a write comes from the database, or from a rejected query.
LEMMA AnswerComes ==
  ASSUME Types, NEW c \in Client, Call(c) \/ Step(c) \/ Fail(c),
         req'[c].at = "return", req'[c].kind \in Write, ~req'[c].doubt
  PROVE  Create(c) \/ Update(c) \/ Fetch(c) \/ Delete(c)
<1>1. ASSUME Quiet(c, Doubted(c)) PROVE FALSE
  <2>1. req'[c] = Doubted(c)
    BY <1>1, QuietEvolves
  <2>2. Doubted(c).doubt = TRUE
    BY DEF Doubted, Types, RequestsOK, RequestType
  <2> QED  BY <2>1, <2>2
<1> QED  BY <1>1, StepKinds, QuietEvolves DEF Settles

-----------------------------------------------------------------------------
(***************************************************************************)
(* What is told of deletions and of todos that are not there.              *)
(***************************************************************************)
LEMMA DeleteHits ==
  ASSUME Types, NEW c \in Client, Delete(c)
  PROVE  /\ req'[c].kind = "delete" /\ req'[c].id = req[c].id /\ req'[c].doubt = req[c].doubt
         /\ req'[c].ok <=> Target(c) # {}
         /\ todos' = todos \ Target(c) /\ req[c].at = "write" /\ req[c].kind = "delete"
<1> DEFINE ok == Target(c) # {}
           r == [req[c] EXCEPT !.at = "return", !.ok = ok]
<1>1. /\ req[c] \in RequestType /\ req[c].at = "write" /\ req[c].kind = "delete"
      /\ todos' = todos \ Target(c) /\ Become(c, r)
  BY DEF Delete, Types, RequestsOK
<1>2. ok \in BOOLEAN
  OBVIOUS
<1> HIDE DEF ok
<1>3. r.kind = "delete" /\ r.id = req[c].id /\ r.ok = ok /\ r.doubt = req[c].doubt
  BY <1>1, <1>2 DEF RequestType
<1> HIDE DEF r
<1>4. req'[c] = r
  BY <1>1 DEF Become, Types, RequestsOK
<1> QED  BY <1>1, <1>3, <1>4 DEF ok

LEMMA WriteKeepsCache ==
  ASSUME Types, NEW c \in Client, Create(c) \/ Update(c) \/ Fetch(c) \/ Delete(c)
  PROVE  /\ req'[c].cache = req[c].cache /\ req'[c].doubt = req[c].doubt
         /\ req'[c].kind = req[c].kind /\ req'[c].api = req[c].api
         /\ req[c].at \in {"write", "fetch"}
<1>1. req \in [Client -> RequestType]
  BY DEF Types, RequestsOK
<1>2. CASE Create(c)
  BY <1>1, <1>2 DEF Create, Become, RequestType
<1> DEFINE Same(r) == /\ r.cache = req[c].cache /\ r.doubt = req[c].doubt
                     /\ r.kind = req[c].kind /\ r.api = req[c].api
<1>3. CASE Update(c)
  <2>1. PICK r : Become(c, r) /\ (r = [req[c] EXCEPT !.at = "return"] \/ \E t : r = Updated(c, t))
    BY <1>3 DEF Update
  <2>2. Same(r)
    BY <1>1, <2>1 DEF Updated, RequestType
  <2> QED  BY <1>1, <1>3, <2>1, <2>2 DEF Become, Update
<1>4. CASE Fetch(c)
  <2>1. PICK r : /\ Become(c, r)
                 /\ \/ r = [req[c] EXCEPT !.at = "return"]
                    \/ \E t : r = [req[c] EXCEPT !.at = "return", !.ok = TRUE, !.row = t]
    BY <1>4 DEF Fetch
  <2>2. Same(r)
    BY <1>1, <2>1 DEF RequestType
  <2> QED  BY <1>1, <1>4, <2>1, <2>2 DEF Become, Fetch
<1>5. CASE Delete(c)
  <2> DEFINE ok == Target(c) # {}
  <2>1. Become(c, [req[c] EXCEPT !.at = "return", !.ok = ok]) /\ req[c].at = "write"
    BY <1>5 DEF Delete
  <2> HIDE DEF ok
  <2> QED  BY <1>1, <2>1 DEF Become, RequestType
<1> QED  BY <1>2, <1>3, <1>4, <1>5

LEMMA UpdateHits ==
  ASSUME Types, NEW c \in Client, Update(c)
  PROVE  /\ req[c].kind \in {"update", "toggle"}
         /\ \/ /\ Target(c) = {} /\ UNCHANGED todos
               /\ req'[c].id = req[c].id /\ req'[c].ok = req[c].ok
            \/ req'[c].at = "fetch" \/ req'[c].ok = TRUE
<1>1. /\ req[c] \in RequestType /\ req[c].kind \in {"update", "toggle"}
      /\ \A r : Become(c, r) => req'[c] = r
  BY DEF Update, Become, Types, RequestsOK
<1>2. CASE Target(c) = {}
  <2> DEFINE r == [req[c] EXCEPT !.at = "return"]
  <2>1. r.id = req[c].id /\ r.ok = req[c].ok
    BY <1>1 DEF RequestType
  <2>2. Become(c, r) /\ UNCHANGED todos
    BY <1>2 DEF Update
  <2> HIDE DEF r
  <2> QED  BY <1>1, <1>2, <2>1, <2>2
<1>3. CASE Target(c) # {}
  <2>1. PICK t : Become(c, Updated(c, t))
    BY <1>3 DEF Update
  <2>2. Updated(c, t).at = "fetch" \/ Updated(c, t).ok = TRUE
    BY <1>1 DEF Updated, RequestType
  <2> QED  BY <1>1, <2>1, <2>2
<1> QED  BY <1>1, <1>2, <1>3

LEMMA FetchHits ==
  ASSUME Types, NEW c \in Client, Fetch(c)
  PROVE  /\ req[c].kind \in {"update", "toggle"} /\ UNCHANGED todos /\ req'[c].id = req[c].id
         /\ req'[c].ok = TRUE \/ With(todos, req[c].id) = {}
<1>1. /\ req[c] \in RequestType /\ UNCHANGED todos
      /\ \A r : Become(c, r) => req'[c] = r
  BY DEF Fetch, Become, Types, RequestsOK
<1>2. req[c].kind \in {"update", "toggle"}
  BY DEF Fetch, Types, RequestsOK, RequestIs
<1>3. CASE With(todos, req[c].id) = {}
  <2> DEFINE r == [req[c] EXCEPT !.at = "return"]
  <2>1. r.id = req[c].id
    BY <1>1 DEF RequestType
  <2>2. Become(c, r)
    BY <1>3 DEF Fetch
  <2> HIDE DEF r
  <2> QED  BY <1>1, <1>2, <1>3, <2>1, <2>2
<1>4. CASE With(todos, req[c].id) # {}
  <2>1. PICK t : Become(c, [req[c] EXCEPT !.at = "return", !.ok = TRUE, !.row = t])
    BY <1>4 DEF Fetch
  <2> DEFINE r == [req[c] EXCEPT !.at = "return", !.ok = TRUE, !.row = t]
  <2>2. r.id = req[c].id /\ r.ok = TRUE
    BY <1>1 DEF RequestType
  <2> HIDE DEF r
  <2>3. Become(c, r)
    BY <2>1 DEF r
  <2> QED  BY <1>1, <1>2, <2>2, <2>3
<1> QED  BY <1>3, <1>4

LEMMA TargetIs ==
  ASSUME Types, NEW c \in Client, NEW r \in Target(c)
  PROVE  r \in todos /\ r.id = req[c].id /\ Target(c) = {r} /\ With(todos, req[c].id) = {r}
  BY DEF Target, With, Seen, RowsOf, Types, TableOK

LEMMA DeletedInit == Init => DeletedOnce
  BY DEF Init, DeletedOnce, Idle

LEMMA DeletedStep == Types /\ DeletedOnce /\ [Next]_vars => DeletedOnce'
<1> SUFFICES ASSUME Types, DeletedOnce, [Next]_vars PROVE DeletedOnce'
  OBVIOUS
<1> DEFINE Done(r) == r.at = "return" /\ r.kind = "delete" /\ r.ok
<1>0. DeletedOnce <=> \A a, b \in Client : Done(req[a]) =>
                        /\ req[a].id \notin Ids(todos)
                        /\ b # a /\ Done(req[b]) => req[b].id # req[a].id
  BY DEF DeletedOnce
<1>1. CASE UNCHANGED vars
  BY <1>1 DEF vars, DeletedOnce
<1>2. ASSUME NEW c \in Client, Call(c) \/ Step(c) \/ Fail(c) PROVE DeletedOnce'
  <2>1. Evolves(c)
    BY <1>2, StepEvolves
  <2>2. ASSUME NEW a \in Client, a # c, Done(req[a]) PROVE req[a].id \notin Ids(todos')
    <3>1. req[a].id < nextId /\ req[a].id \notin Ids(todos)
      BY <2>2 DEF Types, RequestsOK, RequestIs, DeletedOnce
    <3>2. ASSUME NEW r \in todos', r.id = req[a].id PROVE FALSE
      <4>1. r.id # nextId
        BY <2>1, <3>1, <3>2 DEF Evolves
      <4>2. PICK s \in todos : s.id = r.id
        BY <2>1, <4>1 DEF Evolves
      <4> QED  BY <3>1, <3>2, <4>2 DEF Ids
    <3> QED  BY <3>2 DEF Ids
  <2>3. ASSUME Done(req'[c])
        PROVE  req'[c].id \in Ids(todos) /\ req'[c].id \notin Ids(todos')
    <3>1. Delete(c)
      <4>1. Create(c) \/ Update(c) \/ Fetch(c) \/ Delete(c) \/ Settles(c)
        BY <1>2, StepKinds
      <4>2. ~Create(c) /\ ~Update(c) /\ ~Fetch(c)
        <5>1. ~Create(c)
          BY <2>3, WriteKeepsCache DEF Create
        <5>2. ~Update(c)
          BY <2>3, WriteKeepsCache, UpdateHits
        <5>3. ~Fetch(c)
          BY <2>3, WriteKeepsCache, FetchHits
        <5> QED  BY <5>1, <5>2, <5>3
      <4>3. ~Settles(c)
        <5>1. ~Quiet(c, Doubted(c))
          <6>1. Doubted(c).ok = FALSE
            BY DEF Doubted, Types, RequestsOK, RequestType
          <6> QED  BY <2>3, <6>1, QuietEvolves
        <5> QED  BY <2>3, <5>1, QuietEvolves DEF Settles, Write
      <4> QED  BY <4>1, <4>2, <4>3
    <3>2. req'[c].id = req[c].id /\ Target(c) # {} /\ todos' = todos \ Target(c)
      BY <2>3, <3>1, DeleteHits
    <3>3. PICK r : r \in Target(c)
      BY <3>2
    <3> QED  BY <3>2, <3>3, TargetIs DEF Ids, With
  <2>4. ASSUME NEW a \in Client, Done(req'[a]) PROVE req'[a].id \notin Ids(todos')
    BY <2>1, <2>2, <2>3, <2>4 DEF Evolves
  <2>5. ASSUME NEW a \in Client, NEW b \in Client, b # a, Done(req'[a]), Done(req'[b])
        PROVE  req'[b].id # req'[a].id
    <3>1. CASE a # c /\ b # c
      BY <1>0, <2>1, <2>5, <3>1 DEF Evolves
    <3>2. CASE a = c
      BY <1>0, <2>1, <2>3, <2>5, <3>2 DEF Evolves
    <3>3. CASE b = c
      BY <1>0, <2>1, <2>3, <2>5, <3>3 DEF Evolves
    <3> QED  BY <3>1, <3>2, <3>3
  <2> QED  BY <2>4, <2>5 DEF DeletedOnce
<1> QED  BY <1>1, <1>2 DEF Next

\* However many clients delete the same todo, on whatever instances, one of
\* them at most is told that it was there, and it does not come back.
THEOREM OneDeletion == Spec => []DeletedOnce
  BY DeletedInit, DeletedStep, AlwaysTypes, PTL DEF Spec

LEMMA KeptOnly ==
  ASSUME Types, Remember, NEW d \in Client, NEW id \in kept'[d], About(req[d], id)
  PROVE  id \in kept[d] /\ id \in Ids(todos')
  BY DEF Remember

LEMMA NotFoundInit == Init => NotFoundTrue
  BY DEF Init, NotFoundTrue, Idle

\* d has been told that its todo is not there.
Missed(r) ==
  /\ r.at = "return" /\ ~r.ok /\ ~r.doubt
  /\ r.kind \in {"update", "toggle", "delete"}

LEMMA NotFoundStep == Types /\ NotFoundTrue /\ [Next]_vars => NotFoundTrue'
<1> SUFFICES ASSUME Types, NotFoundTrue, [Next]_vars PROVE NotFoundTrue'
  OBVIOUS
<1>0. \A d \in Client : Missed(req[d]) /\ req[d].id \in kept[d] =>
        \A r \in todos : r.id = req[d].id => r.user # Owner[d]
  BY DEF NotFoundTrue, Missed, With
<1>1. CASE UNCHANGED vars
  BY <1>1 DEF vars, NotFoundTrue, With
<1>2. ASSUME NEW c \in Client, Call(c) \/ Step(c) \/ Fail(c), Remember PROVE NotFoundTrue'
  <2>1. Evolves(c)
    BY <1>2, StepEvolves
  <2>2. ASSUME NEW d \in Client, d # c, Missed(req[d]), req[d].id \in kept'[d],
               NEW r \in todos', r.id = req[d].id
        PROVE  r.user # Owner[d]
    <3>1. req[d].id < nextId
      BY <2>2 DEF Types, RequestsOK, RequestIs, Missed
    <3>2. About(req[d], req[d].id)
      BY <2>2 DEF About, Missed, Write
    <3>3. req[d].id \in kept[d]
      BY <1>2, <2>2, <3>2, KeptOnly
    <3>4. PICK s \in todos : s.id = r.id /\ s.user = r.user
      BY <2>1, <2>2, <3>1 DEF Evolves
    <3> QED  BY <1>0, <2>2, <3>3, <3>4
  <2>3. ASSUME Missed(req'[c]), NEW r \in todos', r.id = req'[c].id
        PROVE  r.user # Owner[c]
    <3>1. Create(c) \/ Update(c) \/ Fetch(c) \/ Delete(c)
      BY <1>2, <2>3, AnswerComes DEF Missed, Write
    <3>2. CASE Create(c)
      BY <2>3, <3>2, WriteKeepsCache DEF Create, Missed
    <3>3. CASE Update(c)
      <4>1. Target(c) = {} /\ UNCHANGED todos /\ req'[c].id = req[c].id
        BY <2>3, <3>3, UpdateHits DEF Missed
      <4> QED  BY <2>3, <4>1 DEF Target, Seen, With, RowsOf
    <3>4. CASE Fetch(c)
      <4>1. With(todos, req[c].id) = {} /\ UNCHANGED todos /\ req'[c].id = req[c].id
        BY <2>3, <3>4, FetchHits DEF Missed
      <4> QED  BY <2>3, <4>1 DEF With
    <3>5. CASE Delete(c)
      <4>1. req'[c].id = req[c].id /\ Target(c) = {} /\ todos' = todos /\ req[c].kind = "delete"
        BY <2>3, <3>5, DeleteHits DEF Missed
      <4> QED  BY <2>3, <4>1 DEF Target, Seen, With, RowsOf
    <3> QED  BY <3>1, <3>2, <3>3, <3>4, <3>5
  <2>4. ASSUME NEW d \in Client, Missed(req'[d]), req'[d].id \in kept'[d],
               NEW r \in todos', r.id = req'[d].id
        PROVE  r.user # Owner[d]
    BY <2>1, <2>2, <2>3, <2>4 DEF Evolves
  <2> QED  BY <2>4 DEF NotFoundTrue, Missed, With
<1> QED  BY <1>1, <1>2 DEF Next

\* Whoever else changes or deletes the todo meanwhile, a client that is told
\* there is none of that id had none of its own at some moment of its request.
THEOREM NotFoundIsTrue == Spec => []NotFoundTrue
  BY NotFoundInit, NotFoundStep, AlwaysTypes, PTL DEF Spec

-----------------------------------------------------------------------------
(***************************************************************************)
(* What the loader keeps, and what requests hand out.                      *)
(***************************************************************************)

\* Where an entry of the loader comes from: it was there, and is not out of
\* date by the answer of this step; or it has just been looked up; or it is the
\* answer that is handed out.
Comes(c, e) ==
  \/ /\ e \in req[c].cache
     /\ ~req'[c].doubt => ~req[c].doubt /\ (req[c].at = "return" /\ Told(c) => e.id # req[c].id)
  \/ /\ UNCHANGED <<todos, nextId>> /\ e \in Found(Batch, e.id) /\ e.id \in Nat
     /\ e.row # None => e.row \in todos
  \/ /\ UNCHANGED <<todos, nextId>> /\ req[c].at = "return" /\ Told(c)
     /\ e.row # None /\ e.row = req[c].row
     /\ ~req'[c].doubt => ~req[c].doubt

LEMMA CacheComes ==
  ASSUME Types, NEW c \in Client, Call(c) \/ Step(c) \/ Fail(c), NEW e \in req'[c].cache
  PROVE  Comes(c, e)
<1>1. req[c] \in RequestType /\ RequestIs(req[c], nextId, dbType) /\ req[c].doubt \in BOOLEAN
  BY DEF Types, RequestsOK, RequestType
<1>2. CASE Call(c)
  BY <1>2, CallDoes, QuietEvolves DEF StartedAs
<1>3. CASE ReadRows(c) \/ ReadCount(c) \/ FindById(c) \/ FindAll(c)
  <2>1. PICK r : Looks(c, r)
    BY <1>3, ReadRowsDoes, ReadCountDoes, FindByIdDoes, FindAllDoes
  <2> QED  BY <2>1, QuietEvolves DEF Looks
<1>4. CASE TodoQuery(c)
  <2>1. PICK f, r : Loads(c, f, r)
    BY <1>4, TodoQueryDoes
  <2>2. r.cache = {f} /\ req'[c] = r
    BY <2>1, QuietEvolves DEF Loads, Answered, Idle
  <2> QED  BY <2>1, <2>2 DEF Loads, Comes, Quiet, Entry
<1>5. CASE Load(c)
  <2>1. PICK f, r : /\ Given(c, f) /\ Quiet(c, r)
                    /\ IF f.row = None THEN EndedAs(r, req[c].cache \cup {f}, req[c].doubt)
                                       ELSE r = Toggling(c, f)
    BY <1>5, LoadAs
  <2>2. req'[c] = r /\ req[c].at = "load"
    BY <1>5, <2>1, QuietEvolves, LoadAs
  <2>3. r.cache = req[c].cache \cup {f} /\ r.doubt = req[c].doubt
    <3>1. CASE f.row = None
      BY <2>1, <2>2, <3>1 DEF EndedAs, Idle
    <3>2. CASE f.row # None
      BY <1>1, <2>1, <3>2 DEF Toggling, RequestType
    <3> QED  BY <3>1, <3>2
  <2> QED  BY <2>1, <2>2, <2>3 DEF Given, Comes, Quiet, Entry
<1>6. CASE Create(c) \/ Update(c) \/ Fetch(c) \/ Delete(c)
  BY <1>6, WriteKeepsCache DEF Comes
<1>7. CASE Return(c)
  <2>1. PICK r : Quiet(c, r) /\ EndedAs(r, ReturnsTo(c), req[c].doubt)
    BY <1>7, ReturnAs
  <2>2. req'[c] = r /\ UNCHANGED <<todos, nextId>> /\ req[c].at = "return"
    BY <1>7, <2>1, QuietEvolves, ReturnAs DEF Quiet
  <2>3. e \in ReturnsTo(c) /\ r.doubt = req[c].doubt
    BY <2>1, <2>2 DEF EndedAs, Idle
  <2>4. CASE ~Told(c)
    BY <2>2, <2>3, <2>4 DEF ReturnsTo, Comes
  <2>5. CASE Told(c)
    <3>1. CASE e \in req[c].cache \ Cached(c)
      BY <2>2, <2>3, <3>1 DEF Cached, With, Comes
    <3>2. CASE req[c].row # None /\ e = [id |-> req[c].id, row |-> req[c].row]
      BY <2>2, <2>3, <2>5, <3>2 DEF Comes
    <3> QED  BY <2>3, <2>5, <3>1, <3>2 DEF ReturnsTo, Primed
  <2> QED  BY <2>4, <2>5
<1>8. CASE Fail(c)
  <2>1. PICK r : /\ Quiet(c, r)
                 /\ IF Swallowed(c) THEN r = Doubted(c) ELSE EndedAs(r, req[c].cache, TRUE)
    BY <1>8, FailAs
  <2>2. req'[c] = r
    BY <2>1, QuietEvolves
  <2>3. CASE Swallowed(c)
    <3>1. Doubted(c).cache = req[c].cache /\ Doubted(c).doubt = TRUE
      BY <1>1 DEF Doubted, RequestType
    <3>2. req'[c] = Doubted(c)
      BY <2>1, <2>2, <2>3
    <3> QED  BY <3>1, <3>2 DEF Comes
  <2>4. CASE ~Swallowed(c)
    BY <2>1, <2>2, <2>4 DEF EndedAs, Idle, Comes
  <2> QED  BY <2>3, <2>4
<1> QED  BY <1>2, <1>3, <1>4, <1>5, <1>6, <1>7, <1>8 DEF Step

\* What a request hands out is remembered as long as it is about it.
LEMMA FreshKeeps ==
  ASSUME Types, Remember, NEW d \in Client, NEW r, About(req'[d], r.id),
         \/ r \in todos'
         \/ r \in fresh[d] /\ (req'[d] # req[d] => r.id \notin Ids(todos \ todos'))
  PROVE  r \in fresh'[d]
  BY DEF Remember

\* The rows a step takes away or replaces are of one id, which is the todo of
\* that request.
LEMMA Removes ==
  ASSUME Types, NEW c \in Client, Create(c) \/ Update(c) \/ Fetch(c) \/ Delete(c),
         NEW id \in Ids(todos \ todos'), id \in Ids(todos'), req[c].api = "graphql"
  PROVE  Untold(c, id)'
<1>1. PICK r \in todos \ todos' : r.id = id
  BY DEF Ids
<1>2. /\ req \in [Client -> RequestType] /\ TableOK
  BY DEF Types, RequestsOK
<1>3. ~Create(c) /\ ~Fetch(c)
  BY <1>1 DEF Create, Fetch
<1>4. CASE Update(c)
  <2>1. PICK t \in Target(c) : /\ todos' = (todos \ {t}) \cup {Patched(t, req[c].patch)}
                               /\ Become(c, Updated(c, Patched(t, req[c].patch)))
    BY <1>1, <1>4 DEF Update
  <2>2. id = req[c].id
    BY <1>1, <2>1, TargetIs
  <2>3. req[c].kind \in Write
    BY <1>4 DEF Update, Write
  <2> DEFINE q == Updated(c, Patched(t, req[c].patch))
  <2>4. /\ q.id = req[c].id /\ q.kind = req[c].kind /\ q.api = req[c].api
        /\ q.at = "fetch" \/ (q.at = "return" /\ q.ok)
    BY <1>2 DEF Updated, RequestType
  <2> HIDE DEF q
  <2>5. req'[c] = q
    BY <1>2, <2>1 DEF Become, q
  <2> QED  BY <2>2, <2>3, <2>4, <2>5 DEF Untold
<1>5. CASE Delete(c)
  <2>1. todos' = todos \ Target(c)
    BY <1>5 DEF Delete
  <2>2. r \in Target(c) /\ r.id = id /\ Target(c) = {r} /\ \A s \in todos : s.id = id => s = r
    BY <1>1, <1>2, <2>1, TargetIs DEF TableOK
  <2> QED  BY <2>1, <2>2 DEF Ids
<1> QED  BY <1>3, <1>4, <1>5

\* The todo of a result is one of the table, as it is.
LEMMA AnswerIsRow ==
  ASSUME Types, NEW c \in Client, Call(c) \/ Step(c) \/ Fail(c), ~req'[c].doubt,
         req'[c].kind \in Write, req'[c].row # None, RequestsOK'
  PROVE  req'[c].row \in todos'
<1>1. req'[c].at = "return"
  BY DEF RequestsOK, RequestIs
<1>2. Create(c) \/ Update(c) \/ Fetch(c) \/ Delete(c)
  BY <1>1, AnswerComes
<1>3. req \in [Client -> RequestType] /\ RequestIs(req[c], nextId, dbType)
  BY DEF Types, RequestsOK
<1>4. req[c].row = None
  BY <1>2, <1>3, WriteKeepsCache DEF RequestIs
<1>5. CASE Create(c)
  BY <1>3, <1>5 DEF Create, Become, RequestType
<1>6. CASE Update(c)
  <2>1. CASE Become(c, [req[c] EXCEPT !.at = "return"])
    BY <1>3, <1>4, <2>1 DEF Become, RequestType
  <2>2. ASSUME NEW t \in Target(c), todos' = (todos \ {t}) \cup {Patched(t, req[c].patch)},
               Become(c, Updated(c, Patched(t, req[c].patch)))
        PROVE  req'[c].row \in todos'
    <3> DEFINE q == Updated(c, Patched(t, req[c].patch))
    <3>1. q.row \in {None, Patched(t, req[c].patch)}
      BY <1>3, <1>4 DEF Updated, RequestType
    <3> HIDE DEF q
    <3>2. req'[c] = q
      BY <1>3, <2>2 DEF Become, q
    <3> QED  BY <2>2, <3>1, <3>2
  <2> QED  BY <1>6, <2>1, <2>2 DEF Update
<1>7. CASE Fetch(c)
  <2>1. CASE Become(c, [req[c] EXCEPT !.at = "return"])
    BY <1>3, <1>4, <2>1 DEF Become, RequestType
  <2>2. ASSUME NEW t \in With(todos, req[c].id),
               Become(c, [req[c] EXCEPT !.at = "return", !.ok = TRUE, !.row = t])
        PROVE  req'[c].row \in todos
    <3>1. req'[c].row = t
      BY <1>3, <2>2 DEF Become, RequestType
    <3> QED  BY <3>1 DEF With
  <2> QED  BY <1>7, <2>1, <2>2 DEF Fetch
<1>8. CASE Delete(c)
  <2> DEFINE ok == Target(c) # {}
  <2>1. Become(c, [req[c] EXCEPT !.at = "return", !.ok = ok])
    BY <1>8 DEF Delete
  <2> HIDE DEF ok
  <2> QED  BY <1>3, <1>4, <2>1 DEF Become, RequestType
<1> QED  BY <1>2, <1>5, <1>6, <1>7, <1>8

LEMMA FreshInit == Init => AnswersFresh
  BY DEF Init, AnswersFresh, Idle

\* The entry e of the loader of c has to be as the todo has been.
Current(c, e) == e.row # None /\ e.id \in Ids(todos) /\ ~Untold(c, e.id)

\* An entry that has been there all the step.
LEMMA EntryStays ==
  ASSUME Types, Types', AnswersFresh, NEW c \in Client, Call(c) \/ Step(c) \/ Fail(c), Remember,
         NEW e \in req[c].cache, e \in req'[c].cache, ~req[c].doubt, ~req'[c].doubt,
         req[c].at = "return" /\ Told(c) => e.id # req[c].id,
         Current(c, e)'
  PROVE  e.row \in fresh'[c]
<1>1. RequestIs(req[c], nextId, dbType) /\ req \in [Client -> RequestType]
  BY DEF Types, RequestsOK
<1>2. e.row # None /\ e.row.id = e.id /\ e.id < nextId /\ e.id \in Ids(todos') /\ ~Untold(c, e.id)'
      /\ req[c].api = "graphql"
  BY <1>1 DEF RequestIs, CacheIs, Current, RequestType
<1>3. e.id \in Ids(todos)
  <2>1. Evolves(c)
    BY StepEvolves
  <2>2. PICK r \in todos' : r.id = e.id
    BY <1>2 DEF Ids
  <2>3. \E s \in todos : s.id = e.id
    BY <1>2, <2>1, <2>2 DEF Evolves, Types, TableOK
  <2> QED  BY <2>3 DEF Ids
<1>4. ~Untold(c, e.id)
  <2>1. CASE req[c].at = "fetch"
    <3>1. SUFFICES ASSUME Untold(c, e.id) PROVE FALSE
      OBVIOUS
    <3>2. Fetch(c)
      <4>1. Create(c) \/ Update(c) \/ Fetch(c) \/ Delete(c) \/ Settles(c)
        BY StepKinds
      <4>2. ~Create(c) /\ ~Update(c) /\ ~Delete(c)
        BY <2>1 DEF Create, Update, Delete
      <4>3. ~Call(c) /\ ~ReadRows(c) /\ ~ReadCount(c) /\ ~FindById(c) /\ ~FindAll(c)
            /\ ~TodoQuery(c) /\ ~Load(c) /\ ~Return(c)
        BY <2>1 DEF Call, RestCall, MutationCall, ReadRows, ReadCount, FindById, FindAll, TodoQuery,
                    Load, Return, Active
      <4>4. ASSUME Fail(c) PROVE FALSE
        <5>1. Swallowed(c)
          BY <1>1, <2>1 DEF Swallowed, RequestIs
        <5>2. Quiet(c, Doubted(c))
          BY <4>4, <5>1, FailDoes
        <5>3. Doubted(c).doubt = TRUE
          BY <1>1 DEF Doubted, RequestType
        <5> QED  BY <5>2, <5>3, QuietEvolves
      <4> QED  BY <4>1, <4>2, <4>3, <4>4 DEF Step
    <3>3. req[c].id = e.id /\ req[c].kind \in Write
      BY <3>1 DEF Untold
    <3>4. CASE With(todos, req[c].id) = {}
      BY <1>3, <3>3, <3>4 DEF With, Ids
    <3>5. ASSUME NEW t, Become(c, [req[c] EXCEPT !.at = "return", !.ok = TRUE, !.row = t])
          PROVE  FALSE
      <4>1. /\ req'[c].at = "return" /\ req'[c].ok /\ req'[c].id = req[c].id
            /\ req'[c].kind = req[c].kind /\ req'[c].api = req[c].api
        BY <1>1, <3>5 DEF Become, RequestType
      <4> QED  BY <1>2, <3>3, <4>1 DEF Untold
    <3> QED  BY <3>2, <3>4, <3>5 DEF Fetch
  <2>2. CASE req[c].at = "return"
    BY <2>2 DEF Untold, Told
  <2> QED  BY <2>1, <2>2 DEF Untold
<1>5. e.row \in fresh[c]
  BY <1>2, <1>3, <1>4 DEF AnswersFresh
<1>6. e.id \notin Ids(todos \ todos')
  <2>1. ASSUME e.id \in Ids(todos \ todos') PROVE FALSE
    <3>1. ~Settles(c)
      BY <2>1 DEF Settles, Quiet, Ids
    <3>2. Create(c) \/ Update(c) \/ Fetch(c) \/ Delete(c)
      BY <3>1, StepKinds
    <3> QED  BY <1>2, <2>1, <3>2, Removes
  <2> QED  BY <2>1
<1>7. About(req'[c], e.row.id)
  BY <1>2 DEF About, Ids
<1> QED  BY <1>2, <1>5, <1>6, <1>7, FreshKeeps

LEMMA FreshStep == Types /\ Types' /\ AnswersFresh /\ [Next]_vars => AnswersFresh'
<1> SUFFICES ASSUME Types, Types', AnswersFresh, [Next]_vars PROVE AnswersFresh'
  OBVIOUS
<1>1. CASE UNCHANGED vars
  BY <1>1 DEF vars, AnswersFresh, Untold
<1>2. ASSUME NEW c \in Client, Call(c) \/ Step(c) \/ Fail(c), Remember PROVE AnswersFresh'
  <2>1. Evolves(c)
    BY <1>2, StepEvolves
  <2>2. \A d \in Client : RequestIs(req'[d], nextId', dbType')
    BY DEF Types, RequestsOK
  <2>3. ASSUME NEW d \in Client, ~req'[d].doubt, req'[d].kind \in Write, req'[d].row # None
        PROVE  req'[d].row \in fresh'[d]
    <3>1. req'[d].at = "return" /\ req'[d].row.id = req'[d].id
      BY <2>2, <2>3 DEF RequestIs
    <3>2. About(req'[d], req'[d].row.id)
      BY <2>3, <3>1 DEF About
    <3>3. CASE d = c
      BY <1>2, <2>3, <3>2, <3>3, AnswerIsRow, FreshKeeps DEF Types
    <3>4. CASE d # c
      BY <1>2, <2>1, <2>3, <3>2, <3>4, FreshKeeps DEF Evolves, AnswersFresh
    <3> QED  BY <3>3, <3>4
  <2>4. ASSUME NEW d \in Client, ~req'[d].doubt, NEW e \in req'[d].cache, Current(d, e)'
        PROVE  e.row \in fresh'[d]
    <3>1. e.row # None /\ e.id \in Ids(todos') /\ e.row.id = e.id
      BY <2>2, <2>4 DEF RequestIs, CacheIs, Current
    <3>2. About(req'[d], e.row.id)
      BY <2>4, <3>1 DEF About, Ids
    <3>3. CASE d # c
      <4>1. req'[d] = req[d]
        BY <2>1, <3>3 DEF Evolves
      <4>2. e.id < nextId
        BY <2>4, <4>1 DEF Types, RequestsOK, RequestIs, CacheIs
      <4>3. e.id \in Ids(todos)
        <5>1. PICK r \in todos' : r.id = e.id
          BY <3>1 DEF Ids
        <5>2. \E s \in todos : s.id = e.id
          BY <2>1, <4>2, <5>1 DEF Evolves
        <5> QED  BY <5>2 DEF Ids
      <4>4. ~Untold(d, e.id)
        BY <2>4, <4>1 DEF Current, Untold
      <4>5. e.row \in fresh[d]
        BY <2>4, <3>1, <4>1, <4>3, <4>4 DEF AnswersFresh
      <4> QED  BY <1>2, <3>2, <4>1, <4>5, FreshKeeps
    <3>4. CASE d = c
      <4>1. Comes(c, e)
        BY <1>2, <2>4, <3>4, CacheComes
      <4>2. CASE /\ e \in req[c].cache /\ ~req[c].doubt
                 /\ req[c].at = "return" /\ Told(c) => e.id # req[c].id
        BY <1>2, <2>4, <3>4, <4>2, EntryStays
      <4>3. CASE UNCHANGED todos /\ e.row \in todos
        BY <1>2, <3>2, <3>4, <4>3, FreshKeeps
      <4>4. CASE UNCHANGED todos /\ Told(c) /\ e.row = req[c].row /\ ~req[c].doubt
        <5>1. e.row \in fresh[c]
          BY <3>1, <4>4 DEF AnswersFresh, Told
        <5>2. e.row.id \notin Ids(todos \ todos')
          BY <4>4 DEF Ids
        <5> QED  BY <1>2, <3>2, <3>4, <5>1, <5>2, FreshKeeps
      <4> QED  BY <2>4, <3>1, <3>4, <4>1, <4>2, <4>3, <4>4 DEF Comes
    <3> QED  BY <3>3, <3>4
  <2> QED  BY <2>3, <2>4 DEF AnswersFresh, Current
<1> QED  BY <1>1, <1>2 DEF Next

LEMMA AlwaysFresh == Spec => [](Types /\ AnswersFresh)
  BY AlwaysTypes, StepTypes, FreshInit, FreshStep, PTL DEF Spec

\* Whatever other clients write meanwhile, no request hands out, or keeps in
\* its loader, a todo that was never as it says since the request began, or
\* that it has itself changed since.
THEOREM AnswersAreFresh == Spec => []AnswersFresh
  BY AlwaysFresh, PTL

\* A toggle on which no one else's write has come in between writes the
\* negation of what the todo is now, though it was read in an earlier step.
THEOREM TogglesFlip == Spec => []ToggleFlips
<1>1. Types /\ AnswersFresh => ToggleFlips
  <2> SUFFICES ASSUME Types, AnswersFresh, NEW c \in Client,
                      req[c].at = "write", req[c].kind = "toggle", ~req[c].doubt,
                      With(fresh[c], req[c].id) = With(todos, req[c].id), NEW r \in Target(c)
               PROVE  req[c].patch.completed = ~r.completed
    BY DEF ToggleFlips
  <2>1. PICK e \in req[c].cache : e.id = req[c].id /\ e.row # None
                                  /\ req[c].patch.completed = ~e.row.completed
    BY DEF Types, RequestsOK, RequestIs
  <2>2. e.row.id = e.id
    BY <2>1 DEF Types, RequestsOK, RequestIs, CacheIs
  <2>3. e.id \in Ids(todos) /\ ~Untold(c, e.id)
    BY <2>1, TargetIs DEF Ids, Untold
  <2>4. e.row \in With(fresh[c], req[c].id)
    BY <2>1, <2>2, <2>3 DEF AnswersFresh, With
  <2>5. e.row = r
    BY <2>4, TargetIs
  <2> QED  BY <2>1, <2>5
<1> QED  BY <1>1, AlwaysFresh, PTL

-----------------------------------------------------------------------------
(***************************************************************************)
(* Rows and their ids, counted.                                            *)
(***************************************************************************)

\* A table with distinct ids.
Distinct(T) == T \in SUBSET Row /\ IsFiniteSet(T) /\ \A r, s \in T : r.id = s.id => r = s

Newer(T, r) == {s \in T : s.id > r.id}
Rank(T) == [r \in T |-> Cardinality(Newer(T, r))]

LEMMA TableDistinct == ASSUME Types, NEW T \in SUBSET todos PROVE Distinct(T)
  BY TableFinite DEF Types, TableOK, Distinct

LEMMA PartDistinct == ASSUME NEW T, Distinct(T), NEW S \in SUBSET T PROVE Distinct(S)
  BY FS_Subset DEF Distinct

LEMMA IdsCounted ==
  ASSUME NEW T, Distinct(T)
  PROVE  IsFiniteSet(Ids(T)) /\ Cardinality(Ids(T)) = Cardinality(T)
<1> DEFINE f == [r \in T |-> r.id]
<1>1. f \in Bijection(T, Ids(T))
  BY DEF Distinct, Ids, Bijection, Injection, Surjection, IsInjective
<1> QED  BY <1>1, FS_Bijection DEF Distinct, ExistsBijection

\* There are no more todos newer than one than ids given since.
LEMMA NewerCounted ==
  ASSUME Types, NEW id \in Nat
  PROVE  Cardinality({s \in todos : s.id > id}) <= IF id + 1 > nextId - 1 THEN 0 ELSE nextId - 1 - id
<1> DEFINE T == {s \in todos : s.id > id}
<1>1. Distinct(T)
  <2>1. T \in SUBSET todos
    OBVIOUS
  <2> QED  BY <2>1, TableDistinct
<1>2. nextId \in Nat /\ Ids(T) \in SUBSET ((id + 1)..(nextId - 1))
  BY DEF Types, TableOK, Row, Ids
<1>3. Cardinality(T) = Cardinality(Ids(T))
  BY <1>1, IdsCounted
<1>4. /\ IsFiniteSet((id + 1)..(nextId - 1))
      /\ Cardinality((id + 1)..(nextId - 1)) = IF id + 1 > nextId - 1 THEN 0 ELSE nextId - 1 - (id + 1) + 1
  BY <1>2, FS_Interval
<1>5. Cardinality(Ids(T)) <= Cardinality((id + 1)..(nextId - 1))
  BY <1>2, <1>4, FS_Subset
<1>6. Cardinality(T) \in Nat
  BY <1>1, FS_CardinalityType DEF Distinct
<1> QED  BY <1>2, <1>3, <1>4, <1>5, <1>6

\* Counting the newer ones numbers the rows from nought on.
LEMMA RankIs ==
  ASSUME NEW T, Distinct(T)
  PROVE  Rank(T) \in Bijection(T, 0..(Cardinality(T) - 1))
<1> DEFINE N == Cardinality(T)
<1>1. N \in Nat /\ IsFiniteSet(0..(N - 1)) /\ Cardinality(0..(N - 1)) = N
  <2>1. N \in Nat
    BY FS_CardinalityType DEF Distinct
  <2>2. IsFiniteSet(0..(N - 1)) /\ Cardinality(0..(N - 1)) = IF 0 > N - 1 THEN 0 ELSE N - 1 - 0 + 1
    BY <2>1, FS_Interval
  <2> QED  BY <2>1, <2>2
<1>2. ASSUME NEW r \in T
      PROVE  IsFiniteSet(Newer(T, r)) /\ Cardinality(Newer(T, r)) \in 0..(N - 1)
  <2>1. Newer(T, r) \in SUBSET T /\ Newer(T, r) # T
    BY DEF Newer, Distinct, Row
  <2>2. /\ IsFiniteSet(Newer(T, r)) /\ Cardinality(Newer(T, r)) <= N
        /\ Cardinality(Newer(T, r)) # N
    BY <2>1, FS_Subset DEF Distinct
  <2> QED  BY <1>1, <2>2, FS_CardinalityType
<1>3. ASSUME NEW r \in T, NEW s \in T, r.id < s.id PROVE Rank(T)[r] # Rank(T)[s]
  <2>1. Newer(T, s) \in SUBSET Newer(T, r) /\ s \in Newer(T, r) /\ s \notin Newer(T, s)
    BY <1>3 DEF Newer, Distinct, Row
  <2>2. Cardinality(Newer(T, s)) # Cardinality(Newer(T, r))
    BY <1>2, <2>1, FS_Subset
  <2> QED  BY <2>2 DEF Rank
<1>4. \A r, s \in T : Rank(T)[r] = Rank(T)[s] => r = s
  BY <1>3 DEF Distinct, Row
<1>5. Rank(T) \in Injection(T, 0..(N - 1))
  BY <1>2, <1>4 DEF Rank, Injection, IsInjective
<1>6. Rank(T) \in Surjection(T, 0..(N - 1))
  BY <1>1, <1>5, FS_Injection
<1> QED  BY <1>5, <1>6 DEF Bijection

\* The length of a page of n todos.
Cut(n, page) ==
  LET left == n - Skip(page) IN IF left < 0 THEN 0 ELSE IF left > Limit THEN Limit ELSE left

LEMMA SkipIs == ASSUME NEW p \in Page PROVE Skip(p) \in Nat
<1>1. CASE p = 1
  BY <1>1, SizeAssumption DEF Skip
<1>2. CASE p = 2
  BY <1>2, SizeAssumption DEF Skip
<1> QED  BY <1>1, <1>2 DEF Page

LEMMA PageCounted ==
  ASSUME NEW T, Distinct(T), NEW p \in Page
  PROVE  Cardinality(Newest(T, Skip(p), Limit)) = Cut(Cardinality(T), p)
<1> DEFINE N == Cardinality(T)
           k == Skip(p)
           P == Newest(T, k, Limit)
           last == IF k + Limit < N THEN k + Limit - 1 ELSE N - 1
           f == [r \in P |-> Rank(T)[r]]
<1>1. N \in Nat /\ k \in Nat /\ Limit \in Nat \ {0}
  BY SkipIs, FS_CardinalityType, SizeAssumption DEF Distinct
<1>2. P = {r \in T : Rank(T)[r] \in k..(k + Limit - 1)}
  BY DEF Newest, Rank, Newer
<1>3. Rank(T) \in Bijection(T, 0..(N - 1))
  BY RankIs
<1> HIDE DEF N, k, P
<1>4. f \in Bijection(P, k..last)
  <2>1. \A r \in P : r \in T /\ Rank(T)[r] \in k..last
    BY <1>1, <1>2, <1>3 DEF Bijection, Surjection
  <2>2. \A r, s \in P : f[r] = f[s] => r = s
    BY <1>2, <1>3 DEF Bijection, Injection, IsInjective
  <2>3. \A i \in k..last : \E r \in P : f[r] = i
    <3>1. ASSUME NEW i \in k..last PROVE \E r \in P : f[r] = i
      <4>1. i \in 0..(N - 1) /\ i \in k..(k + Limit - 1)
        BY <1>1
      <4>2. PICK r \in T : Rank(T)[r] = i
        BY <1>3, <4>1 DEF Bijection, Surjection
      <4> QED  BY <1>2, <4>1, <4>2
    <3> QED  BY <3>1
  <2> QED  BY <2>1, <2>2, <2>3 DEF Bijection, Injection, Surjection, IsInjective
<1>5. IsFiniteSet(P) /\ P \in SUBSET T
  BY <1>2, FS_Subset DEF Distinct
<1>6. Cardinality(P) = Cardinality(k..last)
  BY <1>4, <1>5, FS_Bijection DEF ExistsBijection
<1>7. Cardinality(k..last) = IF k > last THEN 0 ELSE last - k + 1
  BY <1>1, FS_Interval
<1>8. Cardinality(P) = LET left == N - k IN IF left < 0 THEN 0 ELSE IF left > Limit THEN Limit ELSE left
  BY <1>1, <1>6, <1>7
<1> QED  BY <1>8 DEF N, k, P, Cut

-----------------------------------------------------------------------------
(***************************************************************************)
(* The loader finds what is there and not too old.                         *)
(***************************************************************************)
LEMMA LoaderInit == Init => LoaderFinds
  BY DEF Init, LoaderFinds, Missing, Idle

\* The batch of MongoDB leaves a todo out only if there are enough newer ones.
LEMMA BatchFinds ==
  ASSUME Types, dbType = "mongodb", NEW r \in todos, r \notin Batch
  PROVE  r.id + BatchTake < nextId
<1> DEFINE newer == Cardinality({s \in todos : s.id > r.id})
<1>1. r.id \in Nat /\ r.id < nextId /\ nextId \in Nat /\ BatchTake \in Nat
  BY SizeAssumption DEF Types, TableOK, Row
<1>2. newer \in Nat
  <2>1. {s \in todos : s.id > r.id} \in SUBSET todos
    OBVIOUS
  <2> QED  BY <2>1, TableFinite
<1>3. newer <= IF r.id + 1 > nextId - 1 THEN 0 ELSE nextId - 1 - r.id
  BY <1>1, NewerCounted
<1>4. newer \notin 0..(0 + BatchTake - 1)
  BY DEF Batch, Newest
<1> HIDE DEF newer
<1> QED  BY <1>1, <1>2, <1>3, <1>4

LEMMA LoaderStep == Types /\ LoaderFinds /\ [Next]_vars => LoaderFinds'
<1> SUFFICES ASSUME Types, LoaderFinds, [Next]_vars PROVE LoaderFinds'
  OBVIOUS
<1>1. CASE UNCHANGED vars
  BY <1>1 DEF vars, LoaderFinds, Missing
<1>2. ASSUME NEW c \in Client, Call(c) \/ Step(c) \/ Fail(c), Remember PROVE LoaderFinds'
  <2>1. Evolves(c)
    BY <1>2, StepEvolves
  <2>2. SUFFICES ASSUME dbType' = "mongodb", NEW d \in Client, NEW e \in req'[d].cache, e.row = None,
                        e.id \in kept'[d]
                 PROVE  e.id + BatchTake < nextId'
    BY DEF LoaderFinds, Missing
  <2>3. /\ dbType = "mongodb" /\ nextId \in Nat /\ nextId' \in Nat /\ nextId <= nextId'
        /\ BatchTake \in Nat
    BY <2>1, <2>2, SizeAssumption DEF Evolves
  <2>4. CASE e \in req[d].cache
    <3>1. About(req[d], e.id)
      BY <2>4 DEF About, Ids
    <3>2. e.id \in kept[d]
      BY <1>2, <2>2, <3>1, KeptOnly
    <3>3. e.id + BatchTake < nextId
      BY <2>2, <2>3, <2>4, <3>2 DEF LoaderFinds, Missing
    <3>4. e.id \in Nat
      BY <2>4 DEF Types, RequestsOK, RequestIs, CacheIs, Entry
    <3> QED  BY <2>3, <3>3, <3>4
  <2>5. CASE e \notin req[d].cache
    <3>1. d = c
      BY <2>1, <2>2, <2>5 DEF Evolves
    <3>2. UNCHANGED <<todos, nextId>> /\ e \in Found(Batch, e.id) /\ e.id \in Nat
      BY <1>2, <2>2, <2>5, <3>1, CacheComes DEF Comes
    <3>3. e.id \in Ids(todos)
      BY <1>2, <2>2, <3>2 DEF Remember
    <3>4. PICK r \in todos : r.id = e.id
      BY <3>3 DEF Ids
    <3>5. r \notin Batch
      BY <2>2, <3>2, <3>4, BatchTodos, FoundIs
    <3> QED  BY <2>3, <3>2, <3>4, <3>5, BatchFinds
  <2> QED  BY <2>4, <2>5
<1> QED  BY <1>1, <1>2 DEF Next

\* On MongoDB no request is told by its loader that there is no todo with an
\* id that has been there since it looked, unless BatchTake newer ones have
\* been created: for whatever BatchTake, and however many todos.
THEOREM LoaderFindsRecent == Spec => []LoaderFinds
  BY LoaderInit, LoaderStep, AlwaysTypes, PTL DEF Spec

-----------------------------------------------------------------------------
(***************************************************************************)
(* Pages and their totals.                                                 *)
(***************************************************************************)

\* A page whose other query is still to come agrees with the table, as long as
\* no todo of the user comes or goes; n counts the todos of the user.
PageIs(r, n) ==
  /\ r.page \in Page
  /\ r.at = "count" => Cardinality(r.data) = Cut(n, r.page)
  /\ r.at = "rows" => r.total = n
  /\ r.at = "return" => Cardinality(r.data) = Cut(r.total, r.page)

PageInv ==
  \A c \in Client :
    /\ req[c].kind = "list" => Cardinality(req[c].data) = Cut(req[c].total, req[c].page)
    /\ req[c].kind = "page" /\ c \notin moved =>
         PageIs(req[c], Cardinality(RowsOf(todos, Owner[c])))

\* Pages and lists come from the queries for them.
LEMMA PageComes ==
  ASSUME Types, NEW c \in Client, Call(c) \/ Step(c) \/ Fail(c), req'[c].kind \in {"page", "list"}
  PROVE  ReadRows(c) \/ ReadCount(c) \/ FindAll(c)
<1>1. req[c] \in RequestType /\ RequestIs(req[c], nextId, dbType)
  BY DEF Types, RequestsOK
<1>2. ASSUME NEW r, NEW cache, NEW doubt, Quiet(c, r), EndedAs(r, cache, doubt) PROVE FALSE
  <2>1. req'[c] = r
    BY <1>2, QuietEvolves
  <2> QED  BY <1>2, <2>1 DEF EndedAs, Idle, Write
<1>3. CASE Call(c)
  BY <1>3, CallDoes, QuietEvolves DEF StartedAs, Write
<1>4. CASE FindById(c)
  <2>1. PICK id \in Known : \E e \in Found(Seen(c), id) : Become(c, Answered("rest", "get", e, {}))
    BY <1>4 DEF FindById
  <2>2. PICK e : Become(c, Answered("rest", "get", e, {}))
    BY <2>1
  <2> QED  BY <2>2 DEF Become, Answered, Idle, Types, RequestsOK
<1>5. CASE TodoQuery(c)
  <2>1. PICK f, r : Loads(c, f, r)
    BY <1>5, TodoQueryDoes
  <2>2. r.kind = "load" /\ req'[c] = r
    BY <2>1, QuietEvolves DEF Loads, Answered, Idle
  <2> QED  BY <2>2
<1>6. CASE Load(c)
  <2>1. PICK f, r : /\ Given(c, f) /\ Quiet(c, r)
                    /\ IF f.row = None THEN EndedAs(r, req[c].cache \cup {f}, req[c].doubt)
                                       ELSE r = Toggling(c, f)
    BY <1>6, LoadAs
  <2>2. CASE f.row # None
    <3>1. r.kind = "toggle" /\ req'[c] = r
      BY <1>1, <1>6, <2>1, <2>2, LoadAs, QuietEvolves DEF Toggling, RequestIs, RequestType
    <3> QED  BY <3>1
  <2> QED  BY <1>2, <2>1, <2>2
<1>7. CASE Create(c) \/ Update(c) \/ Fetch(c) \/ Delete(c)
  <2>1. req'[c].kind = req[c].kind
    BY <1>7, WriteKeepsCache
  <2>2. req[c].kind \in Write
    BY <1>1, <1>7 DEF Create, Update, Fetch, Delete, RequestIs, Write
  <2> QED  BY <2>1, <2>2 DEF Write
<1>8. CASE Return(c)
  BY <1>2, <1>8, ReturnAs
<1>9. CASE Fail(c)
  <2>1. PICK r : /\ Quiet(c, r)
                 /\ IF Swallowed(c) THEN r = Doubted(c) ELSE EndedAs(r, req[c].cache, TRUE)
    BY <1>9, FailAs
  <2>2. CASE Swallowed(c)
    <3>1. Doubted(c).kind = req[c].kind
      BY <1>1 DEF Doubted, RequestType
    <3>2. req'[c] = Doubted(c)
      BY <2>1, <2>2, QuietEvolves
    <3> QED  BY <2>2, <3>1, <3>2 DEF Swallowed
  <2> QED  BY <1>2, <2>1, <2>2
<1> QED  BY <1>3, <1>4, <1>5, <1>6, <1>7, <1>8, <1>9 DEF Step

LEMMA SeenCounted ==
  ASSUME Types, NEW c \in Client, NEW p \in Page, req[c].kind \in {"none", "page"}
  PROVE  /\ Seen(c) = RowsOf(todos, Owner[c])
         /\ Cardinality(Newest(Seen(c), Skip(p), Limit)) = Cut(Cardinality(Seen(c)), p)
<1>1. Seen(c) = RowsOf(todos, Owner[c])
  BY DEF Seen
<1>2. Distinct(Seen(c))
  BY SeenTodos, TableDistinct
<1> QED  BY <1>1, <1>2, PageCounted

LEMMA ReadsAgree ==
  ASSUME Types, PageInv, NEW c \in Client, ReadRows(c) \/ ReadCount(c),
         req[c].kind = "page" => c \notin moved
  PROVE  req'[c].kind = "page" /\ PageIs(req'[c], Cardinality(RowsOf(todos, Owner[c])))
<1> DEFINE mine == Cardinality(RowsOf(todos, Owner[c]))
<1>1. req \in [Client -> RequestType] /\ RequestIs(req[c], nextId, dbType)
  BY DEF Types, RequestsOK
<1>2. ASSUME ~Active(c) PROVE req[c].kind = "none"
  BY <1>1, <1>2 DEF Active, RequestIs, Idle
<1>3. ASSUME req[c].at \in {"rows", "count"} PROVE req[c].kind = "page" /\ PageIs(req[c], mine)
  BY <1>1, <1>3 DEF RequestIs, PageInv
<1>4. ASSUME NEW r, Become(c, r) PROVE req'[c] = r
  BY <1>1, <1>4 DEF Become
<1>5. ASSUME ~Active(c), NEW p \in Page,
             Become(c, [Idle EXCEPT !.kind = "page", !.at = "count", !.page = p,
                          !.data = Newest(Seen(c), Skip(p), Limit)])
      PROVE  req'[c].kind = "page" /\ PageIs(req'[c], mine)
  <2> DEFINE r == [Idle EXCEPT !.kind = "page", !.at = "count", !.page = p,
                          !.data = Newest(Seen(c), Skip(p), Limit)]
  <2>1. r.kind = "page" /\ r.at = "count" /\ r.page = p /\ r.data = Newest(Seen(c), Skip(p), Limit)
    BY DEF Idle
  <2>2. req'[c] = r
    BY <1>4, <1>5
  <2> HIDE DEF r
  <2> QED  BY <1>2, <1>5, <2>1, <2>2, SeenCounted DEF PageIs
<1>6. ASSUME ~Active(c), NEW p \in Page,
             Become(c, [Idle EXCEPT !.kind = "page", !.at = "rows", !.page = p,
                          !.total = Cardinality(Seen(c))])
      PROVE  req'[c].kind = "page" /\ PageIs(req'[c], mine)
  <2> DEFINE r == [Idle EXCEPT !.kind = "page", !.at = "rows", !.page = p,
                          !.total = Cardinality(Seen(c))]
  <2>1. r.kind = "page" /\ r.at = "rows" /\ r.page = p /\ r.total = Cardinality(Seen(c))
    BY DEF Idle
  <2>2. req'[c] = r
    BY <1>4, <1>6
  <2> HIDE DEF r
  <2> QED  BY <1>2, <1>6, <2>1, <2>2, SeenCounted DEF PageIs
<1>7. ASSUME req[c].at = "rows",
             Become(c, [req[c] EXCEPT !.data = Newest(Seen(c), Skip(req[c].page), Limit),
                                      !.at = "return"])
      PROVE  req'[c].kind = "page" /\ PageIs(req'[c], mine)
  <2> DEFINE r == [req[c] EXCEPT !.data = Newest(Seen(c), Skip(req[c].page), Limit),
                                 !.at = "return"]
  <2>1. /\ r.kind = req[c].kind /\ r.at = "return" /\ r.page = req[c].page /\ r.total = req[c].total
        /\ r.data = Newest(Seen(c), Skip(req[c].page), Limit)
    BY <1>1 DEF RequestType
  <2>2. req'[c] = r
    BY <1>4, <1>7
  <2>3. req[c].page \in Page /\ req[c].total = mine /\ req[c].kind = "page"
    BY <1>3, <1>7 DEF PageIs
  <2> HIDE DEF r
  <2> QED  BY <2>1, <2>2, <2>3, SeenCounted DEF PageIs
<1>8. ASSUME req[c].at = "count",
             Become(c, [req[c] EXCEPT !.total = Cardinality(Seen(c)), !.at = "return"])
      PROVE  req'[c].kind = "page" /\ PageIs(req'[c], mine)
  <2> DEFINE r == [req[c] EXCEPT !.total = Cardinality(Seen(c)), !.at = "return"]
  <2>1. /\ r.kind = req[c].kind /\ r.at = "return" /\ r.page = req[c].page /\ r.data = req[c].data
        /\ r.total = Cardinality(Seen(c))
    BY <1>1 DEF RequestType
  <2>2. req'[c] = r
    BY <1>4, <1>8
  <2>3. req[c].page \in Page /\ Cardinality(req[c].data) = Cut(mine, req[c].page) /\ req[c].kind = "page"
    BY <1>3, <1>8 DEF PageIs
  <2> HIDE DEF r
  <2> QED  BY <2>1, <2>2, <2>3, SeenCounted DEF PageIs
<1> QED  BY <1>5, <1>6, <1>7, <1>8 DEF ReadRows, ReadCount

LEMMA ListAgrees ==
  ASSUME Types, NEW c \in Client, FindAll(c)
  PROVE  req'[c].kind = "list" /\ Cardinality(req'[c].data) = Cut(req'[c].total, req'[c].page)
<1>1. PICK r, wanted, p :
        /\ Looks(c, r) /\ wanted \in SUBSET todos /\ p \in Page
        /\ r.kind = "list" /\ r.page = p
        /\ r.data = Newest(wanted, Skip(p), Limit) /\ r.total = Cardinality(wanted)
  BY FindAllDoes
<1>2. Cardinality(Newest(wanted, Skip(p), Limit)) = Cut(Cardinality(wanted), p)
  BY <1>1, TableDistinct, PageCounted
<1>3. req'[c] = r
  BY <1>1, QuietEvolves DEF Looks
<1> QED  BY <1>1, <1>2, <1>3

LEMMA ReadsPages ==
  ASSUME Types, NEW c \in Client, ReadRows(c) \/ ReadCount(c) PROVE req'[c].kind = "page"
<1>1. req[c] \in RequestType /\ \A r : Become(c, r) => req'[c] = r
  BY DEF Become, Types, RequestsOK
<1>2. req[c].at \in {"rows", "count"} => req[c].kind = "page"
  BY DEF Types, RequestsOK, RequestIs
<1>3. CASE ReadRows(c)
  <2> DEFINE New(p) == [Idle EXCEPT !.kind = "page", !.at = "count", !.page = p,
                          !.data = Newest(Seen(c), Skip(p), Limit)]
             Old == [req[c] EXCEPT !.data = Newest(Seen(c), Skip(req[c].page), Limit),
                                   !.at = "return"]
  <2>1. \/ \E p \in Page : Become(c, New(p))
        \/ req[c].at = "rows" /\ Become(c, Old)
    BY <1>3 DEF ReadRows
  <2>2. (\A p : New(p).kind = "page") /\ Old.kind = req[c].kind
    BY <1>1 DEF Idle, RequestType
  <2> HIDE DEF New, Old
  <2> QED  BY <1>1, <1>2, <2>1, <2>2
<1>4. CASE ReadCount(c)
  <2> DEFINE New(p) == [Idle EXCEPT !.kind = "page", !.at = "rows", !.page = p,
                          !.total = Cardinality(Seen(c))]
             Old == [req[c] EXCEPT !.total = Cardinality(Seen(c)), !.at = "return"]
  <2>1. \/ \E p \in Page : Become(c, New(p))
        \/ req[c].at = "count" /\ Become(c, Old)
    BY <1>4 DEF ReadCount
  <2>2. (\A p : New(p).kind = "page") /\ Old.kind = req[c].kind
    BY <1>1 DEF Idle, RequestType
  <2> HIDE DEF New, Old
  <2> QED  BY <1>1, <1>2, <2>1, <2>2
<1> QED  BY <1>3, <1>4

LEMMA PageInit == Init => PageInv
  BY DEF Init, PageInv, Idle

LEMMA PageStep == Types /\ Types' /\ PageInv /\ [Next]_vars => PageInv'
<1> SUFFICES ASSUME Types, Types', PageInv, [Next]_vars PROVE PageInv'
  OBVIOUS
<1>1. CASE UNCHANGED vars
  BY <1>1 DEF vars, PageInv, RowsOf
<1>2. ASSUME NEW c \in Client, Call(c) \/ Step(c) \/ Fail(c), Remember PROVE PageInv'
  <2>1. Evolves(c)
    BY <1>2, StepEvolves
  <2>2. ASSUME NEW d \in Client, req'[d].kind = "list"
        PROVE  Cardinality(req'[d].data) = Cut(req'[d].total, req'[d].page)
    <3>1. CASE d # c
      BY <2>1, <2>2, <3>1 DEF Evolves, PageInv
    <3>2. CASE d = c
      <4>1. ReadRows(c) \/ ReadCount(c) \/ FindAll(c)
        BY <1>2, <2>2, <3>2, PageComes
      <4>2. ~ReadRows(c) /\ ~ReadCount(c)
        <5> QED  BY <2>2, <3>2, ReadsPages
      <4> QED  BY <3>2, <4>1, <4>2, ListAgrees
    <3> QED  BY <3>1, <3>2
  <2>3. ASSUME NEW d \in Client, req'[d].kind = "page", d \notin moved'
        PROVE  PageIs(req'[d], Cardinality(RowsOf(todos', Owner[d])))
    <3>1. req[d].kind = "page" =>
            d \notin moved /\ Ids(RowsOf(todos', Owner[d])) = Ids(RowsOf(todos, Owner[d]))
      BY <1>2, <2>3 DEF Remember
    <3>2. CASE d # c
      <4>1. req'[d] = req[d]
        BY <2>1, <3>2 DEF Evolves
      <4>2. Distinct(RowsOf(todos, Owner[d])) /\ Distinct(RowsOf(todos', Owner[d]))
        <5>1. Distinct(todos) /\ Distinct(todos')
          BY DEF Types, TableOK, Distinct
        <5> QED  BY <5>1, PartDistinct DEF RowsOf
      <4>3. Cardinality(RowsOf(todos, Owner[d])) = Cardinality(RowsOf(todos', Owner[d]))
        BY <2>3, <3>1, <4>1, <4>2, IdsCounted
      <4> QED  BY <2>3, <3>1, <4>1, <4>3 DEF PageInv
    <3>3. CASE d = c
      <4>1. ReadRows(c) \/ ReadCount(c)
        BY <1>2, <2>3, <3>3, PageComes, ListAgrees
      <4>2. todos' = todos
        BY <4>1 DEF ReadRows, ReadCount
      <4> QED  BY <3>1, <3>3, <4>1, <4>2, ReadsAgree
    <3> QED  BY <3>2, <3>3
  <2> QED  BY <2>2, <2>3 DEF PageInv
<1> QED  BY <1>1, <1>2 DEF Next

\* A page is as long as its total says, whatever the page size and the order
\* of the two queries, if no todo of the user comes or goes between them.
THEOREM PagesAgree == Spec => []PageAgrees
<1>1. PageInv => PageAgrees
  <2> SUFFICES ASSUME PageInv PROVE PageAgrees
    OBVIOUS
  <2>1. \A c \in Client : PageLength(c) = Cut(req[c].total, req[c].page)
    BY DEF PageLength, Cut
  <2> QED  BY <2>1 DEF PageInv, PageIs, PageAgrees
<1>2. Spec => [](Types /\ PageInv)
  BY AlwaysTypes, StepTypes, PageInit, PageStep, PTL DEF Spec
<1> QED  BY <1>1, <1>2, PTL

-----------------------------------------------------------------------------
(***************************************************************************)
(* What subscribers make of the events.                                    *)
(***************************************************************************)

\* The mutation on a todo whose event is still to come: a todo that is not torn
\* has one at most, of the subscriber's instance, and its answer is the todo.
EventIs(r, rows) ==
  /\ r.at = "fetch" => rows # {}
  /\ r.at = "return" => rows = IF r.row = None THEN {} ELSE {r.row}

EventDue(d, id) ==
  /\ d \in Local /\ EventIs(req[d], With(todos, id))
  /\ \A c \in Client : Untold(c, id) => c = d

ViewAt(id) ==
  id \notin torn =>
    /\ \A d \in Client : Untold(d, id) => EventDue(d, id)
    /\ (\A d \in Client : ~Untold(d, id)) => With(view, id) = With(todos, id)

ViewInv == \A id \in 0..(nextId - 1) : ViewAt(id)

\* A step of c that tells nothing of the todo, and leaves it as it is.
LEMMA ViewStays ==
  ASSUME NEW c \in Client, \A d \in Client \ {c} : req'[d] = req[d],
         NEW id, ViewAt(id), ~Untold(c, id), ~Untold(c, id)',
         With(todos', id) = With(todos, id), With(view', id) = With(view, id), torn \subseteq torn'
  PROVE  ViewAt(id)'
<1>1. SUFFICES ASSUME id \notin torn' PROVE ViewAt(id)'
  BY DEF ViewAt
<1>2. \A d \in Client : Untold(d, id)' <=> Untold(d, id)
  BY DEF Untold
<1>3. ASSUME NEW d \in Client, Untold(d, id)' PROVE EventDue(d, id)'
  <2>1. d # c /\ EventDue(d, id)
    BY <1>1, <1>2, <1>3 DEF ViewAt
  <2> QED  BY <1>2, <2>1 DEF EventDue
<1>4. ASSUME \A d \in Client : ~Untold(d, id)' PROVE With(view', id) = With(todos', id)
  BY <1>1, <1>2, <1>4 DEF ViewAt
<1> QED  BY <1>3, <1>4 DEF ViewAt

LEMMA LoseTrackElsewhere ==
  ASSUME NEW k, LoseTrack(k)
  PROVE  torn \subseteq torn' /\ k \in torn' /\ \A id : id # k => With(view', id) = With(view, id)
  BY DEF LoseTrack, With

\* A write of c to the todo k, which is the one its result or event is about.
Writes(c, k) ==
  /\ Tear(c, k) /\ req[c].at = "write"
  /\ req'[c].id = k /\ req'[c].api = req[c].api /\ req[c].api \in {"rest", "graphql"}
  /\ req'[c].kind \in Write /\ (req'[c].at = "fetch" \/ (req'[c].at = "return" /\ req'[c].ok))
  /\ \A id : id # k => With(todos', id) = With(todos, id)
  /\ EventIs(req'[c], With(todos', k))

LEMMA ViewWritten ==
  ASSUME Types, NEW c \in Client, Evolves(c), NEW k, Writes(c, k),
         NEW id, id # k => ViewAt(id)
  PROVE  ViewAt(id)'
<1>1. \A d \in Client \ {c} : req'[d] = req[d]
  BY DEF Evolves
<1>2. CASE id # k
  <2>1. ~Untold(c, id) /\ ~Untold(c, id)'
    BY <1>2 DEF Writes, Untold
  <2>2. With(view', id) = With(view, id) /\ torn \subseteq torn'
    <3>1. CASE LoseTrack(k)
      BY <1>2, <3>1, LoseTrackElsewhere
    <3>2. CASE UNCHANGED <<view, torn>>
      BY <3>2
    <3> QED  BY <3>1, <3>2 DEF Writes, Tear
  <2>3. With(todos', id) = With(todos, id)
    BY <1>2 DEF Writes
  <2> QED  BY <1>1, <1>2, <2>1, <2>2, <2>3, ViewStays
<1>3. CASE id = k
  <2>1. SUFFICES ASSUME k \notin torn' PROVE ViewAt(k)'
    BY <1>3 DEF ViewAt
  <2>2. ~LoseTrack(k)
    BY <2>1, LoseTrackElsewhere
  <2>3. req[c].api = "graphql" /\ c \in Local /\ \A d \in Client \ {c} : ~Untold(d, k)
    BY <2>2 DEF Writes, Tear
  <2>4. Untold(c, k)' /\ \A d \in Client \ {c} : ~Untold(d, k)'
    BY <1>1, <2>3 DEF Writes, Untold
  <2>5. EventDue(c, k)'
    BY <2>3, <2>4 DEF EventDue, Writes
  <2> QED  BY <2>4, <2>5 DEF ViewAt
<1> QED  BY <1>2, <1>3

LEMMA CreateWrites == ASSUME Types, NEW c \in Client, Create(c) PROVE Writes(c, nextId)
<1> DEFINE r == [req[c] EXCEPT !.at = "return", !.id = nextId, !.ok = TRUE, !.row = NewRow(c)]
<1>1. /\ req \in [Client -> RequestType] /\ req[c].kind = "create" /\ req[c].at = "write"
      /\ Become(c, r) /\ todos' = todos \cup {NewRow(c)} /\ Tear(c, nextId) /\ nextId \in Nat
  BY DEF Create, Types, RequestsOK, TableOK
<1>2. /\ r.at = "return" /\ r.id = nextId /\ r.ok = TRUE /\ r.row = NewRow(c)
      /\ r.kind = "create" /\ r.api = req[c].api
  BY <1>1 DEF RequestType
<1> HIDE DEF r
<1>3. req'[c] = r
  BY <1>1 DEF Become
<1>4. NewRow(c) \in Row /\ NewRow(c).id = nextId /\ NewRow(c) # None
  BY <1>1, NewRowIs, NoneAssumption
<1>5. \A s \in todos : s.id # nextId
  BY DEF Types, TableOK, Row
<1>6. With(todos', nextId) = {NewRow(c)} /\ \A id : id # nextId => With(todos', id) = With(todos, id)
  BY <1>1, <1>4, <1>5 DEF With
<1>7. EventIs(req'[c], With(todos', nextId))
  BY <1>2, <1>3, <1>4, <1>6 DEF EventIs
<1>8. req[c].api \in {"rest", "graphql"}
  BY <1>1 DEF RequestType
<1> QED  BY <1>1, <1>2, <1>3, <1>6, <1>7, <1>8 DEF Writes, Write

LEMMA UpdateWrites ==
  ASSUME Types, NEW c \in Client, Update(c), Target(c) # {} PROVE Writes(c, req[c].id)
<1>1. PICK t \in Target(c) : /\ todos' = (todos \ {t}) \cup {Patched(t, req[c].patch)}
                             /\ Become(c, Updated(c, Patched(t, req[c].patch)))
                             /\ Tear(c, req[c].id)
  BY DEF Update
<1> DEFINE s == Patched(t, req[c].patch)
           r == Updated(c, s)
<1>2. req \in [Client -> RequestType] /\ req[c].kind \in {"update", "toggle"} /\ req[c].at = "write"
      /\ req[c].api \in {"rest", "graphql"}
  BY DEF Update, Types, RequestsOK, RequestType
<1>3. t \in todos /\ t.id = req[c].id /\ With(todos, req[c].id) = {t}
  BY TargetIs
<1>4. s \in Row /\ s.id = req[c].id /\ s # None
  <2>1. t \in Row /\ req[c].patch \in Patch
    BY <1>2, <1>3 DEF Types, TableOK, RequestType
  <2> QED  BY <1>3, <2>1, PatchedIs, NoneAssumption
<1>5. /\ r.id = req[c].id /\ r.kind = req[c].kind /\ r.api = req[c].api
      /\ r.at = "fetch" \/ (r.at = "return" /\ r.ok /\ r.row = s)
  <2> HIDE DEF s
  <2> QED  BY <1>2 DEF Updated, RequestType
<1>6. req'[c] = r
  BY <1>1, <1>2 DEF Become
<1> HIDE DEF r
<1>7. todos' = (todos \ {t}) \cup {s}
  BY <1>1
<1> HIDE DEF s
<1>8. With(todos', req[c].id) = {s} /\ \A id : id # req[c].id => With(todos', id) = With(todos, id)
  BY <1>3, <1>4, <1>7 DEF With
<1>9. EventIs(req'[c], With(todos', req[c].id))
  BY <1>4, <1>5, <1>6, <1>8 DEF EventIs
<1> QED  BY <1>1, <1>2, <1>5, <1>6, <1>8, <1>9 DEF Writes, Write

LEMMA DeleteWrites ==
  ASSUME Types, NEW c \in Client, Delete(c), Target(c) # {} PROVE Writes(c, req[c].id)
<1> DEFINE ok == Target(c) # {}
           r == [req[c] EXCEPT !.at = "return", !.ok = ok]
<1>1. /\ req \in [Client -> RequestType] /\ req[c].kind = "delete" /\ req[c].at = "write"
      /\ Become(c, r) /\ todos' = todos \ Target(c) /\ Tear(c, req[c].id)
      /\ req[c].api \in {"rest", "graphql"} /\ req[c].row = None
  BY DEF Delete, Types, RequestsOK, RequestIs, RequestType
<1>2. ok \in BOOLEAN /\ ok
  OBVIOUS
<1> HIDE DEF ok
<1>3. /\ r.at = "return" /\ r.id = req[c].id /\ r.ok = ok /\ r.row = None
      /\ r.kind = "delete" /\ r.api = req[c].api
  BY <1>1, <1>2 DEF RequestType
<1> HIDE DEF r
<1>4. req'[c] = r
  BY <1>1 DEF Become
<1>5. PICK t : t \in Target(c)
  OBVIOUS
<1>6. Target(c) = {t} /\ With(todos, req[c].id) = {t}
  BY <1>5, TargetIs
<1>7. With(todos', req[c].id) = {} /\ \A id : id # req[c].id => With(todos', id) = With(todos, id)
  BY <1>1, <1>6 DEF With
<1>8. EventIs(req'[c], With(todos', req[c].id))
  BY <1>3, <1>4, <1>7 DEF EventIs
<1> QED  BY <1>1, <1>2, <1>3, <1>4, <1>7, <1>8 DEF Writes, Write

LEMMA SettledSilent ==
  ASSUME Types, NEW c \in Client, Settles(c)
  PROVE  /\ \A id : ~Untold(c, id)'
         /\ UNCHANGED <<todos, nextId>> /\ \A d \in Client \ {c} : req'[d] = req[d]
<1>1. PICK r : /\ Quiet(c, r)
               /\ \/ r.at \in {"idle", "load", "write"} \/ r.kind \notin Write
                  \/ r.at = "return" /\ r.ok = FALSE
  <2>1. Doubted(c).at = "return" /\ Doubted(c).ok = FALSE
    BY DEF Doubted, Types, RequestsOK, RequestType
  <2> QED  BY <2>1 DEF Settles
<1>2. req'[c] = r /\ Evolves(c)
  BY <1>1, QuietEvolves
<1>3. \A id : ~Untold(c, id)'
  BY <1>1, <1>2 DEF Untold
<1> QED  BY <1>1, <1>2, <1>3 DEF Quiet, Evolves

\* A step that tells nothing and had nothing to tell.
LEMMA ViewSilent ==
  ASSUME Types, ViewInv, NEW c \in Client, Settles(c), UNCHANGED <<view, torn>>,
         \A id : ~Untold(c, id)
  PROVE  ViewInv'
<1>1. \A id \in 0..(nextId - 1) : ViewAt(id)'
  BY SettledSilent, ViewStays DEF ViewInv
<1> QED  BY <1>1, SettledSilent DEF ViewInv

LEMMA WriteView ==
  ASSUME Types, ViewInv, NEW c \in Client, Create(c) \/ Update(c) \/ Delete(c)
  PROVE  ViewInv'
<1>1. nextId \in Nat /\ Evolves(c)
  BY WriteEvolves DEF Types, TableOK
<1>2. CASE Create(c)
  <2>1. \A id \in 0..(nextId' - 1) : id # nextId => ViewAt(id)
    BY <1>1, <1>2 DEF Create, ViewInv
  <2>2. \A id \in 0..(nextId' - 1) : ViewAt(id)'
    BY <1>1, <1>2, <2>1, CreateWrites, ViewWritten
  <2> QED  BY <2>2 DEF ViewInv
<1>3. CASE (Update(c) \/ Delete(c)) /\ Target(c) # {}
  <2>1. nextId' = nextId
    BY <1>3 DEF Update, Delete
  <2>2. Writes(c, req[c].id)
    BY <1>3, UpdateWrites, DeleteWrites
  <2>3. \A id \in 0..(nextId - 1) : ViewAt(id)'
    BY <1>1, <2>2, ViewWritten DEF ViewInv
  <2> QED  BY <2>1, <2>3 DEF ViewInv
<1>4. CASE (Update(c) \/ Delete(c)) /\ Target(c) = {}
  <2>1. req[c].ok = FALSE /\ req[c].at = "write" /\ req[c] \in RequestType /\ req \in [Client -> RequestType]
    BY <1>4 DEF Update, Delete, Types, RequestsOK, RequestIs
  <2>2. UNCHANGED <<todos, nextId, view, torn>>
    <3>1. CASE Update(c)
      BY <1>4, <3>1 DEF Update
    <3>2. CASE Delete(c)
      BY <1>4, <3>2 DEF Delete
    <3> QED  BY <1>4, <3>1, <3>2
  <2>3. req'[c].ok = FALSE /\ req'[c].at = "return"
    <3>1. CASE Update(c)
      BY <1>4, <2>1, <3>1 DEF Update, Become, RequestType
    <3>2. CASE Delete(c)
      <4> DEFINE ok == Target(c) # {}
      <4>1. Become(c, [req[c] EXCEPT !.at = "return", !.ok = ok])
        BY <3>2 DEF Delete
      <4>2. ok = FALSE
        BY <1>4
      <4> HIDE DEF ok
      <4> QED  BY <2>1, <4>1, <4>2 DEF Become, RequestType
    <3> QED  BY <1>4, <3>1, <3>2
  <2>4. \A id : ~Untold(c, id) /\ ~Untold(c, id)'
    BY <2>1, <2>3 DEF Untold
  <2>5. \A d \in Client \ {c} : req'[d] = req[d]
    BY <1>1 DEF Evolves
  <2>6. \A id \in 0..(nextId - 1) : ViewAt(id)'
    BY <2>2, <2>4, <2>5, ViewStays DEF ViewInv
  <2> QED  BY <2>2, <2>6 DEF ViewInv
<1> QED  BY <1>2, <1>3, <1>4

LEMMA FetchView == ASSUME Types, ViewInv, NEW c \in Client, Fetch(c) PROVE ViewInv'
<1>1. /\ req \in [Client -> RequestType] /\ req[c].at = "fetch"
      /\ UNCHANGED <<todos, nextId, view, torn>> /\ req[c].ok = FALSE
  BY DEF Fetch, Types, RequestsOK, RequestIs
<1>2. \A d \in Client \ {c} : req'[d] = req[d]
  BY WriteEvolves DEF Evolves
<1>3. /\ req'[c].at = "return" /\ req'[c].id = req[c].id
      /\ req'[c].kind = req[c].kind /\ req'[c].api = req[c].api
  <2>1. PICK r : /\ Become(c, r)
                 /\ \/ r = [req[c] EXCEPT !.at = "return"]
                    \/ \E t : r = [req[c] EXCEPT !.at = "return", !.ok = TRUE, !.row = t]
    BY DEF Fetch
  <2>2. r.at = "return" /\ r.id = req[c].id /\ r.kind = req[c].kind /\ r.api = req[c].api
    BY <1>1, <2>1 DEF RequestType
  <2> QED  BY <1>1, <2>1, <2>2 DEF Become
<1>4. ASSUME NEW id \in 0..(nextId - 1) PROVE ViewAt(id)'
  <2>1. CASE ~Untold(c, id)
    <3>1. ~Untold(c, id)'
      BY <1>1, <1>3, <2>1 DEF Untold
    <3> QED  BY <1>1, <1>2, <1>4, <2>1, <3>1, ViewStays DEF ViewInv
  <2>2. CASE Untold(c, id)
    <3>1. SUFFICES ASSUME id \notin torn PROVE ViewAt(id)'
      BY <1>1 DEF ViewAt
    <3>2. EventDue(c, id) /\ id = req[c].id /\ ViewAt(id)
      BY <1>4, <2>2, <3>1 DEF ViewInv, ViewAt, Untold
    <3>3. With(todos, id) # {}
      BY <1>1, <3>2 DEF EventDue, EventIs
    <3>4. PICK t \in With(todos, id) : Become(c, [req[c] EXCEPT !.at = "return", !.ok = TRUE, !.row = t])
      BY <3>2, <3>3 DEF Fetch
    <3>5. With(todos, id) = {t} /\ t # None
      BY NoneAssumption DEF With, Types, TableOK
    <3>6. req'[c].ok = TRUE /\ req'[c].row = t
      BY <1>1, <3>4 DEF Become, RequestType
    <3>7. EventIs(req'[c], With(todos', id))
      BY <1>1, <1>3, <3>5, <3>6 DEF EventIs
    <3>8. \A d \in Client : Untold(d, id)' => d = c
      BY <1>2, <3>2 DEF EventDue, Untold
    <3>9. Untold(c, id)'
      BY <1>3, <2>2, <3>6 DEF Untold
    <3>10. EventDue(c, id)'
      BY <3>2, <3>7, <3>8 DEF EventDue
    <3> QED  BY <3>8, <3>9, <3>10 DEF ViewAt
  <2> QED  BY <2>1, <2>2
<1> QED  BY <1>1, <1>4 DEF ViewInv

LEMMA ReturnView == ASSUME Types, ViewInv, NEW c \in Client, Return(c) PROVE ViewInv'
<1>1. req[c].at = "return" /\ torn' = torn /\ Settles(c)
  BY ReturnDoes, ReturnSettles
<1>2. CASE ~Told(c)
  <2>1. view' = view /\ \A id : ~Untold(c, id)
    BY <1>1, <1>2, ReturnDoes DEF Told, Untold
  <2> QED  BY <1>1, <2>1, ViewSilent
<1>3. CASE Told(c)
  <2>1. Publish(c) /\ RequestIs(req[c], nextId, dbType)
    BY <1>3, ReturnDoes DEF Types, RequestsOK
  <2>2. req[c].row # None => req[c].row.id = req[c].id
    BY <2>1 DEF RequestIs
  <2>3. /\ \A id : ~Untold(c, id)'
        /\ UNCHANGED <<todos, nextId>> /\ \A d \in Client \ {c} : req'[d] = req[d]
    BY <1>1, SettledSilent
  <2>4. ASSUME NEW id \in 0..(nextId - 1) PROVE ViewAt(id)'
    <3>1. CASE id # req[c].id
      <4>1. With(view', id) = With(view, id) /\ With(todos', id) = With(todos, id)
        BY <2>1, <2>2, <2>3, <3>1 DEF Publish, With
      <4>2. ~Untold(c, id) /\ ~Untold(c, id)' /\ ViewAt(id)
        BY <2>3, <2>4, <3>1 DEF Untold, ViewInv
      <4> QED  BY <1>1, <2>3, <4>1, <4>2, ViewStays
    <3>2. CASE id = req[c].id
      <4>1. SUFFICES ASSUME id \notin torn PROVE ViewAt(id)'
        BY <1>1 DEF ViewAt
      <4>2. Untold(c, id)
        BY <1>1, <1>3, <3>2 DEF Told, Untold
      <4>3. EventDue(c, id)
        BY <2>4, <4>1, <4>2 DEF ViewInv, ViewAt
      <4>4. With(todos, id) = IF req[c].row = None THEN {} ELSE {req[c].row}
        BY <1>1, <4>3 DEF EventDue, EventIs
      <4>5. With(view', id) = With(todos', id)
        BY <2>1, <2>2, <2>3, <3>2, <4>1, <4>3, <4>4 DEF Publish, Tells, EventDue, With
      <4>6. \A d \in Client : ~Untold(d, id)'
        BY <2>3, <4>3 DEF EventDue, Untold
      <4> QED  BY <4>5, <4>6 DEF ViewAt
    <3> QED  BY <3>1, <3>2
  <2> QED  BY <2>3, <2>4 DEF ViewInv
<1> QED  BY <1>2, <1>3

LEMMA FailView == ASSUME Types, ViewInv, NEW c \in Client, Fail(c) PROVE ViewInv'
<1> DEFINE k == req[c].id
<1>1. Settles(c)
  BY FailSettles
<1>2. /\ \A id : ~Untold(c, id)'
      /\ UNCHANGED <<todos, nextId>> /\ \A d \in Client \ {c} : req'[d] = req[d]
  BY <1>1, SettledSilent
<1>3. CASE ~Untold(c, k)
  <2>1. UNCHANGED <<view, torn>> /\ \A id : ~Untold(c, id)
    BY <1>3, FailDoes DEF Untold
  <2> QED  BY <1>1, <2>1, ViewSilent
<1>4. CASE Untold(c, k)
  <2>1. LoseTrack(k)
    BY <1>4, FailDoes
  <2> HIDE DEF k
  <2>2. torn \subseteq torn' /\ k \in torn' /\ \A id : id # k => With(view', id) = With(view, id)
    BY <2>1, LoseTrackElsewhere
  <2>3. ASSUME NEW id \in 0..(nextId - 1) PROVE ViewAt(id)'
    <3>1. CASE id = k
      BY <2>2, <3>1 DEF ViewAt
    <3>2. CASE id # k
      <4>1. ~Untold(c, id) /\ ViewAt(id)
        BY <2>3, <3>2 DEF Untold, ViewInv, k
      <4> QED  BY <1>2, <2>2, <3>2, <4>1, ViewStays
    <3> QED  BY <3>1, <3>2
  <2> QED  BY <1>2, <2>3 DEF ViewInv
<1> QED  BY <1>3, <1>4

LEMMA ViewInit == Init => ViewInv
  BY DEF Init, ViewInv, ViewAt, Untold, Idle, With

LEMMA ViewStep == Types /\ ViewInv /\ [Next]_vars => ViewInv'
<1> SUFFICES ASSUME Types, ViewInv, [Next]_vars PROVE ViewInv'
  OBVIOUS
<1>1. CASE UNCHANGED vars
  BY <1>1 DEF vars, ViewInv, ViewAt, EventDue, Untold, With
<1>2. ASSUME NEW c \in Client, Call(c) \/ Step(c) \/ Fail(c) PROVE ViewInv'
  <2>1. CASE Create(c) \/ Update(c) \/ Delete(c)
    BY <2>1, WriteView
  <2>2. CASE Fetch(c) \/ Return(c) \/ Fail(c)
    BY <2>2, FetchView, ReturnView, FailView
  <2>3. CASE Call(c) \/ ReadRows(c) \/ ReadCount(c) \/ FindById(c) \/ FindAll(c) \/ TodoQuery(c) \/ Load(c)
    <3>1. req[c].at \in {"idle", "rows", "count", "load"} /\ UNCHANGED <<view, torn>>
      BY <2>3 DEF Call, RestCall, MutationCall, ReadRows, ReadCount, FindById, FindAll, TodoQuery,
                  Load, Active
    <3>2. ~Create(c) /\ ~Update(c) /\ ~Fetch(c) /\ ~Delete(c)
      BY <3>1 DEF Create, Update, Fetch, Delete
    <3>3. Settles(c)
      BY <1>2, <3>2, StepKinds
    <3>4. \A id : ~Untold(c, id)
      BY <3>1 DEF Untold
    <3> QED  BY <3>1, <3>3, <3>4, ViewSilent
  <2> QED  BY <1>2, <2>1, <2>2, <2>3 DEF Step
<1> QED  BY <1>1, <1>2 DEF Next

\* Whatever the order of writes, answers and events, a subscriber that applies
\* the events in order has every todo as it is once the events on it are out,
\* unless the writes on it overlapped, went past its instance, or failed.
THEOREM SubscribersFollow == Spec => []ViewFollows
<1>1. ViewInv => ViewFollows
  BY DEF ViewInv, ViewAt, ViewFollows
<1> QED  BY <1>1, AlwaysTypes, StepTypes, ViewInit, ViewStep, PTL DEF Spec
=============================================================================
