------------------------------- MODULE Todos -------------------------------
(***************************************************************************)
(* Todos as clients see them: the REST routes of routes/todos.ts and the   *)
(* GraphQL resolvers of graphql/resolvers/todo.resolvers.ts, with the      *)
(* loader of their request and the events for subscribers, on top of       *)
(* PrismaTodoRepository or MongooseTodoRepository.  A step of a client is  *)
(* one query at the moment the database runs it, or the code that runs     *)
(* when its result is back (Return).                                       *)
(***************************************************************************)
EXTENDS Integers, FiniteSets

CONSTANTS
  Client,     \* requests in progress at the same time, on all instances
  Owner,      \* the user each client is signed in as
  Local,      \* the clients served by the instance of the subscriber below
  User, Title, None,
  Input,      \* what clients send for a new todo
  Change,     \* what clients send to change one, None for a field left out
  Limit,      \* the page size asked for
  BatchTake,  \* the rows that a look-up of all todos takes: 1000
  MaxSize     \* bound: todos ever created, and fields of the GraphQL mutations
              \* in progress that follow another field

ASSUME OwnerAssumption == Owner \in [Client -> User]
ASSUME SizeAssumption ==
  /\ Limit \in Nat \ {0} /\ BatchTake \in Nat
  /\ MaxSize \in Nat

VARIABLES
  dbType,  \* DB_TYPE, which picks the repository for good
  todos,   \* the rows of the table, or documents of the collection
  nextId,  \* todos created so far; a larger id is a later createdAt
  req,     \* what each client's request is doing, with its local variables
  view,    \* what a subscriber to todoChanged makes of the events it gets,
           \* the todos in torn left out
  torn,    \* history: ids whose events need not come in order, or at all
  fresh,   \* history: the rows a request is about, as they have been since
           \* it began, without the versions its own writes have replaced
  kept,    \* history: those that have been in the table all the time
  moved    \* history: pages between whose queries a todo came or went

vars == <<dbType, todos, nextId, req, view, torn, fresh, kept, moved>>

Row == [id : Nat, user : User, title : Title, completed : BOOLEAN]
Patch == [title : Title \cup {None}, completed : BOOLEAN \cup {None}]
NoPatch == [title |-> None, completed |-> None]
Entry == [id : Nat, row : Row \cup {None}]

ASSUME NoneAssumption == None \notin Title \cup BOOLEAN \cup User \cup Row
ASSUME InputAssumption ==
  /\ Input \subseteq {p \in Patch : p.title # None /\ p.completed # None}
  /\ Change \subseteq Patch

Kind == {"none", "page", "get", "list", "load", "create", "update", "delete", "toggle"}
Write == {"create", "update", "delete", "toggle"}

\* cache is the loader's; data and total are a page and its meta.total; before
\* counts the fields of the operation that are done; doubt is history.
Idle ==
  [api |-> "rest", kind |-> "none", at |-> "idle", id |-> 0, patch |-> NoPatch,
   page |-> 1, ok |-> FALSE, row |-> None, data |-> {}, total |-> 0,
   cache |-> {}, before |-> 0, doubt |-> FALSE]

Become(c, r) == req' = [req EXCEPT ![c] = r]
Finish(c) == Become(c, Idle)
Active(c) == req[c].at # "idle"

Init ==
  /\ dbType \in {"postgres", "mongodb"}
  /\ todos = {} /\ nextId = 0
  /\ req = [c \in Client |-> Idle]
  /\ view = {} /\ torn = {}
  /\ fresh = [c \in Client |-> {}]
  /\ kept = [c \in Client |-> {}]
  /\ moved = {}

Ids(table) == {r.id : r \in table}
With(table, id) == {r \in table : r.id = id}
RowsOf(table, u) == {r \in table : r.user = u}

\* `where': toggleTodo alone gives no user.
Seen(c) == IF req[c].kind = "toggle" THEN todos ELSE RowsOf(todos, Owner[c])
Target(c) == With(Seen(c), req[c].id)

Patched(r, p) ==
  [id |-> r.id, user |-> r.user,
   title |-> IF p.title = None THEN r.title ELSE p.title,
   completed |-> IF p.completed = None THEN r.completed ELSE p.completed]

\* Newest first, `skip' of them left out, at most `take' returned.
Newest(table, skip, take) ==
  {r \in table : Cardinality({s \in table : s.id > r.id}) \in skip..(skip + take - 1)}

-----------------------------------------------------------------------------
(***************************************************************************)
(* Requests that write.  authenticate and validation are in front of them; *)
(* ids are of todos that the client may have heard of.                     *)
(***************************************************************************)
Request(api, kind, id, patch, cache, before, doubt) ==
  [Idle EXCEPT !.api = api, !.kind = kind, !.at = IF kind = "toggle" THEN "load" ELSE "write",
     !.id = id, !.patch = patch, !.cache = cache, !.before = before, !.doubt = doubt]

Known == 0..(nextId - 1)

\* The bound leaves room for n more todos and fields.
Room(n) ==
  nextId + Cardinality({d \in Client : req[d].kind = "create" /\ req[d].at = "write"})
    + Cardinality(UNION {{d} \X (1..req[d].before) : d \in Client}) + n <= MaxSize

\* router.post('/'), put('/:id'), delete('/:id').
RestCall(c) ==
  LET Begin(kind, id, patch) == Become(c, Request("rest", kind, id, patch, {}, 0, FALSE)) IN
  /\ ~Active(c)
  /\ \/ \E p \in Input : Room(1) /\ Begin("create", 0, p)
     \/ \E id \in Known, p \in Change \ {NoPatch} : Begin("update", id, p)
     \/ \E id \in Known : Begin("delete", id, NoPatch)

\* A field of type Mutation.
Field(c, cache, before, doubt) ==
  LET Begin(kind, id, patch) ==
        Become(c, Request("graphql", kind, id, patch, cache, before, doubt))
  IN
  \/ \E id \in Known : Begin("toggle", id, NoPatch) \/ Begin("delete", id, NoPatch)
  \/ \E p \in Input : Room(1 + before - req[c].before) /\ Begin("create", 0, p)
  \/ \E id \in Known, p \in Change : Begin("update", id, p)

\* The context of an operation, and with it the loader, is made per request.
MutationCall(c) ==
  /\ ~Active(c)
  /\ Field(c, {}, 0, FALSE)

\* The end of a request, or of a field: the fields of a mutation run one after
\* the other, with one context.
EndField(c, cache, doubt) ==
  \/ Finish(c)
  \/ /\ req[c].api = "graphql" /\ req[c].kind \in Write
     /\ Room(1)
     /\ Field(c, cache, req[c].before + 1, doubt)

-----------------------------------------------------------------------------
(***************************************************************************)
(* Reads.  A request that only reads begins with its first query: what it  *)
(* does before that, no other can tell.                                    *)
(***************************************************************************)
\* The row with that id, or None.
Found(table, id) ==
  {[id |-> id, row |-> r] : r \in With(table, id)} \cup
  (IF id \in Ids(table) THEN {} ELSE {[id |-> id, row |-> None]})

Answered(api, kind, e, cache) ==
  [Idle EXCEPT !.api = api, !.kind = kind, !.at = "return", !.id = e.id,
     !.ok = (e.row # None), !.row = e.row, !.cache = cache]

Page == 1..2
Skip(page) == (page - 1) * Limit

\* findAll with skip, take and the user.
ReadRows(c) ==
  /\ \/ /\ ~Active(c)
        /\ \E p \in Page :
             Become(c, [Idle EXCEPT !.kind = "page", !.at = "count", !.page = p,
                          !.data = Newest(Seen(c), Skip(p), Limit)])
     \/ /\ req[c].at = "rows"
        /\ Become(c, [req[c] EXCEPT !.data = Newest(Seen(c), Skip(req[c].page), Limit),
                                    !.at = "return"])
  /\ UNCHANGED <<dbType, todos, nextId, view, torn>>

\* count, which router.get('/') starts together with findAll (Promise.all):
\* the database may run the two in either order.
ReadCount(c) ==
  /\ \/ /\ ~Active(c)
        /\ \E p \in Page :
             Become(c, [Idle EXCEPT !.kind = "page", !.at = "rows", !.page = p,
                          !.total = Cardinality(Seen(c))])
     \/ /\ req[c].at = "count"
        /\ Become(c, [req[c] EXCEPT !.total = Cardinality(Seen(c)), !.at = "return"])
  /\ UNCHANGED <<dbType, todos, nextId, view, torn>>

\* router.get('/:id'): findById, with the user.
FindById(c) ==
  /\ ~Active(c)
  /\ \E id \in Known : \E e \in Found(Seen(c), id) :
       Become(c, Answered("rest", "get", e, {}))
  /\ UNCHANGED <<dbType, todos, nextId, view, torn>>

\* Fault: the page is cut before the filter.
FindAllFilteringLast(c) ==
  /\ ~Active(c)
  /\ \E p \in Page, done \in BOOLEAN \cup {None} :
       LET wanted(rows) == {r \in rows : done \in {None, r.completed}} IN
       Become(c, [Idle EXCEPT !.api = "graphql", !.kind = "list", !.at = "return", !.page = p,
                    !.data = wanted(Newest(Seen(c), Skip(p), Limit)),
                    !.total = Cardinality(wanted(Seen(c)))])
  /\ UNCHANGED <<dbType, todos, nextId, view, torn>>

\* The todos query reads the newest 1000 once, then filters, counts and cuts
\* the page out of what it read.
FindAll(c) ==
  /\ ~Active(c)
  /\ \E p \in Page, done \in BOOLEAN \cup {None} :
       LET wanted == {r \in Newest(Seen(c), 0, BatchTake) : done \in {None, r.completed}} IN
       Become(c, [Idle EXCEPT !.api = "graphql", !.kind = "list", !.at = "return", !.page = p,
                    !.data = Newest(wanted, Skip(p), Limit), !.total = Cardinality(wanted)])
  /\ UNCHANGED <<dbType, todos, nextId, view, torn>>

\* Fault: page one is taken to begin at the second row.
BatchSkipping == IF dbType = "postgres" THEN {} ELSE Newest(todos, 1, BatchTake)

\* batchLoadTodos gives findAll no user: the Prisma repository then answers
\* with an empty list, the Mongoose one with the newest of all users.
Batch == IF dbType = "postgres" THEN {} ELSE Newest(todos, 0, BatchTake)

Cached(c) == With(req[c].cache, req[c].id)

\* The todo query: todoLoader.load, in a request that has loaded nothing yet.
TodoQuery(c) ==
  /\ ~Active(c)
  /\ \E id \in Known : \E e \in Found(Batch, id) :
       Become(c, Answered("graphql", "load", e, {e}))
  /\ UNCHANGED <<dbType, todos, nextId, view, torn>>

\* Fault: toggleTodo completes the todo.
CompleteTodo(c, e, cache) ==
  IF e.row = None THEN EndField(c, cache, req[c].doubt)
  ELSE Become(c, [req[c] EXCEPT !.at = "write", !.cache = cache,
                    !.patch = [title |-> None, completed |-> TRUE]])

\* toggleTodo goes on with the negation of what it was given, or throws.
ToggleTodo(c, e, cache) ==
  IF e.row = None THEN EndField(c, cache, req[c].doubt)
  ELSE Become(c, [req[c] EXCEPT !.at = "write", !.cache = cache,
                    !.patch = [title |-> None, completed |-> ~e.row.completed]])

\* todoLoader.load: the cached value, null included, or that of a batch.
Load(c) ==
  /\ req[c].at = "load"
  /\ \E e \in IF Cached(c) = {} THEN Found(Batch, req[c].id) ELSE Cached(c) :
       ToggleTodo(c, e, req[c].cache \cup {e})
  /\ UNCHANGED <<dbType, todos, nextId, view, torn>>

-----------------------------------------------------------------------------
(***************************************************************************)
(* The writes.                                                             *)
(***************************************************************************)

\* A mutation whose write the database has run and no event has told of.
Untold(d, id) ==
  /\ req[d].api = "graphql" /\ req[d].kind \in Write /\ req[d].id = id
  /\ req[d].at = "fetch" \/ (req[d].at = "return" /\ req[d].ok)

LoseTrack(id) ==
  /\ torn' = torn \cup {id}
  /\ view' = view \ With(view, id)

\* A write on the way of another, through REST or on another instance.
Tear(c, id) ==
  IF \/ req[c].api = "rest" \/ c \notin Local
     \/ \E d \in Client \ {c} : Untold(d, id)
  THEN LoseTrack(id) ELSE UNCHANGED <<view, torn>>

\* Fault: ids are given by the number of rows.
NewRowByCount(c) ==
  [id |-> Cardinality(todos), user |-> Owner[c], title |-> req[c].patch.title,
   completed |-> req[c].patch.completed]

NewRow(c) ==
  [id |-> nextId, user |-> Owner[c], title |-> req[c].patch.title,
   completed |-> req[c].patch.completed]

Create(c) ==
  /\ req[c].at = "write" /\ req[c].kind = "create"
  /\ todos' = todos \cup {NewRow(c)}
  /\ nextId' = nextId + 1
  /\ Become(c, [req[c] EXCEPT !.at = "return", !.id = nextId, !.ok = TRUE, !.row = NewRow(c)])
  /\ Tear(c, nextId)
  /\ UNCHANGED dbType

\* updateMany is to be followed by findUnique; findOneAndUpdate answers with
\* the row it has written.
Updated(c, r) ==
  IF dbType = "postgres" THEN [req[c] EXCEPT !.at = "fetch"]
  ELSE [req[c] EXCEPT !.at = "return", !.ok = TRUE, !.row = r]

\* Fault: counting the rows changed instead of the rows matched.
UpdateIfChanged(c) ==
  /\ req[c].at = "write" /\ req[c].kind \in {"update", "toggle"}
  /\ \/ /\ \A r \in Target(c) : Patched(r, req[c].patch) = r
        /\ Become(c, [req[c] EXCEPT !.at = "return"])
        /\ UNCHANGED <<todos, view, torn>>
     \/ \E r \in Target(c) :
          /\ Patched(r, req[c].patch) # r
          /\ todos' = (todos \ {r}) \cup {Patched(r, req[c].patch)}
          /\ Become(c, Updated(c, Patched(r, req[c].patch)))
          /\ Tear(c, req[c].id)
  /\ UNCHANGED <<dbType, nextId>>

\* Fault: an update that inserts what it does not find.
Upsert(c) ==
  /\ req[c].at = "write" /\ req[c].kind \in {"update", "toggle"}
  /\ LET old == IF Target(c) = {}
                THEN {[id |-> req[c].id, user |-> Owner[c], title |-> t, completed |-> FALSE] :
                        t \in Title}
                ELSE Target(c)
     IN \E r \in old :
          /\ todos' = (todos \ {r}) \cup {Patched(r, req[c].patch)}
          /\ Become(c, [req[c] EXCEPT !.at = "return", !.ok = TRUE,
                                      !.row = Patched(r, req[c].patch)])
          /\ Tear(c, req[c].id)
  /\ UNCHANGED <<dbType, nextId>>

\* updateMany or findOneAndUpdate, with the user where there is one.
Update(c) ==
  /\ req[c].at = "write" /\ req[c].kind \in {"update", "toggle"}
  /\ \/ /\ Target(c) = {}
        /\ Become(c, [req[c] EXCEPT !.at = "return"])
        /\ UNCHANGED <<todos, view, torn>>
     \/ \E r \in Target(c) :
          /\ todos' = (todos \ {r}) \cup {Patched(r, req[c].patch)}
          /\ Become(c, Updated(c, Patched(r, req[c].patch)))
          /\ Tear(c, req[c].id)
  /\ UNCHANGED <<dbType, nextId>>

\* The second query of PrismaTodoRepository.update finds the row by its id
\* alone, as it is by now.
Fetch(c) ==
  /\ req[c].at = "fetch"
  /\ \/ /\ With(todos, req[c].id) = {}
        /\ Become(c, [req[c] EXCEPT !.at = "return"])
     \/ \E r \in With(todos, req[c].id) :
          Become(c, [req[c] EXCEPT !.at = "return", !.ok = TRUE, !.row = r])
  /\ UNCHANGED <<dbType, todos, nextId, view, torn>>

\* Fault: delete answers true without looking at the count.
DeleteBlindly(c) ==
  /\ req[c].at = "write" /\ req[c].kind = "delete"
  /\ todos' = todos \ Target(c)
  /\ Become(c, [req[c] EXCEPT !.at = "return", !.ok = TRUE])
  /\ IF Target(c) = {} THEN UNCHANGED <<view, torn>> ELSE Tear(c, req[c].id)
  /\ UNCHANGED <<dbType, nextId>>

\* deleteMany, or findOneAndDelete: true if there was one.
Delete(c) ==
  /\ req[c].at = "write" /\ req[c].kind = "delete"
  /\ todos' = todos \ Target(c)
  /\ Become(c, [req[c] EXCEPT !.at = "return", !.ok = (Target(c) # {})])
  /\ IF Target(c) = {} THEN UNCHANGED <<view, torn>> ELSE Tear(c, req[c].id)
  /\ UNCHANGED <<dbType, nextId>>

-----------------------------------------------------------------------------
(***************************************************************************)
(* Answers.                                                                *)
(***************************************************************************)

\* Fault: prime without clear, which leaves an entry that is there alone.
PrimeOnly(c) ==
  IF req[c].row = None THEN req[c].cache
  ELSE req[c].cache \cup
         (IF Cached(c) = {} THEN {[id |-> req[c].id, row |-> req[c].row]} ELSE {})

\* todoLoader.clear and prime: the answer takes the place of the entry.
\* createTodo primes only, but no entry can have the id of a new todo.
Primed(c) ==
  (req[c].cache \ Cached(c)) \cup
    (IF req[c].row = None THEN {} ELSE {[id |-> req[c].id, row |-> req[c].row]})

Tells(c) == c \in Local /\ req[c].id \notin torn

\* Fault: deleteTodo publishes nothing.
PublishRowsOnly(c) ==
  view' = IF Tells(c) /\ req[c].row # None
          THEN (view \ With(view, req[c].id)) \cup {req[c].row} ELSE view

\* publishTodoCreated, publishTodoUpdated or publishTodoDeleted, on the
\* in-memory PubSub of the instance that serves the client.
Publish(c) ==
  view' = IF Tells(c)
          THEN (view \ With(view, req[c].id)) \cup
                 (IF req[c].row = None THEN {} ELSE {req[c].row})
          ELSE view

\* The result is back: GraphQL mutations that did something bring the loader
\* up to date and publish; then the answer, 404 or null if there is none.
Return(c) ==
  /\ req[c].at = "return"
  /\ IF req[c].api = "graphql" /\ req[c].kind \in Write /\ req[c].ok
     THEN Publish(c) /\ EndField(c, Primed(c), req[c].doubt)
     ELSE UNCHANGED view /\ EndField(c, req[c].cache, req[c].doubt)
  /\ UNCHANGED <<dbType, todos, nextId, torn>>

\* The database is asked, or its result has not arrived yet.
Waits(c) ==
  \/ req[c].at \in {"rows", "count", "write", "fetch"}
  \/ req[c].at = "load" /\ Cached(c) = {}
  \/ req[c].at = "return" /\ req[c].kind \in Write /\ req[c].ok

\* PrismaTodoRepository turns a rejected update or delete into null or false.
Swallowed(c) ==
  /\ dbType = "postgres"
  /\ req[c].kind \in {"update", "toggle", "delete"} /\ req[c].at # "load"

\* A query is rejected, before or after the database ran it.  Otherwise the
\* error is answered: 500, or a null field, which for the fields that cannot
\* be null is the end of the operation.
Fail(c) ==
  /\ Waits(c)
  /\ IF Swallowed(c)
     THEN Become(c, [req[c] EXCEPT !.at = "return", !.ok = FALSE, !.row = None, !.doubt = TRUE])
     ELSE IF req[c].kind \in {"create", "delete"} THEN Finish(c)
     ELSE EndField(c, req[c].cache, TRUE)
  /\ IF Untold(c, req[c].id) THEN LoseTrack(req[c].id) ELSE UNCHANGED <<view, torn>>
  /\ UNCHANGED <<dbType, todos, nextId>>

-----------------------------------------------------------------------------
Call(c) ==
  /\ RestCall(c) \/ MutationCall(c)
  /\ UNCHANGED <<dbType, todos, nextId, view, torn>>

Step(c) ==
  \/ ReadRows(c) \/ ReadCount(c) \/ FindById(c) \/ FindAll(c) \/ TodoQuery(c) \/ Load(c)
  \/ Create(c) \/ Update(c) \/ Fetch(c) \/ Delete(c) \/ Return(c)

\* The todos that a request has an answer for, or a copy of.
About(r, id) ==
  \/ r.at \in {"fetch", "return"} /\ r.kind \in Write \cup {"load"} /\ id = r.id
  \/ id \in Ids(r.cache)

\* Bookkeeping of the histories.
Remember ==
  /\ fresh' = [d \in Client |->
       {r \in todos' : About(req'[d], r.id)} \cup
       {r \in fresh[d] : /\ About(req'[d], r.id)
                         /\ req'[d] # req[d] => r.id \notin Ids(todos \ todos')}]
  /\ kept' = [d \in Client |->
       {id \in Ids(todos') : About(req'[d], id) /\ (About(req[d], id) => id \in kept[d])}]
  /\ moved' = {d \in Client : /\ req'[d].kind = "page" /\ req[d].kind = "page"
                              /\ d \in moved \/ Ids(RowsOf(todos', Owner[d])) # Ids(RowsOf(todos, Owner[d]))}

Next == (\E c \in Client : Call(c) \/ Step(c) \/ Fail(c)) /\ Remember

Spec == Init /\ [][Next]_vars
-----------------------------------------------------------------------------
(***************************************************************************)
(* What clients and subscribers can rely on.                               *)
(***************************************************************************)

\* Every variable has its type, ids identify rows, no row or copy of one has an
\* id that is yet to come, and a request is at a step of its kind.
RequestOK(c) ==
  LET r == req[c] IN
  /\ r.at = "idle" => r = Idle
  /\ r.at \in {"rows", "count"} => r.kind = "page"
  /\ r.at = "load" => r.kind = "toggle"
  /\ r.at = "fetch" => r.kind \in {"update", "toggle"} /\ dbType = "postgres"
  /\ r.at = "write" => r.kind \in Write
  /\ r.kind \in {"update", "toggle", "delete", "get", "load"} => r.id < nextId
  /\ \A e \in r.cache : e.id < nextId /\ (e.row # None => e.row.id = e.id)
  /\ r.row # None => r.row.id = r.id

TypeOK ==
  /\ dbType \in {"postgres", "mongodb"}
  /\ todos \in SUBSET Row /\ nextId \in Nat
  /\ req \in [Client ->
       [api : {"rest", "graphql"}, kind : Kind,
        at : {"idle", "rows", "count", "load", "write", "fetch", "return"},
        id : Nat, patch : Patch, page : Nat, ok : BOOLEAN, row : Row \cup {None},
        data : SUBSET Row, total : Nat, cache : SUBSET Entry, before : Nat, doubt : BOOLEAN]]
  /\ view \in SUBSET Row /\ torn \in SUBSET Nat
  /\ fresh \in [Client -> SUBSET Row] /\ kept \in [Client -> SUBSET Nat]
  /\ moved \subseteq Client
  /\ Ids(todos) \cup Ids(view) \cup torn \subseteq 0..(nextId - 1)
  /\ \A r, s \in todos : r.id = s.id => r = s
  /\ \A c \in Client : RequestOK(c)

\* The call of the abstract store that a request is in the middle of.
CallOf(c) ==
  LET r == req[c] IN
  IF r.kind \notin Write \/ r.at = "load" THEN [phase |-> "idle"]
  ELSE [phase |-> CASE r.at = "write" -> "called"
                    [] r.at = "fetch" -> "applied"
                    [] OTHER -> IF r.ok THEN "yes" ELSE IF r.doubt THEN "unknown" ELSE "no",
        kind |-> IF r.kind = "toggle" THEN "update" ELSE r.kind,
        id |-> IF r.kind = "create" THEN 0 ELSE r.id,
        patch |-> r.patch,
        user |-> IF r.kind = "toggle" THEN None ELSE Owner[c]]

Store == INSTANCE TodoStore WITH call <- [c \in Client |-> CallOf(c)]

\* Both repositories implement the store: however requests interleave and
\* queries fail, each call takes effect at most once, on one todo and the
\* fields it gives, and a positive answer means that it did.
StoreSpec == Store!Spec

\* What a request hands out (its answer, its event, what its loader keeps) was
\* the state of that todo at some moment since the request began, and after
\* the latest of its own writes: nothing invented, nothing older.  A request
\* one of whose queries was rejected is excepted.
AnswersFresh ==
  \A c \in Client : ~req[c].doubt =>
    /\ req[c].kind \in Write /\ req[c].row # None => req[c].row \in fresh[c]
    /\ \A e \in req[c].cache :
         e.row # None /\ e.id \in Ids(todos) /\ ~Untold(c, e.id) => e.row \in fresh[c]

\* A request told that there is no such todo: at some moment there was none of
\* that user, unless a query was rejected (the Prisma repository does not tell
\* the two apart).
NotFoundTrue ==
  \A c \in Client :
    /\ req[c].at = "return" /\ ~req[c].ok /\ ~req[c].doubt
    /\ req[c].kind \in {"update", "toggle", "delete"} /\ req[c].id \in kept[c]
    => \A r \in With(todos, req[c].id) : r.user # Owner[c]

\* Of several deletions of one todo exactly one is answered as done.
DeletedOnce ==
  \A c, d \in Client :
    /\ req[c].at = "return" /\ req[c].kind = "delete" /\ req[c].ok
    => /\ req[c].id \notin Ids(todos)
       /\ d # c /\ req[d].at = "return" /\ req[d].kind = "delete" /\ req[d].ok
            => req[d].id # req[c].id

PageLength(c) ==
  LET left == req[c].total - Skip(req[c].page) IN
  IF left < 0 THEN 0 ELSE IF left > Limit THEN Limit ELSE left

\* A page is as long as its total says: always for GraphQL, which reads once,
\* and for REST, which reads twice, unless a todo of the user comes or goes between.
PageAgrees ==
  \A c \in Client :
    /\ req[c].at = "return"
    /\ req[c].kind \in {"page", "list"} /\ c \notin moved
    => Cardinality(req[c].data) = PageLength(c)

\* toggleTodo reads before an await and writes after it; still, it flips the
\* todo unless somebody else's write comes between (then one is lost).
ToggleFlips ==
  \A c \in Client :
    /\ req[c].at = "write" /\ req[c].kind = "toggle" /\ ~req[c].doubt
    /\ With(fresh[c], req[c].id) = With(todos, req[c].id)
    => \A r \in Target(c) : req[c].patch.completed = ~r.completed

Missing(c) == {e.id : e \in {f \in req[c].cache : f.row = None}}

\* On MongoDB the loader gives null only for todos that were not there at some
\* moment, or had at least BatchTake newer ones.
LoaderFinds ==
  dbType = "mongodb" =>
    \A c \in Client : \A id \in Missing(c) : id \notin kept[c] \/ id + BatchTake < nextId

\* __tests__/todos-graphql.test.ts:295-313, "should toggle todo completion
\* status": a todo that is there, and not too old, is found.
LoaderAlwaysFinds ==
  \A c \in Client : \A id \in Missing(c) : id \notin kept[c] \/ id + BatchTake < nextId

\* A subscriber that applies the events in order has the true todo, as soon as
\* the events of all writes to it are out: provided that every write to it was
\* a mutation on the subscriber's instance, no two of them overlapped and
\* none was left without an answer (torn names the others).
ViewFollows ==
  \A id \in 0..(nextId - 1) :
    id \notin torn /\ (\A d \in Client : ~Untold(d, id)) => With(view, id) = With(todos, id)
=============================================================================
