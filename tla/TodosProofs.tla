---------------------------- MODULE TodosProofs -----------------------------
(***************************************************************************)
(* Todos, for any number of clients, users and todos and any page size:    *)
(* types, the abstract store, and what clients and subscribers rely on.    *)
(***************************************************************************)
EXTENDS Todos, FiniteSetTheorems, TLAPS

RequestType ==
  [api : {"rest", "graphql"}, kind : Kind,
   at : {"idle", "rows", "count", "load", "write", "fetch", "return"},
   id : Nat, patch : Patch, page : Nat, ok : BOOLEAN, row : Row \cup {None},
   data : SUBSET Row, total : Nat, cache : SUBSET Entry, before : Nat, doubt : BOOLEAN]

\* What a loader may keep when n todos have been created.
CacheIs(cache, n) ==
  \A e \in cache : e \in Entry /\ e.id < n /\ (e.row # None => e.row.id = e.id)

\* What TypeOK says of a request when n todos have been created, and more: a
\* new todo is complete, and has its id as soon as it is written; nothing but
\* an answer has a row; REST has no loader, and queries of one user's todos use
\* none; and a toggle writes the negation of what its loader gave.
RequestIs(r, n, db) ==
  /\ r \in RequestType
  /\ r.at = "idle" => r = Idle
  /\ r.at \in {"rows", "count"} => r.kind = "page"
  /\ r.at = "load" => r.kind = "toggle"
  /\ r.at = "fetch" => r.kind \in {"update", "toggle"} /\ db = "postgres"
  /\ r.at = "write" => r.kind \in Write
  /\ r.kind = "toggle" => r.api = "graphql"
  /\ r.kind \in {"update", "toggle", "delete", "get", "load"} => r.id < n
  /\ r.kind = "create" =>
       /\ r.at \in {"write", "return"} /\ (r.at = "return" => r.id < n)
       /\ r.patch.title # None /\ r.patch.completed # None
  /\ r.at # "return" => r.ok = FALSE /\ r.row = None
  /\ r.api = "rest" \/ r.kind \in {"page", "list", "get"} => r.cache = {}
  /\ CacheIs(r.cache, n)
  /\ r.row # None => r.row.id = r.id
  /\ r.at = "write" /\ r.kind = "toggle" =>
       \E e \in r.cache : e.id = r.id /\ e.row # None /\ r.patch.completed = ~e.row.completed

TableOK ==
  /\ todos \in SUBSET Row /\ nextId \in Nat /\ IsFiniteSet(todos)
  /\ \A r \in todos : r.id < nextId
  /\ \A r, s \in todos : r.id = s.id => r = s

ViewOK ==
  /\ view \in SUBSET Row /\ \A r \in view : r.id < nextId
  /\ torn \in SUBSET Nat /\ \A id \in torn : id < nextId

HistoryOK ==
  fresh \in [Client -> SUBSET Row] /\ kept \in [Client -> SUBSET Nat] /\ moved \in SUBSET Client

RequestsOK ==
  /\ dbType \in {"postgres", "mongodb"}
  /\ req \in [Client -> RequestType]
  /\ \A c \in Client : RequestIs(req[c], nextId, dbType)

Types == TableOK /\ ViewOK /\ HistoryOK /\ RequestsOK

-----------------------------------------------------------------------------
(***************************************************************************)
(* Types.                                                                  *)
(***************************************************************************)

LEMMA SubsetsFinite ==
  ASSUME NEW S, IsFiniteSet(S), NEW A \in SUBSET S
  PROVE  IsFiniteSet(A) /\ Cardinality(A) \in Nat
  BY FS_Subset, FS_CardinalityType

LEMMA IdleIs == ASSUME NEW n \in Nat, NEW db PROVE RequestIs(Idle, n, db) /\ Idle.at = "idle"
<1>1. NoPatch \in Patch
  BY DEF NoPatch, Patch
<1>2. Idle \in RequestType
  BY <1>1 DEF Idle, RequestType, Kind
<1> QED  BY <1>2 DEF RequestIs, Idle, CacheIs

LEMMA HistoryStep == ASSUME HistoryOK, TableOK', Remember PROVE HistoryOK'
<1>1. fresh' \in [Client -> SUBSET Row]
  BY DEF HistoryOK, TableOK, Remember
<1>2. kept' \in [Client -> SUBSET Nat]
  <2>1. \A r \in todos' : r.id \in Nat
    BY DEF TableOK, Row
  <2> QED  BY <2>1 DEF Remember, Ids
<1>3. moved' \in SUBSET Client
  BY DEF Remember
<1> QED  BY <1>1, <1>2, <1>3 DEF HistoryOK

LEMMA RequestIsMonotone ==
  ASSUME NEW n \in Nat, NEW m \in Nat, n <= m, NEW db, NEW r, RequestIs(r, n, db)
  PROVE  RequestIs(r, m, db)
<1>1. r \in RequestType /\ r.id \in Nat /\ \A e \in r.cache : e.id \in Nat
  BY DEF RequestIs, RequestType, Entry
<1>2. CacheIs(r.cache, m)
  BY <1>1 DEF RequestIs, CacheIs
<1> QED  BY <1>1, <1>2 DEF RequestIs

LEMMA RequestsStep ==
  ASSUME RequestsOK, NEW c \in Client, NEW r, Become(c, r), UNCHANGED dbType,
         nextId \in Nat, nextId' \in Nat, nextId <= nextId', RequestIs(r, nextId', dbType)
  PROVE  RequestsOK'
<1>1. r \in RequestType
  BY DEF RequestIs
<1>2. req' \in [Client -> RequestType]
  BY <1>1 DEF RequestsOK, Become
<1>3. \A d \in Client : RequestIs(req'[d], nextId', dbType)
  BY RequestIsMonotone DEF RequestsOK, Become
<1> QED  BY <1>2, <1>3 DEF RequestsOK

\* The steps that leave the table alone.
LEMMA ReadStep ==
  ASSUME Types, NEW c \in Client, NEW r, Become(c, r), RequestIs(r, nextId, dbType),
         UNCHANGED <<dbType, todos, nextId>>, ViewOK'
  PROVE  TableOK' /\ ViewOK' /\ RequestsOK'
<1>1. TableOK'
  BY DEF Types, TableOK
<1>2. RequestsOK'
  BY RequestsStep DEF Types, TableOK
<1> QED  BY <1>1, <1>2

LEMMA SameView == ASSUME ViewOK, UNCHANGED <<nextId, view, torn>> PROVE ViewOK'
  BY DEF ViewOK

LEMMA LoseTrackView ==
  ASSUME Types, NEW id \in Nat, LoseTrack(id), nextId' \in Nat, nextId <= nextId', id < nextId'
  PROVE  ViewOK'
  BY DEF Types, TableOK, ViewOK, LoseTrack, Row

LEMMA TearView ==
  ASSUME Types, NEW c, NEW id \in Nat, Tear(c, id), nextId' \in Nat, nextId <= nextId', id < nextId'
  PROVE  ViewOK'
<1>1. CASE LoseTrack(id)
  BY <1>1, LoseTrackView
<1>2. CASE UNCHANGED <<view, torn>>
  BY <1>2 DEF Types, TableOK, ViewOK, Row
<1> QED  BY <1>1, <1>2 DEF Tear

\* A field of a mutation, or a request, that begins.
Started(r, api, cache, doubt) ==
  \E kind \in Write, id \in Nat, patch \in Patch, before \in Nat :
    /\ r = Request(api, kind, id, patch, cache, before, doubt)
    /\ kind = "toggle" => api = "graphql"
    /\ IF kind = "create" THEN id = 0 /\ patch.title # None /\ patch.completed # None
                          ELSE id < nextId

StartedAs(r, api, cache, doubt) ==
  /\ RequestIs(r, nextId, dbType)
  /\ r.api = api /\ r.cache = cache /\ r.doubt = doubt /\ r.kind \in Write
  /\ r.at = IF r.kind = "toggle" THEN "load" ELSE "write"
  /\ r.ok = FALSE /\ r.row = None

LEMMA StartedIs ==
  ASSUME Types, NEW api \in {"rest", "graphql"}, NEW cache, CacheIs(cache, nextId),
         NEW doubt \in BOOLEAN, api = "rest" => cache = {},
         NEW r, Started(r, api, cache, doubt)
  PROVE  StartedAs(r, api, cache, doubt)
<1>1. PICK kind \in Write, id \in Nat, patch \in Patch, before \in Nat :
        /\ r = Request(api, kind, id, patch, cache, before, doubt)
        /\ kind = "toggle" => api = "graphql"
        /\ IF kind = "create" THEN id = 0 /\ patch.title # None /\ patch.completed # None
                              ELSE id < nextId
  BY DEF Started
<1>2. r = [api |-> api, kind |-> kind, at |-> IF kind = "toggle" THEN "load" ELSE "write",
           id |-> id, patch |-> patch, page |-> 1, ok |-> FALSE, row |-> None, data |-> {},
           total |-> 0, cache |-> cache, before |-> before, doubt |-> doubt]
  BY <1>1 DEF Request, Idle
<1>3. cache \in SUBSET Entry
  BY DEF CacheIs
<1>4. r \in RequestType
  BY <1>2, <1>3 DEF RequestType, Write, Kind
<1>5. RequestIs(r, nextId, dbType)
  BY <1>1, <1>2, <1>4 DEF RequestIs, Write
<1> QED  BY <1>2, <1>5 DEF StartedAs

LEMMA FieldStarts ==
  ASSUME Types, NEW c \in Client, NEW cache, NEW before \in Nat, NEW doubt,
         Field(c, cache, before, doubt)
  PROVE  \E r : Become(c, r) /\ Started(r, "graphql", cache, doubt)
<1> DEFINE R(kind, id, patch) == Request("graphql", kind, id, patch, cache, before, doubt)
<1>1. \/ \E id \in Known : Become(c, R("toggle", id, NoPatch)) \/ Become(c, R("delete", id, NoPatch))
      \/ \E p \in Input : Become(c, R("create", 0, p))
      \/ \E id \in Known, p \in Change : Become(c, R("update", id, p))
  BY DEF Field
<1>2. \A id \in Known : id \in Nat /\ id < nextId
  BY DEF Known, Types, TableOK
<1>3. NoPatch \in Patch
  BY DEF NoPatch, Patch
<1>4. CASE \E id \in Known : Become(c, R("toggle", id, NoPatch)) \/ Become(c, R("delete", id, NoPatch))
  BY <1>2, <1>3, <1>4 DEF Started, Write
<1>5. CASE \E p \in Input : Become(c, R("create", 0, p))
  BY <1>5, InputAssumption DEF Started, Write
<1>6. CASE \E id \in Known, p \in Change : Become(c, R("update", id, p))
  BY <1>2, <1>6, InputAssumption DEF Started, Write
<1> QED  BY <1>1, <1>4, <1>5, <1>6

\* What EndField puts in the place of a request.
Ended(c, r, cache, doubt) ==
  /\ Become(c, r)
  /\ \/ r = Idle
     \/ /\ req[c].api = "graphql" /\ req[c].kind \in Write
        /\ Started(r, "graphql", cache, doubt)

LEMMA EndFieldEnds ==
  ASSUME Types, NEW c \in Client, NEW cache, NEW doubt, EndField(c, cache, doubt)
  PROVE  \E r : Ended(c, r, cache, doubt)
<1>1. req[c].before + 1 \in Nat
  BY DEF Types, RequestsOK, RequestType
<1> QED  BY <1>1, FieldStarts DEF EndField, Finish, Ended

EndedAs(r, cache, doubt) ==
  /\ RequestIs(r, nextId, dbType)
  /\ r.at \in {"idle", "load", "write"} /\ r.ok = FALSE /\ r.row = None
  /\ r # Idle => r.cache = cache /\ r.doubt = doubt /\ r.kind \in Write
  /\ r.at = "write" => r.kind # "toggle"

LEMMA EndedIs ==
  ASSUME Types, NEW c, NEW cache, CacheIs(cache, nextId), NEW doubt \in BOOLEAN,
         NEW r, Ended(c, r, cache, doubt)
  PROVE  EndedAs(r, cache, doubt)
<1>1. nextId \in Nat
  BY DEF Types, TableOK
<1>2. CASE r = Idle
  <2>1. RequestIs(r, nextId, dbType)
    BY <1>1, <1>2, IdleIs
  <2> QED  BY <1>2, <2>1 DEF Idle, EndedAs
<1>3. CASE Started(r, "graphql", cache, doubt)
  <2>1. /\ RequestIs(r, nextId, dbType)
        /\ r.cache = cache /\ r.doubt = doubt /\ r.kind \in Write
        /\ r.at = IF r.kind = "toggle" THEN "load" ELSE "write"
        /\ r.ok = FALSE /\ r.row = None
    <3>1. "graphql" \in {"rest", "graphql"} /\ ("graphql" = "rest" => cache = {})
      OBVIOUS
    <3>2. StartedAs(r, "graphql", cache, doubt)
      BY <1>3, <3>1, StartedIs
    <3> QED  BY <3>2 DEF StartedAs
  <2> QED  BY <2>1 DEF EndedAs
<1> QED  BY <1>2, <1>3 DEF Ended

\* A step of c that makes its request r and leaves the table alone.
Quiet(c, r) ==
  Become(c, r) /\ RequestIs(r, nextId, dbType) /\ UNCHANGED <<dbType, todos, nextId>>

LEMMA CallDoes ==
  ASSUME Types, NEW c \in Client, Call(c)
  PROVE  /\ req[c] = Idle /\ UNCHANGED <<view, torn>>
         /\ \E r, api : Quiet(c, r) /\ StartedAs(r, api, {}, FALSE)
<1>1. req[c] = Idle /\ UNCHANGED <<dbType, todos, nextId, view, torn>>
  BY DEF Call, RestCall, MutationCall, Active, Types, RequestsOK, RequestIs
<1>2. CacheIs({}, nextId) /\ nextId \in Nat
  BY DEF CacheIs, Types, TableOK
<1>3. ASSUME RestCall(c) PROVE \E r : Become(c, r) /\ Started(r, "rest", {}, FALSE)
  <2> DEFINE R(kind, id, patch) == Request("rest", kind, id, patch, {}, 0, FALSE)
  <2>1. \/ \E p \in Input : Become(c, R("create", 0, p))
        \/ \E id \in Known, p \in Change \ {NoPatch} : Become(c, R("update", id, p))
        \/ \E id \in Known : Become(c, R("delete", id, NoPatch))
    BY <1>3 DEF RestCall
  <2>2. \A id \in Known : id \in Nat /\ id < nextId
    BY <1>2 DEF Known
  <2>3. NoPatch \in Patch
    BY DEF NoPatch, Patch
  <2>4. CASE \E p \in Input : Become(c, R("create", 0, p))
    BY <2>4, InputAssumption DEF Started, Write
  <2>5. CASE \E id \in Known, p \in Change \ {NoPatch} : Become(c, R("update", id, p))
    <3>1. PICK id \in Known, p \in Change \ {NoPatch} : Become(c, R("update", id, p))
      BY <2>5
    <3>2. id \in Nat /\ id < nextId /\ p \in Patch
      BY <2>2, InputAssumption
    <3> QED  BY <3>1, <3>2 DEF Started, Write
  <2>6. CASE \E id \in Known : Become(c, R("delete", id, NoPatch))
    BY <2>2, <2>3, <2>6 DEF Started, Write
  <2> QED  BY <2>1, <2>4, <2>5, <2>6
<1>4. ASSUME MutationCall(c) PROVE \E r : Become(c, r) /\ Started(r, "graphql", {}, FALSE)
  BY <1>4, FieldStarts DEF MutationCall
<1>5. PICK r, api : api \in {"rest", "graphql"} /\ Become(c, r) /\ Started(r, api, {}, FALSE)
  BY <1>3, <1>4 DEF Call
<1>6. StartedAs(r, api, {}, FALSE)
  BY <1>2, <1>5, StartedIs
<1>7. Quiet(c, r)
  BY <1>1, <1>5, <1>6 DEF Quiet, StartedAs
<1> QED  BY <1>1, <1>6, <1>7

LEMMA TableFinite ==
  ASSUME Types
  PROVE  \A T \in SUBSET todos : T \in SUBSET Row /\ IsFiniteSet(T) /\ Cardinality(T) \in Nat
  BY SubsetsFinite DEF Types, TableOK

LEMMA SeenTodos ==
  ASSUME Types, NEW c \in Client
  PROVE  Seen(c) \in SUBSET todos /\ Target(c) \in SUBSET todos
         /\ \A skip, take : Newest(Seen(c), skip, take) \in SUBSET todos
  BY DEF Seen, Target, With, RowsOf, Newest

\* A page, list or single todo is looked up: no loader is involved.
Looks(c, r) ==
  /\ Quiet(c, r) /\ UNCHANGED <<view, torn>>
  /\ r.kind \in {"page", "list", "get"} /\ r.cache = {}

LEMMA ReadRowsDoes == ASSUME Types, NEW c \in Client, ReadRows(c) PROVE \E r : Looks(c, r)
<1>1. UNCHANGED <<dbType, todos, nextId, view, torn>> /\ nextId \in Nat
      /\ req[c] \in RequestType /\ RequestIs(req[c], nextId, dbType)
  BY DEF ReadRows, Types, TableOK, RequestsOK
<1>2. ASSUME NEW p PROVE Newest(Seen(c), Skip(p), Limit) \in SUBSET Row
  BY SeenTodos DEF Types, TableOK
<1>3. ASSUME NEW p \in Page,
             Become(c, [Idle EXCEPT !.kind = "page", !.at = "count", !.page = p,
                          !.data = Newest(Seen(c), Skip(p), Limit)])
      PROVE  \E r : Looks(c, r)
  <2> DEFINE r == [Idle EXCEPT !.kind = "page", !.at = "count", !.page = p,
                          !.data = Newest(Seen(c), Skip(p), Limit)]
  <2>1. RequestIs(r, nextId, dbType) /\ r.kind = "page" /\ r.cache = {}
    <3>1. r.data \in SUBSET Row /\ p \in Nat
      BY <1>2 DEF Page, Idle
    <3>2. r \in RequestType
      BY <3>1 DEF RequestType, Idle, NoPatch, Patch, Kind
    <3> QED  BY <3>2 DEF RequestIs, Idle, CacheIs
  <2> HIDE DEF r
  <2> QED  BY <1>1, <1>3, <2>1 DEF Looks, Quiet, r
<1>4. ASSUME req[c].at = "rows",
             Become(c, [req[c] EXCEPT !.data = Newest(Seen(c), Skip(req[c].page), Limit),
                                      !.at = "return"])
      PROVE  \E r : Looks(c, r)
  <2> DEFINE r == [req[c] EXCEPT !.data = Newest(Seen(c), Skip(req[c].page), Limit), !.at = "return"]
  <2>1. RequestIs(r, nextId, dbType) /\ r.kind = "page" /\ r.cache = {}
    <3>1. r \in RequestType
      BY <1>1, <1>2 DEF RequestType
    <3> QED  BY <1>1, <1>4, <3>1 DEF RequestIs, CacheIs, RequestType
  <2> HIDE DEF r
  <2> QED  BY <1>1, <1>4, <2>1 DEF Looks, Quiet, r
<1> QED  BY <1>3, <1>4 DEF ReadRows

LEMMA ReadCountDoes == ASSUME Types, NEW c \in Client, ReadCount(c) PROVE \E r : Looks(c, r)
<1>1. UNCHANGED <<dbType, todos, nextId, view, torn>> /\ nextId \in Nat
      /\ req[c] \in RequestType /\ RequestIs(req[c], nextId, dbType)
  BY DEF ReadCount, Types, TableOK, RequestsOK
<1>2. Cardinality(Seen(c)) \in Nat
  BY SeenTodos, TableFinite
<1>3. ASSUME NEW p \in Page,
             Become(c, [Idle EXCEPT !.kind = "page", !.at = "rows", !.page = p,
                          !.total = Cardinality(Seen(c))])
      PROVE  \E r : Looks(c, r)
  <2> DEFINE r == [Idle EXCEPT !.kind = "page", !.at = "rows", !.page = p,
                          !.total = Cardinality(Seen(c))]
  <2>1. RequestIs(r, nextId, dbType) /\ r.kind = "page" /\ r.cache = {}
    <3>1. r.total \in Nat /\ p \in Nat
      BY <1>2 DEF Page, Idle
    <3>2. r \in RequestType
      BY <3>1 DEF RequestType, Idle, NoPatch, Patch, Kind
    <3> QED  BY <3>2 DEF RequestIs, Idle, CacheIs
  <2> HIDE DEF r
  <2> QED  BY <1>1, <1>3, <2>1 DEF Looks, Quiet, r
<1>4. ASSUME req[c].at = "count",
             Become(c, [req[c] EXCEPT !.total = Cardinality(Seen(c)), !.at = "return"])
      PROVE  \E r : Looks(c, r)
  <2> DEFINE r == [req[c] EXCEPT !.total = Cardinality(Seen(c)), !.at = "return"]
  <2>1. RequestIs(r, nextId, dbType) /\ r.kind = "page" /\ r.cache = {}
    <3>1. r \in RequestType
      BY <1>1, <1>2 DEF RequestType
    <3> QED  BY <1>1, <1>4, <3>1 DEF RequestIs, CacheIs, RequestType
  <2> HIDE DEF r
  <2> QED  BY <1>1, <1>4, <2>1 DEF Looks, Quiet, r
<1> QED  BY <1>3, <1>4 DEF ReadCount

LEMMA FindAllDoes ==
  ASSUME Types, NEW c \in Client, FindAll(c)
  PROVE  \E r, wanted, p :
           /\ Looks(c, r) /\ wanted \in SUBSET todos /\ p \in Page
           /\ r.kind = "list" /\ r.page = p
           /\ r.data = Newest(wanted, Skip(p), Limit) /\ r.total = Cardinality(wanted)
<1>1. UNCHANGED <<dbType, todos, nextId, view, torn>> /\ nextId \in Nat
  BY DEF FindAll, Types, TableOK
<1>2. PICK p \in Page, done \in BOOLEAN \cup {None} :
        LET wanted == {r \in Newest(Seen(c), 0, BatchTake) : done \in {None, r.completed}} IN
        Become(c, [Idle EXCEPT !.api = "graphql", !.kind = "list", !.at = "return", !.page = p,
                     !.data = Newest(wanted, Skip(p), Limit), !.total = Cardinality(wanted)])
  BY DEF FindAll
<1> DEFINE wanted == {r \in Newest(Seen(c), 0, BatchTake) : done \in {None, r.completed}}
<1>3. wanted \in SUBSET todos
  BY SeenTodos
<1>4. Cardinality(wanted) \in Nat /\ Newest(wanted, Skip(p), Limit) \in SUBSET Row
  BY <1>3, TableFinite DEF Newest
<1> DEFINE r == [Idle EXCEPT !.api = "graphql", !.kind = "list", !.at = "return", !.page = p,
                   !.data = Newest(wanted, Skip(p), Limit), !.total = Cardinality(wanted)]
<1>5. Become(c, r)
  BY <1>2
<1> HIDE DEF wanted
<1>6. r \in RequestType
  <2>1. p \in Nat
    BY DEF Page
  <2> QED  BY <1>4, <2>1 DEF RequestType, Idle, NoPatch, Patch, Kind
<1>7. RequestIs(r, nextId, dbType) /\ r.kind = "list" /\ r.cache = {} /\ r.page = p
      /\ r.data = Newest(wanted, Skip(p), Limit) /\ r.total = Cardinality(wanted)
  BY <1>1, <1>6 DEF RequestIs, Idle, CacheIs
<1> HIDE DEF r
<1> QED  BY <1>1, <1>3, <1>5, <1>7 DEF Looks, Quiet

\* What a look-up finds.
LEMMA FoundIs ==
  ASSUME Types, NEW T \in SUBSET todos, NEW id \in Nat, NEW e \in Found(T, id)
  PROVE  /\ e \in Entry /\ e.id = id
         /\ e.row # None => e.row \in T /\ e.row.id = id
         /\ e.row = None => \A r \in T : r.id # id
<1>1. T \in SUBSET Row /\ None \notin Row
  BY NoneAssumption DEF Types, TableOK
<1> QED  BY <1>1 DEF Found, With, Ids, Entry

LEMMA KnownIs == ASSUME Types, NEW id \in Known PROVE id \in Nat /\ id < nextId
  BY DEF Known, Types, TableOK

LEMMA AnsweredIs ==
  ASSUME Types, NEW api \in {"rest", "graphql"}, NEW kind \in {"get", "load"},
         NEW e, NEW cache, CacheIs(cache, nextId),
         api = "rest" \/ kind = "get" => cache = {}, e \in Entry, e.id < nextId,
         e.row # None => e.row.id = e.id
  PROVE  RequestIs(Answered(api, kind, e, cache), nextId, dbType)
<1>1. cache \in SUBSET Entry /\ e.id \in Nat /\ e.row \in Row \cup {None}
  BY DEF CacheIs, Entry
<1> DEFINE ok == e.row # None
           r == [Idle EXCEPT !.api = api, !.kind = kind, !.at = "return", !.id = e.id,
                   !.ok = ok, !.row = e.row, !.cache = cache]
<1>2. ok \in BOOLEAN
  OBVIOUS
<1> HIDE DEF ok
<1>3. r \in RequestType
  BY <1>1, <1>2 DEF Idle, RequestType, NoPatch, Patch, Kind
<1>4. r.api = api /\ r.kind = kind /\ r.at = "return" /\ r.id = e.id /\ r.row = e.row /\ r.cache = cache
  BY DEF Idle
<1>5. RequestIs(r, nextId, dbType)
  BY <1>1, <1>3, <1>4 DEF RequestIs
<1> QED  BY <1>5 DEF Answered, ok

LEMMA FindByIdDoes == ASSUME Types, NEW c \in Client, FindById(c) PROVE \E r : Looks(c, r)
<1>1. PICK id \in Known : \E e \in Found(Seen(c), id) : Become(c, Answered("rest", "get", e, {}))
  BY DEF FindById
<1>e. PICK e \in Found(Seen(c), id) : Become(c, Answered("rest", "get", e, {}))
  BY <1>1
<1>2. id \in Nat /\ id < nextId
  BY KnownIs
<1>3. e \in Entry /\ e.id = id /\ (e.row # None => e.row.id = id)
  BY <1>2, SeenTodos, FoundIs
<1>4. CacheIs({}, nextId)
  BY DEF CacheIs
<1> DEFINE r == Answered("rest", "get", e, {})
<1>5. RequestIs(r, nextId, dbType)
  BY <1>2, <1>3, <1>4, AnsweredIs
<1>6. r.kind = "get" /\ r.cache = {}
  BY DEF Answered, Idle
<1>7. UNCHANGED <<dbType, todos, nextId, view, torn>>
  BY DEF FindById
<1> HIDE DEF r
<1> QED  BY <1>e, <1>5, <1>6, <1>7 DEF Looks, Quiet, r

LEMMA BatchTodos == Batch \in SUBSET todos
  BY DEF Batch, Newest

\* The loader looks a todo up for the first query of a request.
Loads(c, e, r) ==
  /\ Quiet(c, r) /\ UNCHANGED <<view, torn>>
  /\ e \in Found(Batch, e.id) /\ e \in Entry /\ e.id < nextId
  /\ e.row # None => e.row \in todos /\ e.row.id = e.id
  /\ r = Answered("graphql", "load", e, {e})

LEMMA TodoQueryDoes ==
  ASSUME Types, NEW c \in Client, TodoQuery(c)
  PROVE  req[c] = Idle /\ \E e, r : Loads(c, e, r)
<1>1. PICK id \in Known :
        \E e \in Found(Batch, id) : Become(c, Answered("graphql", "load", e, {e}))
  BY DEF TodoQuery
<1>e. PICK e \in Found(Batch, id) : Become(c, Answered("graphql", "load", e, {e}))
  BY <1>1
<1>2. id \in Nat /\ id < nextId
  BY KnownIs
<1>3. e \in Entry /\ e.id = id /\ (e.row # None => e.row \in todos /\ e.row.id = id)
  BY <1>2, BatchTodos, FoundIs
<1>4. CacheIs({e}, nextId)
  BY <1>2, <1>3 DEF CacheIs
<1>5. RequestIs(Answered("graphql", "load", e, {e}), nextId, dbType)
  BY <1>2, <1>3, <1>4, AnsweredIs
<1>6. req[c] = Idle /\ UNCHANGED <<dbType, todos, nextId, view, torn>>
  BY DEF TodoQuery, Active, Types, RequestsOK, RequestIs
<1> QED  BY <1>e, <1>2, <1>3, <1>5, <1>6 DEF Loads, Quiet

\* The loader gives toggleTodo the entry e, of its cache or of the table.
Given(c, e) ==
  /\ e \in Entry /\ e.id = req[c].id /\ (e.row # None => e.row.id = e.id)
  /\ e \in req[c].cache \/ (e \in Found(Batch, e.id) /\ (e.row # None => e.row \in todos))

Toggling(c, e) ==
  [req[c] EXCEPT !.at = "write", !.cache = req[c].cache \cup {e},
                 !.patch = [title |-> None, completed |-> ~e.row.completed]]

LEMMA LoadDoes ==
  ASSUME Types, NEW c \in Client, Load(c)
  PROVE  /\ req[c].at = "load" /\ UNCHANGED <<view, torn>>
         /\ \E e, r :
              /\ Given(c, e) /\ Quiet(c, r) /\ CacheIs(req[c].cache \cup {e}, nextId)
              /\ IF e.row = None THEN Ended(c, r, req[c].cache \cup {e}, req[c].doubt)
                                 ELSE r = Toggling(c, e)
<1>1. req[c] \in RequestType /\ RequestIs(req[c], nextId, dbType)
      /\ req[c].at = "load" /\ req[c].id \in Nat /\ req[c].id < nextId
      /\ UNCHANGED <<dbType, todos, nextId, view, torn>>
  BY DEF Load, Types, RequestsOK, RequestIs, RequestType
<1>2. PICK e \in (IF Cached(c) = {} THEN Found(Batch, req[c].id) ELSE Cached(c)) :
        ToggleTodo(c, e, req[c].cache \cup {e})
  BY DEF Load
<1>3. Given(c, e)
  <2>1. CASE e \in Found(Batch, req[c].id)
    BY <1>1, <2>1, BatchTodos, FoundIs DEF Given
  <2>2. CASE e \in Cached(c)
    BY <1>1, <2>2 DEF Cached, With, Given, RequestIs, CacheIs
  <2> QED  BY <1>2, <2>1, <2>2
<1> DEFINE cache == req[c].cache \cup {e}
<1>4. CacheIs(cache, nextId)
  BY <1>1, <1>3 DEF Given, RequestIs, CacheIs
<1> HIDE DEF cache
<1>5. CASE e.row = None
  <2>1. EndField(c, cache, req[c].doubt) /\ req[c].doubt \in BOOLEAN
    BY <1>1, <1>2, <1>5 DEF ToggleTodo, cache, RequestType
  <2>2. PICK r : Ended(c, r, cache, req[c].doubt)
    BY <2>1, EndFieldEnds
  <2>3. EndedAs(r, cache, req[c].doubt)
    BY <1>4, <2>1, <2>2, EndedIs
  <2> QED  BY <1>1, <1>3, <1>4, <1>5, <2>2, <2>3 DEF Quiet, Ended, EndedAs, cache
<1>6. CASE e.row # None
  <2> DEFINE flip == ~e.row.completed
             r == [req[c] EXCEPT !.at = "write", !.cache = cache,
                                 !.patch = [title |-> None, completed |-> flip]]
  <2>1. flip \in BOOLEAN
    OBVIOUS
  <2>2. Become(c, r) /\ r = Toggling(c, e)
    BY <1>2, <1>6 DEF ToggleTodo, Toggling, cache
  <2>3. e \in cache /\ e.id = req[c].id /\ cache \in SUBSET Entry
    BY <1>3, <1>4 DEF cache, Given, CacheIs
  <2>4. /\ r.at = "write" /\ r.cache = cache /\ r.id = req[c].id /\ r.kind = "toggle" /\ r.api = req[c].api
        /\ r.patch.completed = flip /\ r.ok = FALSE /\ r.row = None
    BY <1>1 DEF RequestIs, RequestType
  <2>5. r \in RequestType
    <3>1. [title |-> None, completed |-> flip] \in Patch
      BY <2>1 DEF Patch
    <3> HIDE DEF flip
    <3> QED  BY <1>1, <2>3, <3>1 DEF RequestType
  <2>6. r.api # "rest"
    BY <1>1, <2>4 DEF RequestIs
  <2>7. \E f \in r.cache : f.id = r.id /\ f.row # None /\ r.patch.completed = ~f.row.completed
    BY <1>6, <2>3, <2>4
  <2> HIDE DEF r
  <2>8. RequestIs(r, nextId, dbType)
    BY <1>1, <1>4, <2>4, <2>5, <2>6, <2>7 DEF RequestIs, Write
  <2> QED  BY <1>1, <1>3, <1>4, <1>6, <2>2, <2>8 DEF Quiet, cache
<1> QED  BY <1>5, <1>6

LEMMA NewRowIs ==
  ASSUME Types, NEW c \in Client, req[c].kind = "create"
  PROVE  NewRow(c) \in Row /\ NewRow(c).id = nextId /\ NewRow(c).user = Owner[c]
<1>1. req[c].patch \in Patch /\ req[c].patch.title # None /\ req[c].patch.completed # None
  BY DEF Types, RequestsOK, RequestIs, RequestType
<1>2. req[c].patch.title \in Title /\ req[c].patch.completed \in BOOLEAN
  BY <1>1 DEF Patch
<1> QED  BY <1>2, OwnerAssumption DEF NewRow, Row, Types, TableOK

LEMMA PatchedIs ==
  ASSUME NEW r \in Row, NEW p \in Patch
  PROVE  Patched(r, p) \in Row /\ Patched(r, p).id = r.id /\ Patched(r, p).user = r.user
<1>1. (IF p.title = None THEN r.title ELSE p.title) \in Title
  BY DEF Row, Patch
<1>2. (IF p.completed = None THEN r.completed ELSE p.completed) \in BOOLEAN
  BY DEF Row, Patch
<1> QED  BY <1>1, <1>2 DEF Patched, Row

\* What the writes make of the table.
LEMMA AddTable ==
  ASSUME TableOK, NEW s \in Row, s.id = nextId, todos' = todos \cup {s}, nextId' = nextId + 1
  PROVE  TableOK'
<1>1. IsFiniteSet(todos')
  BY FS_AddElement DEF TableOK
<1>2. \A r \in todos' : r.id < nextId'
  BY DEF TableOK, Row
<1>3. \A r, t \in todos' : r.id = t.id => r = t
  BY DEF TableOK, Row
<1> QED  BY <1>1, <1>2, <1>3 DEF TableOK

LEMMA ReplaceTable ==
  ASSUME TableOK, NEW r \in todos, NEW s \in Row, s.id = r.id,
         todos' = (todos \ {r}) \cup {s}, nextId' = nextId
  PROVE  TableOK'
<1>1. IsFiniteSet(todos')
  BY FS_AddElement, FS_RemoveElement DEF TableOK
<1>2. \A q \in todos' : q.id < nextId'
  BY DEF TableOK
<1>3. \A q, t \in todos' : q.id = t.id => q = t
  BY DEF TableOK
<1> QED  BY <1>1, <1>2, <1>3 DEF TableOK

LEMMA ShrinkTable ==
  ASSUME TableOK, todos' \in SUBSET todos, nextId' = nextId PROVE TableOK'
<1>1. IsFiniteSet(todos')
  BY FS_Subset DEF TableOK
<1> QED  BY <1>1 DEF TableOK

LEMMA CreateTypes == ASSUME Types, NEW c \in Client, Create(c) PROVE TableOK' /\ ViewOK' /\ RequestsOK'
<1> DEFINE r == [req[c] EXCEPT !.at = "return", !.id = nextId, !.ok = TRUE, !.row = NewRow(c)]
<1>1. /\ req[c] \in RequestType /\ RequestIs(req[c], nextId, dbType) /\ req[c].kind = "create"
      /\ Become(c, r) /\ dbType' = dbType /\ nextId' = nextId + 1
      /\ todos' = todos \cup {NewRow(c)} /\ nextId \in Nat
  BY DEF Create, Types, RequestsOK, TableOK
<1>2. NewRow(c) \in Row /\ NewRow(c).id = nextId
  BY <1>1, NewRowIs
<1>3. TableOK'
  BY <1>1, <1>2, AddTable DEF Types
<1>4. ViewOK'
  BY <1>1, TearView DEF Create
<1>5. RequestIs(r, nextId', dbType)
  <2>1. RequestIs(req[c], nextId', dbType)
    BY <1>1, RequestIsMonotone
  <2>2. r \in RequestType
    BY <1>1, <1>2 DEF RequestType
  <2> QED  BY <1>1, <1>2, <2>1, <2>2 DEF RequestIs, RequestType
<1> HIDE DEF r
<1>6. RequestsOK'
  BY <1>1, <1>5, RequestsStep DEF Types
<1> QED  BY <1>3, <1>4, <1>6

LEMMA UpdateTypes == ASSUME Types, NEW c \in Client, Update(c) PROVE TableOK' /\ ViewOK' /\ RequestsOK'
<1>1. /\ req[c] \in RequestType /\ RequestIs(req[c], nextId, dbType) /\ nextId \in Nat
      /\ req[c].at = "write" /\ req[c].kind \in {"update", "toggle"} /\ req[c].id \in Nat /\ req[c].id < nextId
      /\ UNCHANGED <<dbType, nextId>>
  BY DEF Update, Types, RequestsOK, RequestIs, RequestType, TableOK
<1>2. CASE Become(c, [req[c] EXCEPT !.at = "return"]) /\ UNCHANGED <<todos, view, torn>>
  <2> DEFINE r == [req[c] EXCEPT !.at = "return"]
  <2>1. RequestIs(r, nextId, dbType)
    BY <1>1 DEF RequestIs, RequestType
  <2>2. ViewOK'
    BY <1>1, <1>2, SameView DEF Types
  <2> HIDE DEF r
  <2> QED  BY <1>1, <1>2, <2>1, <2>2, ReadStep DEF r
<1>3. ASSUME NEW t \in Target(c),
             todos' = (todos \ {t}) \cup {Patched(t, req[c].patch)},
             Become(c, Updated(c, Patched(t, req[c].patch))), Tear(c, req[c].id)
      PROVE  TableOK' /\ ViewOK' /\ RequestsOK'
  <2> DEFINE s == Patched(t, req[c].patch)
             r == Updated(c, s)
  <2>1. t \in todos /\ t.id = req[c].id /\ s \in Row /\ s.id = t.id
    <3>1. t \in todos /\ t.id = req[c].id
      BY SeenTodos DEF Target, With
    <3>2. t \in Row /\ req[c].patch \in Patch
      BY <1>1, <3>1 DEF Types, TableOK, RequestType
    <3> QED  BY <3>1, <3>2, PatchedIs
  <2> HIDE DEF s
  <2>2. TableOK'
    BY <1>1, <1>3, <2>1, ReplaceTable DEF Types, s
  <2>3. ViewOK'
    BY <1>1, <1>3, TearView
  <2>4. RequestIs(r, nextId, dbType)
    <3>1. CASE dbType = "postgres"
      BY <1>1, <3>1 DEF Updated, RequestIs, RequestType
    <3>2. CASE dbType # "postgres"
      BY <1>1, <2>1, <3>2 DEF Updated, RequestIs, RequestType
    <3> QED  BY <3>1, <3>2
  <2> HIDE DEF r
  <2>5. RequestsOK'
    BY <1>1, <1>3, <2>4, RequestsStep DEF Types, r, s
  <2> QED  BY <2>2, <2>3, <2>5
<1> QED  BY <1>2, <1>3 DEF Update

LEMMA FetchTypes == ASSUME Types, NEW c \in Client, Fetch(c) PROVE TableOK' /\ ViewOK' /\ RequestsOK'
<1>1. /\ req[c] \in RequestType /\ RequestIs(req[c], nextId, dbType) /\ req[c].at = "fetch"
      /\ UNCHANGED <<dbType, todos, nextId, view, torn>>
  BY DEF Fetch, Types, RequestsOK
<1>2. ViewOK'
  BY <1>1, SameView DEF Types
<1>3. CASE Become(c, [req[c] EXCEPT !.at = "return"])
  <2> DEFINE r == [req[c] EXCEPT !.at = "return"]
  <2>1. RequestIs(r, nextId, dbType)
    BY <1>1 DEF RequestIs, RequestType
  <2> HIDE DEF r
  <2> QED  BY <1>1, <1>2, <1>3, <2>1, ReadStep DEF r
<1>4. ASSUME NEW t \in With(todos, req[c].id),
             Become(c, [req[c] EXCEPT !.at = "return", !.ok = TRUE, !.row = t])
      PROVE  TableOK' /\ ViewOK' /\ RequestsOK'
  <2> DEFINE r == [req[c] EXCEPT !.at = "return", !.ok = TRUE, !.row = t]
  <2>1. t \in Row /\ t.id = req[c].id
    BY DEF With, Types, TableOK
  <2>2. RequestIs(r, nextId, dbType)
    BY <1>1, <2>1 DEF RequestIs, RequestType
  <2> HIDE DEF r
  <2> QED  BY <1>1, <1>2, <1>4, <2>2, ReadStep DEF r
<1> QED  BY <1>3, <1>4 DEF Fetch

LEMMA DeleteTypes == ASSUME Types, NEW c \in Client, Delete(c) PROVE TableOK' /\ ViewOK' /\ RequestsOK'
<1> DEFINE ok == Target(c) # {}
           r == [req[c] EXCEPT !.at = "return", !.ok = ok]
<1>1. /\ req[c] \in RequestType /\ RequestIs(req[c], nextId, dbType) /\ nextId \in Nat
      /\ req[c].at = "write" /\ req[c].kind = "delete" /\ req[c].id \in Nat /\ req[c].id < nextId
      /\ UNCHANGED <<dbType, nextId>>
      /\ todos' = todos \ Target(c) /\ Become(c, r)
  BY DEF Delete, Types, RequestsOK, RequestIs, RequestType, TableOK
<1>2. TableOK'
  BY <1>1, ShrinkTable DEF Types
<1>3. ViewOK'
  <2>1. CASE UNCHANGED <<view, torn>>
    BY <1>1, <2>1, SameView DEF Types
  <2>2. CASE Tear(c, req[c].id)
    BY <1>1, <2>2, TearView
  <2> QED  BY <2>1, <2>2 DEF Delete
<1>4. ok \in BOOLEAN
  OBVIOUS
<1> HIDE DEF ok
<1>5. RequestIs(r, nextId, dbType)
  BY <1>1, <1>4 DEF RequestIs, RequestType
<1> HIDE DEF r
<1>6. RequestsOK'
  BY <1>1, <1>5, RequestsStep DEF Types
<1> QED  BY <1>2, <1>3, <1>6

\* The end of a request whose result is back: told is what a mutation does that
\* has done something.
Told(c) == req[c].api = "graphql" /\ req[c].kind \in Write /\ req[c].ok

LEMMA PrimedIs ==
  ASSUME Types, NEW c \in Client, req[c].at = "return", req[c].kind \in Write
  PROVE  CacheIs(Primed(c), nextId)
<1>1. req[c] \in RequestType /\ RequestIs(req[c], nextId, dbType) /\ req[c].id < nextId
  BY DEF Types, RequestsOK, RequestIs, Write
<1>2. CASE req[c].row = None
  BY <1>1, <1>2 DEF Primed, RequestIs, CacheIs
<1>3. CASE req[c].row # None
  <2>1. [id |-> req[c].id, row |-> req[c].row] \in Entry /\ req[c].row.id = req[c].id
    BY <1>1, <1>3 DEF RequestType, Entry, RequestIs
  <2> QED  BY <1>1, <1>3, <2>1 DEF Primed, RequestIs, CacheIs
<1> QED  BY <1>2, <1>3

ReturnsTo(c) == IF Told(c) THEN Primed(c) ELSE req[c].cache

LEMMA ReturnDoes ==
  ASSUME Types, NEW c \in Client, Return(c)
  PROVE  /\ req[c].at = "return" /\ torn' = torn /\ CacheIs(ReturnsTo(c), nextId)
         /\ IF Told(c) THEN Publish(c) ELSE view' = view
         /\ \E r : Quiet(c, r) /\ Ended(c, r, ReturnsTo(c), req[c].doubt)
<1>1. req[c] \in RequestType /\ RequestIs(req[c], nextId, dbType) /\ req[c].at = "return"
      /\ UNCHANGED <<dbType, todos, nextId, torn>> /\ req[c].doubt \in BOOLEAN
  BY DEF Return, Types, RequestsOK, RequestType
<1>2. CacheIs(ReturnsTo(c), nextId)
  BY <1>1, PrimedIs DEF ReturnsTo, Told, RequestIs
<1>3. EndField(c, ReturnsTo(c), req[c].doubt) /\ (IF Told(c) THEN Publish(c) ELSE view' = view)
  BY DEF Return, Told, ReturnsTo
<1>4. PICK r : Ended(c, r, ReturnsTo(c), req[c].doubt)
  BY <1>3, EndFieldEnds
<1>5. EndedAs(r, ReturnsTo(c), req[c].doubt)
  BY <1>1, <1>2, <1>4, EndedIs
<1>6. Quiet(c, r)
  BY <1>1, <1>4, <1>5 DEF Quiet, Ended, EndedAs
<1> QED  BY <1>1, <1>2, <1>3, <1>4, <1>6

LEMMA PublishView ==
  ASSUME Types, NEW c \in Client, Publish(c), UNCHANGED <<nextId, torn>>,
         req[c].at = "return", req[c].kind \in Write
  PROVE  ViewOK'
<1>1. req[c] \in RequestType /\ RequestIs(req[c], nextId, dbType) /\ req[c].id < nextId
  BY DEF Types, RequestsOK, RequestIs, Write
<1>2. req[c].row # None => req[c].row \in Row /\ req[c].row.id < nextId
  BY <1>1 DEF RequestIs, RequestType
<1> QED  BY <1>2 DEF Publish, Types, ViewOK

\* The end of a request one of whose queries was rejected.
Doubted(c) == [req[c] EXCEPT !.at = "return", !.ok = FALSE, !.row = None, !.doubt = TRUE]

LEMMA FailDoes ==
  ASSUME Types, NEW c \in Client, Fail(c)
  PROVE  /\ Waits(c) /\ ViewOK'
         /\ IF Untold(c, req[c].id) THEN LoseTrack(req[c].id) ELSE UNCHANGED <<view, torn>>
         /\ \E r : /\ Quiet(c, r)
                   /\ \/ Swallowed(c) /\ r = Doubted(c)
                      \/ ~Swallowed(c) /\ Ended(c, r, req[c].cache, TRUE)
<1>1. req[c] \in RequestType /\ RequestIs(req[c], nextId, dbType)
      /\ UNCHANGED <<dbType, todos, nextId>> /\ nextId \in Nat /\ Waits(c)
  BY DEF Fail, Types, RequestsOK, TableOK
<1>2. ViewOK' /\ (IF Untold(c, req[c].id) THEN LoseTrack(req[c].id) ELSE UNCHANGED <<view, torn>>)
  <2>1. CASE Untold(c, req[c].id)
    <3>1. req[c].id \in Nat /\ req[c].id < nextId
      BY <1>1, <2>1 DEF Untold, RequestIs, RequestType, Write
    <3> QED  BY <1>1, <2>1, <3>1, LoseTrackView DEF Fail
  <2>2. CASE ~Untold(c, req[c].id)
    BY <1>1, <2>2, SameView DEF Fail, Types
  <2> QED  BY <2>1, <2>2
<1>3. CASE Swallowed(c)
  <2> DEFINE r == Doubted(c)
  <2>1. Become(c, r)
    BY <1>3 DEF Fail, Doubted
  <2>2. RequestIs(r, nextId, dbType)
    <3>1. r \in RequestType
      BY <1>1 DEF Doubted, RequestType
    <3> QED  BY <1>1, <1>3, <3>1 DEF Doubted, RequestIs, RequestType, Swallowed
  <2> HIDE DEF r
  <2> QED  BY <1>1, <1>2, <1>3, <2>1, <2>2 DEF Quiet, r
<1>4. CASE ~Swallowed(c)
  <2>1. EndField(c, req[c].cache, TRUE)
    BY <1>4 DEF Fail, EndField
  <2>2. PICK r : Ended(c, r, req[c].cache, TRUE)
    BY <2>1, EndFieldEnds
  <2>3. CacheIs(req[c].cache, nextId)
    BY <1>1 DEF RequestIs
  <2>4. EndedAs(r, req[c].cache, TRUE)
    BY <2>2, <2>3, EndedIs
  <2>5. Quiet(c, r)
    BY <1>1, <2>2, <2>4 DEF Quiet, Ended, EndedAs
  <2> QED  BY <1>1, <1>2, <1>4, <2>2, <2>5
<1> QED  BY <1>3, <1>4

LEMMA QuietTypes ==
  ASSUME Types, NEW c \in Client, NEW r, Quiet(c, r), ViewOK'
  PROVE  TableOK' /\ ViewOK' /\ RequestsOK'
  BY ReadStep DEF Quiet

LEMMA InitTypes == Init => Types
<1> SUFFICES ASSUME Init PROVE Types
  OBVIOUS
<1>1. TableOK
  BY FS_EmptySet DEF Init, TableOK
<1>2. RequestsOK
  <2>1. RequestIs(Idle, 0, dbType)
    BY IdleIs
  <2> QED  BY <2>1 DEF Init, RequestsOK, RequestIs
<1> QED  BY <1>1, <1>2 DEF Init, Types, ViewOK, HistoryOK

LEMMA ActionTypes ==
  ASSUME Types, NEW c \in Client, Call(c) \/ Step(c) \/ Fail(c)
  PROVE  TableOK' /\ ViewOK' /\ RequestsOK'
<1>1. ASSUME NEW r, Quiet(c, r), UNCHANGED <<view, torn>> PROVE TableOK' /\ ViewOK' /\ RequestsOK'
  BY <1>1, QuietTypes, SameView DEF Quiet, Types
<1>2. CASE Call(c)
  BY <1>1, <1>2, CallDoes
<1>3. CASE ReadRows(c) \/ ReadCount(c) \/ FindById(c) \/ FindAll(c)
  BY <1>1, <1>3, ReadRowsDoes, ReadCountDoes, FindByIdDoes, FindAllDoes DEF Looks
<1>4. CASE TodoQuery(c)
  BY <1>1, <1>4, TodoQueryDoes DEF Loads
<1>5. CASE Load(c)
  BY <1>1, <1>5, LoadDoes
<1>6. CASE Create(c) \/ Update(c) \/ Fetch(c) \/ Delete(c)
  BY <1>6, CreateTypes, UpdateTypes, FetchTypes, DeleteTypes
<1>7. CASE Return(c)
  <2>1. PICK r : Quiet(c, r)
    BY <1>7, ReturnDoes
  <2>2. ViewOK'
    <3>1. CASE Told(c)
      BY <1>7, <2>1, <3>1, ReturnDoes, PublishView DEF Told, Quiet
    <3>2. CASE ~Told(c)
      BY <1>7, <2>1, <3>2, ReturnDoes, SameView DEF Quiet, Types
    <3> QED  BY <3>1, <3>2
  <2> QED  BY <2>1, <2>2, QuietTypes
<1>8. CASE Fail(c)
  BY <1>8, FailDoes, QuietTypes
<1> QED  BY <1>2, <1>3, <1>4, <1>5, <1>6, <1>7, <1>8 DEF Step

LEMMA StepTypes == Types /\ [Next]_vars => Types'
<1> SUFFICES ASSUME Types, [Next]_vars PROVE Types'
  OBVIOUS
<1>1. CASE UNCHANGED vars
  BY <1>1 DEF vars, Types, TableOK, ViewOK, HistoryOK, RequestsOK
<1>2. ASSUME NEW c \in Client, Call(c) \/ Step(c) \/ Fail(c), Remember PROVE Types'
  BY <1>2, ActionTypes, HistoryStep DEF Types
<1> QED  BY <1>1, <1>2 DEF Next

LEMMA AlwaysTypes == Spec => []Types
  BY InitTypes, StepTypes, PTL DEF Spec

\* Whatever clients ask for and however queries fail, rows keep distinct ids,
\* no row or copy of one has an id that is yet to come, and every request is at
\* a step of its kind.
THEOREM TodosTyped == Spec => []TypeOK
<1>1. Types => TypeOK
  <2> SUFFICES ASSUME Types PROVE TypeOK
    OBVIOUS
  <2>1. Ids(todos) \cup Ids(view) \cup torn \subseteq 0..(nextId - 1)
    <3>1. \A n \in Nat : n < nextId => n \in 0..(nextId - 1)
      BY DEF Types, TableOK
    <3>2. \A r \in todos \cup view : r.id \in Nat /\ r.id < nextId
      BY DEF Types, TableOK, ViewOK, Row
    <3>3. \A id \in torn : id \in Nat /\ id < nextId
      BY DEF Types, ViewOK
    <3> QED  BY <3>1, <3>2, <3>3 DEF Ids
  <2>2. \A c \in Client : RequestOK(c)
    BY DEF Types, RequestsOK, RequestIs, CacheIs, RequestOK
  <2> QED
    BY <2>1, <2>2 DEF Types, TableOK, ViewOK, HistoryOK, RequestsOK, RequestType, TypeOK
<1> QED  BY <1>1, AlwaysTypes, PTL

-----------------------------------------------------------------------------
(***************************************************************************)
(* Both repositories implement the store.                                  *)
(***************************************************************************)

\* The call that a request r of c is in the middle of.
CallIs(c, r) ==
  IF r.kind \notin Write \/ r.at = "load" THEN [phase |-> "idle"]
  ELSE [phase |-> CASE r.at = "write" -> "called"
                    [] r.at = "fetch" -> "applied"
                    [] OTHER -> IF r.ok THEN "yes" ELSE IF r.doubt THEN "unknown" ELSE "no",
        kind |-> IF r.kind = "toggle" THEN "update" ELSE r.kind,
        id |-> IF r.kind = "create" THEN 0 ELSE r.id,
        patch |-> r.patch,
        user |-> IF r.kind = "toggle" THEN None ELSE Owner[c]]

\* The call in a phase other than that of its request.
InPhase(c, r, phase) ==
  [phase |-> phase,
   kind |-> IF r.kind = "toggle" THEN "update" ELSE r.kind,
   id |-> IF r.kind = "create" THEN 0 ELSE r.id,
   patch |-> r.patch,
   user |-> IF r.kind = "toggle" THEN None ELSE Owner[c]]

Calls == [c \in Client |-> CallOf(c)]

StoreStep == [Store!Next]_(Store!storeVars)

LEMMA CallBecomes ==
  ASSUME Types, NEW c \in Client, NEW r, Become(c, r)
  PROVE  /\ Calls[c] = CallIs(c, req[c])
         /\ Calls' = [Calls EXCEPT ![c] = CallIs(c, r)]
<1>1. req'[c] = r /\ \A d \in Client : d # c => req'[d] = req[d]
  BY DEF Become, Types, RequestsOK
<1>2. \A d \in Client : CallOf(d) = CallIs(d, req[d])
  BY DEF CallOf, CallIs
<1>3. \A d \in Client : CallOf(d)' = CallIs(d, req'[d])
  BY DEF CallOf, CallIs
<1> QED  BY <1>1, <1>2, <1>3 DEF Calls

\* A step that is none of the store's, the end of a call, and its begin.
LEMMA StoreStays ==
  ASSUME Types, NEW c \in Client, NEW r, Quiet(c, r), CallIs(c, r) = CallIs(c, req[c])
  PROVE  StoreStep
<1>1. Calls' = Calls
  BY CallBecomes DEF Quiet, Calls
<1> QED  BY <1>1 DEF StoreStep, Store!storeVars, Calls, Quiet

LEMMA StoreEnds ==
  ASSUME Types, NEW c \in Client, NEW r, Quiet(c, r), CallIs(c, r) = [phase |-> "idle"]
  PROVE  StoreStep
<1>1. CASE CallIs(c, req[c]) = [phase |-> "idle"]
  BY <1>1, StoreStays
<1>2. CASE CallIs(c, req[c]) # [phase |-> "idle"]
  <2>1. Calls[c] # Store!NoCall /\ Calls' = [Calls EXCEPT ![c] = Store!NoCall]
    BY <1>2, CallBecomes DEF Store!NoCall, Quiet
  <2>2. Store!End(c)
    BY <2>1 DEF Store!End, Calls, Quiet
  <2> QED  BY <2>2 DEF StoreStep, Store!Next
<1> QED  BY <1>1, <1>2

LEMMA StoreBegins ==
  ASSUME Types, NEW c \in Client, NEW r, Quiet(c, r), NEW api, NEW cache, NEW doubt,
         StartedAs(r, api, cache, doubt)
  PROVE  StoreStep
<1>1. CASE r.kind = "toggle"
  BY <1>1, StoreEnds DEF CallIs, StartedAs
<1>2. CASE r.kind # "toggle"
  <2>1. CallIs(c, r) = InPhase(c, r, "called")
    BY <1>2 DEF CallIs, InPhase, StartedAs
  <2>2. /\ r.kind \in Store!Kind
        /\ (IF r.kind = "create" THEN 0 ELSE r.id) \in 0..nextId
        /\ r.patch \in Store!Patch /\ Owner[c] \in User \cup {None}
    BY <1>2, OwnerAssumption
    DEF StartedAs, Write, RequestIs, RequestType, Patch, Store!Patch, Store!Kind, Types, TableOK
  <2>3. Calls' = [Calls EXCEPT ![c] = [phase |-> "called", kind |-> r.kind,
             id |-> IF r.kind = "create" THEN 0 ELSE r.id, patch |-> r.patch, user |-> Owner[c]]]
    BY <1>2, <2>1, CallBecomes DEF InPhase, Quiet
  <2>4. Store!Begin(c)
    BY <2>2, <2>3 DEF Store!Begin, Calls, Quiet
  <2> QED  BY <2>4 DEF StoreStep, Store!Next
<1> QED  BY <1>1, <1>2

LEMMA StoreGoesOn ==
  ASSUME Types, NEW c \in Client, NEW r, Quiet(c, r), NEW cache, CacheIs(cache, nextId),
         NEW doubt \in BOOLEAN, Ended(c, r, cache, doubt)
  PROVE  StoreStep
<1>1. CASE r = Idle
  <2>1. CallIs(c, r) = [phase |-> "idle"]
    BY <1>1 DEF CallIs, Idle, Write
  <2> QED  BY <2>1, StoreEnds
<1>2. CASE Started(r, "graphql", cache, doubt)
  <2>1. "graphql" \in {"rest", "graphql"} /\ ("graphql" = "rest" => cache = {})
    OBVIOUS
  <2>2. StartedAs(r, "graphql", cache, doubt)
    BY <1>2, <2>1, StartedIs
  <2> QED  BY <2>2, StoreBegins
<1> QED  BY <1>1, <1>2 DEF Ended

\* The todo a write is for is the one that the store looks for.
LEMMA TargetMatches ==
  ASSUME Types, NEW c \in Client, req[c].kind \in {"update", "toggle", "delete"},
         req[c].at = "write", Calls[c] = CallIs(c, req[c])
  PROVE  /\ Calls[c] = InPhase(c, req[c], "called")
         /\ Store!Matching(todos, Calls[c].id, Calls[c].user) = Target(c)
<1>1. Calls[c] = InPhase(c, req[c], "called")
  BY DEF CallIs, InPhase, Write
<1>2. Owner[c] # None /\ \A t \in todos : t.user # None
  BY OwnerAssumption, NoneAssumption DEF Types, TableOK, Row
<1>3. CASE req[c].kind = "toggle"
  BY <1>1, <1>3 DEF InPhase, Store!Matching, Target, Seen, With
<1>4. CASE req[c].kind # "toggle"
  BY <1>1, <1>2, <1>4 DEF InPhase, Store!Matching, Target, Seen, With, RowsOf
<1> QED  BY <1>1, <1>3, <1>4

\* A call that only goes on to another phase.
Moves(c, r, from, to) ==
  /\ Calls' = [Calls EXCEPT ![c].phase = to] /\ Calls[c].phase = from
  /\ Calls[c].kind = IF r.kind = "toggle" THEN "update" ELSE r.kind
  /\ Calls[c].id = IF r.kind = "create" THEN 0 ELSE r.id
  /\ Calls[c].patch = r.patch

LEMMA PhaseStep ==
  ASSUME NEW c, NEW r, NEW from, NEW to, Calls[c] = InPhase(c, r, from),
         Calls' = [Calls EXCEPT ![c] = InPhase(c, r, to)]
  PROVE  Moves(c, r, from, to)
<1>1. InPhase(c, r, to) = [InPhase(c, r, from) EXCEPT !.phase = to]
  BY DEF InPhase
<1>2. Calls' = [Calls EXCEPT ![c].phase = to]
  BY <1>1
<1>3. /\ Calls[c].phase = from
      /\ Calls[c].kind = IF r.kind = "toggle" THEN "update" ELSE r.kind
      /\ Calls[c].id = IF r.kind = "create" THEN 0 ELSE r.id
      /\ Calls[c].patch = r.patch
  BY DEF InPhase
<1> QED  BY <1>2, <1>3 DEF Moves

LEMMA CreateStore == ASSUME Types, NEW c \in Client, Create(c) PROVE StoreStep
<1> DEFINE r == [req[c] EXCEPT !.at = "return", !.id = nextId, !.ok = TRUE, !.row = NewRow(c)]
<1>1. /\ req[c] \in RequestType /\ req[c].kind = "create" /\ req[c].at = "write"
      /\ Become(c, r) /\ nextId' = nextId + 1 /\ todos' = todos \cup {NewRow(c)}
  BY DEF Create, Types, RequestsOK
<1>2. CallIs(c, req[c]) = InPhase(c, req[c], "called") /\ CallIs(c, r) = InPhase(c, req[c], "yes")
  BY <1>1 DEF CallIs, InPhase, Write, RequestType
<1> HIDE DEF r
<1>3. Calls[c] = InPhase(c, req[c], "called") /\ Calls' = [Calls EXCEPT ![c] = InPhase(c, req[c], "yes")]
  BY <1>1, <1>2, CallBecomes
<1>5. Calls' = [Calls EXCEPT ![c].phase = "yes"]
  <2>1. Moves(c, req[c], "called", "yes")
    BY <1>3, PhaseStep
  <2> QED  BY <2>1 DEF Moves
<1>6. Store!Effect(c)
  BY <1>1, <1>3 DEF Store!Effect, Calls, InPhase, NewRow
<1>7. Store!Apply(c)
  BY <1>3, <1>5, <1>6 DEF Store!Apply, Store!To, Calls, InPhase
<1> QED  BY <1>7 DEF StoreStep, Store!Next

LEMMA UpdateStore == ASSUME Types, NEW c \in Client, Update(c) PROVE StoreStep
<1> DEFINE q == req[c]
<1>1. /\ q \in RequestType /\ q.kind \in {"update", "toggle"} /\ q.at = "write"
      /\ q.ok = FALSE /\ UNCHANGED nextId
  BY DEF Update, Types, RequestsOK, RequestIs
<1>2. CASE Target(c) = {} /\ Become(c, [req[c] EXCEPT !.at = "return"]) /\ todos' = todos
  <2> DEFINE r == [req[c] EXCEPT !.at = "return"]
             phase == IF q.doubt THEN "unknown" ELSE "no"
  <2>1. CallIs(c, r) = InPhase(c, q, phase)
    BY <1>1 DEF CallIs, InPhase, Write, RequestType
  <2> HIDE DEF r
  <2>2. Calls[c] = InPhase(c, q, "called") /\ Store!Matching(todos, Calls[c].id, Calls[c].user) = {}
    BY <1>1, <1>2, CallBecomes, TargetMatches
  <2>3. Calls' = [Calls EXCEPT ![c] = InPhase(c, q, phase)]
    BY <1>2, <2>1, CallBecomes DEF r
  <2>5. Calls' = [Calls EXCEPT ![c].phase = phase] /\ Calls[c].phase = "called" /\ Calls[c].kind = "update"
    <3> HIDE DEF phase
    <3>1. Moves(c, q, "called", phase)
      BY <2>2, <2>3, PhaseStep
    <3> QED  BY <1>1, <3>1 DEF Moves
  <2>6. CASE q.doubt
    <3>1. Store!Doubt(c)
      BY <1>1, <1>2, <2>5, <2>6 DEF Store!Doubt, Store!To, Calls
    <3> QED  BY <3>1 DEF StoreStep, Store!Next
  <2>7. CASE ~q.doubt
    <3>1. Store!Miss(c)
      BY <1>1, <1>2, <2>2, <2>5, <2>7 DEF Store!Miss, Store!To, Calls
    <3> QED  BY <3>1 DEF StoreStep, Store!Next
  <2> QED  BY <2>6, <2>7
<1>3. ASSUME NEW t \in Target(c),
             todos' = (todos \ {t}) \cup {Patched(t, q.patch)},
             Become(c, Updated(c, Patched(t, q.patch)))
      PROVE  StoreStep
  <2> DEFINE r == Updated(c, Patched(t, q.patch))
             phase == IF dbType = "postgres" THEN "applied" ELSE "yes"
  <2>1. CallIs(c, r) = InPhase(c, q, phase)
    BY <1>1 DEF Updated, CallIs, InPhase, Write, RequestType
  <2> HIDE DEF r
  <2>2. Calls[c] = InPhase(c, q, "called")
        /\ Store!Matching(todos, Calls[c].id, Calls[c].user) = Target(c)
    BY <1>1, <1>3, CallBecomes, TargetMatches
  <2>3. Calls' = [Calls EXCEPT ![c] = InPhase(c, q, phase)]
    BY <1>3, <2>1, CallBecomes DEF r
  <2>5. Calls' = [Calls EXCEPT ![c].phase = phase] /\ Calls[c].phase = "called" /\ Calls[c].kind = "update"
        /\ Calls[c].patch = q.patch
    <3> HIDE DEF phase
    <3>1. Moves(c, q, "called", phase)
      BY <2>2, <2>3, PhaseStep
    <3> QED  BY <1>1, <3>1 DEF Moves
  <2>6. Target(c) = {t}
    BY DEF Types, TableOK, Target, With, Seen, RowsOf
  <2>7. Store!Effect(c)
    BY <1>1, <1>3, <2>2, <2>5, <2>6 DEF Store!Effect, Store!Patched, Patched, Calls
  <2>8. Store!Apply(c)
    BY <2>5, <2>7 DEF Store!Apply, Store!To, Calls
  <2> QED  BY <2>8 DEF StoreStep, Store!Next
<1> QED  BY <1>2, <1>3 DEF Update

LEMMA FetchStore == ASSUME Types, NEW c \in Client, Fetch(c) PROVE StoreStep
<1> DEFINE q == req[c]
<1>1. /\ q \in RequestType /\ q.kind \in {"update", "toggle"} /\ q.at = "fetch"
      /\ q.ok = FALSE /\ UNCHANGED <<todos, nextId>>
  BY DEF Fetch, Types, RequestsOK, RequestIs
<1>2. CallIs(c, q) = InPhase(c, q, "applied")
  BY <1>1 DEF CallIs, InPhase, Write
<1>3. ASSUME NEW r, Become(c, r), NEW phase, CallIs(c, r) = InPhase(c, q, phase)
      PROVE  /\ Calls' = [Calls EXCEPT ![c].phase = phase]
             /\ Calls[c].phase = "applied" /\ Calls[c].id = q.id
  <2>2. Calls[c] = InPhase(c, q, "applied") /\ Calls' = [Calls EXCEPT ![c] = InPhase(c, q, phase)]
    BY <1>2, <1>3, CallBecomes
  <2>3. Moves(c, q, "applied", phase)
    BY <2>2, PhaseStep
  <2> QED  BY <1>1, <2>3 DEF Moves
<1>4. CASE With(todos, q.id) = {} /\ Become(c, [q EXCEPT !.at = "return"])
  <2> DEFINE r == [q EXCEPT !.at = "return"]
             phase == IF q.doubt THEN "unknown" ELSE "no"
  <2>1. CallIs(c, r) = InPhase(c, q, phase)
    BY <1>1 DEF CallIs, InPhase, Write, RequestType
  <2>2. /\ Calls' = [Calls EXCEPT ![c].phase = phase]
        /\ Calls[c].phase = "applied" /\ Calls[c].id = q.id
    BY <1>3, <1>4, <2>1
  <2>3. CASE q.doubt
    <3>1. Store!Doubt(c)
      BY <1>1, <2>2, <2>3 DEF Store!Doubt, Store!To, Calls
    <3> QED  BY <3>1 DEF StoreStep, Store!Next
  <2>4. CASE ~q.doubt
    <3>1. q.id \notin Store!Ids(todos)
      BY <1>4 DEF With, Store!Ids
    <3>2. Store!Vanish(c)
      BY <1>1, <2>2, <2>4, <3>1 DEF Store!Vanish, Store!To, Calls
    <3> QED  BY <3>2 DEF StoreStep, Store!Next
  <2> QED  BY <2>3, <2>4
<1>5. ASSUME NEW t \in With(todos, q.id), Become(c, [q EXCEPT !.at = "return", !.ok = TRUE, !.row = t])
      PROVE  StoreStep
  <2> DEFINE r == [q EXCEPT !.at = "return", !.ok = TRUE, !.row = t]
  <2>1. CallIs(c, r) = InPhase(c, q, "yes")
    BY <1>1 DEF CallIs, InPhase, Write, RequestType
  <2>2. /\ Calls' = [Calls EXCEPT ![c].phase = "yes"]
        /\ Calls[c].phase = "applied" /\ Calls[c].id = q.id
    BY <1>3, <1>5, <2>1
  <2>3. q.id \in Store!Ids(todos)
    BY DEF With, Store!Ids
  <2>4. Store!Confirm(c)
    BY <1>1, <2>2, <2>3 DEF Store!Confirm, Store!To, Calls
  <2> QED  BY <2>4 DEF StoreStep, Store!Next
<1> QED  BY <1>4, <1>5 DEF Fetch

LEMMA DeleteStore == ASSUME Types, NEW c \in Client, Delete(c) PROVE StoreStep
<1> DEFINE q == req[c]
           ok == Target(c) # {}
           r == [q EXCEPT !.at = "return", !.ok = ok]
           phase == IF ok THEN "yes" ELSE IF q.doubt THEN "unknown" ELSE "no"
<1>1. /\ q \in RequestType /\ q.kind = "delete" /\ q.at = "write"
      /\ Become(c, r) /\ todos' = todos \ Target(c) /\ UNCHANGED nextId
  BY DEF Delete, Types, RequestsOK
<1>2. ok \in BOOLEAN
  OBVIOUS
<1>3. Calls[c] = InPhase(c, q, "called")
      /\ Store!Matching(todos, Calls[c].id, Calls[c].user) = Target(c)
  BY <1>1, CallBecomes, TargetMatches
<1>4. StoreStep
  <2> HIDE DEF ok
  <2>1. CallIs(c, r) = InPhase(c, q, phase)
    BY <1>1, <1>2 DEF CallIs, InPhase, Write, RequestType
  <2>2. Calls' = [Calls EXCEPT ![c] = InPhase(c, q, phase)]
    BY <1>1, <2>1, CallBecomes
  <2>4. Calls' = [Calls EXCEPT ![c].phase = phase] /\ Calls[c].phase = "called" /\ Calls[c].kind = "delete"
    <3> HIDE DEF phase
    <3>1. Moves(c, q, "called", phase)
      BY <1>3, <2>2, PhaseStep
    <3> QED  BY <1>1, <3>1 DEF Moves
  <2>5. CASE ok
    <3>1. Store!Effect(c)
      BY <1>1, <1>3, <2>4, <2>5 DEF Store!Effect, Calls, ok
    <3>2. Store!Apply(c)
      BY <2>4, <2>5, <3>1 DEF Store!Apply, Store!To, Calls
    <3> QED  BY <3>2 DEF StoreStep, Store!Next
  <2>6. CASE ~ok
    <3>1. UNCHANGED todos
      BY <1>1, <2>6 DEF ok
    <3>2. CASE q.doubt
      <4>1. Store!Doubt(c)
        BY <1>1, <2>4, <2>6, <3>1, <3>2 DEF Store!Doubt, Store!To, Calls
      <4> QED  BY <4>1 DEF StoreStep, Store!Next
    <3>3. CASE ~q.doubt
      <4>1. Store!Miss(c)
        BY <1>1, <1>3, <2>4, <2>6, <3>1, <3>3 DEF Store!Miss, Store!To, Calls, ok
      <4> QED  BY <4>1 DEF StoreStep, Store!Next
    <3> QED  BY <3>2, <3>3
  <2> QED  BY <2>5, <2>6
<1> QED  BY <1>4

LEMMA FailStore == ASSUME Types, NEW c \in Client, Fail(c) PROVE StoreStep
<1> DEFINE q == req[c]
<1>1. q \in RequestType /\ RequestIs(q, nextId, dbType)
  BY DEF Types, RequestsOK
<1>2. PICK r : /\ Quiet(c, r)
               /\ \/ Swallowed(c) /\ r = Doubted(c)
                  \/ ~Swallowed(c) /\ Ended(c, r, q.cache, TRUE)
  BY FailDoes
<1>3. CASE ~Swallowed(c)
  <2>1. CacheIs(q.cache, nextId)
    BY <1>1 DEF RequestIs
  <2> QED  BY <1>2, <1>3, <2>1, StoreGoesOn
<1>4. CASE Swallowed(c)
  <2>1. q.kind \in Write /\ q.at \in {"write", "fetch", "return"} /\ (q.at = "return" => q.ok)
    BY <1>1, <1>4, FailDoes DEF Swallowed, Waits, RequestIs, Write
  <2> DEFINE phase == CASE q.at = "write" -> "called" [] q.at = "fetch" -> "applied" [] OTHER -> "yes"
  <2>2. CallIs(c, q) = InPhase(c, q, phase)
    BY <2>1 DEF CallIs, InPhase
  <2>3. CallIs(c, r) = InPhase(c, q, "unknown")
    <3>1. /\ r.at = "return" /\ r.ok = FALSE /\ r.doubt = TRUE
          /\ r.kind = q.kind /\ r.id = q.id /\ r.patch = q.patch
      BY <1>1, <1>2, <1>4 DEF Doubted, RequestType
    <3> QED  BY <2>1, <3>1 DEF CallIs, InPhase
  <2>4. phase \in {"called", "applied", "yes", "no"}
    OBVIOUS
  <2> HIDE DEF phase
  <2>6. Calls[c] = InPhase(c, q, phase) /\ Calls' = [Calls EXCEPT ![c] = InPhase(c, q, "unknown")]
    BY <1>2, <2>2, <2>3, CallBecomes DEF Quiet
  <2>7. Calls' = [Calls EXCEPT ![c].phase = "unknown"] /\ Calls[c].phase \in {"called", "applied", "yes", "no"}
    <3>1. Moves(c, q, phase, "unknown")
      BY <2>6, PhaseStep
    <3> QED  BY <2>4, <3>1 DEF Moves
  <2>8. Store!Doubt(c)
    BY <1>2, <2>7 DEF Store!Doubt, Store!To, Calls, Quiet
  <2> QED  BY <2>8 DEF StoreStep, Store!Next
<1> QED  BY <1>3, <1>4

\* A step of a request that is no call of the store, before or after it.
LEMMA NoStoreStep ==
  ASSUME Types, NEW c \in Client, NEW r, Quiet(c, r), r.kind \notin Write
  PROVE  StoreStep
<1>1. CallIs(c, r) = [phase |-> "idle"]
  BY DEF CallIs
<1> QED  BY <1>1, StoreEnds

LEMMA LoadStore == ASSUME Types, NEW c \in Client, Load(c) PROVE StoreStep
<1> DEFINE q == req[c]
<1>1. q \in RequestType /\ RequestIs(q, nextId, dbType) /\ q.at = "load" /\ q.kind = "toggle"
      /\ q.doubt \in BOOLEAN
  BY DEF Load, Types, RequestsOK, RequestIs, RequestType
<1>2. PICK e, r :
        /\ Given(c, e) /\ Quiet(c, r) /\ CacheIs(q.cache \cup {e}, nextId)
        /\ IF e.row = None THEN Ended(c, r, q.cache \cup {e}, q.doubt) ELSE r = Toggling(c, e)
  BY LoadDoes
<1>3. CASE e.row = None
  BY <1>1, <1>2, <1>3, StoreGoesOn
<1>4. CASE e.row # None
  <2>1. r \in RequestType /\ r.at = "write" /\ r.kind = "toggle" /\ r.id = q.id
    BY <1>1, <1>2, <1>4 DEF Quiet, RequestIs, Toggling, RequestType
  <2>2. CallIs(c, r) = [phase |-> "called", kind |-> "update", id |-> r.id, patch |-> r.patch, user |-> None]
    BY <2>1 DEF CallIs, Write
  <2>3. r.id \in 0..nextId /\ r.patch \in Store!Patch
    BY <1>1, <2>1 DEF RequestIs, RequestType, Patch, Store!Patch, Types, TableOK
  <2>4. Calls' = [Calls EXCEPT ![c] =
          [phase |-> "called", kind |-> "update", id |-> r.id, patch |-> r.patch, user |-> None]]
    BY <1>2, <2>2, CallBecomes DEF Quiet
  <2>5. Store!Begin(c)
    BY <1>2, <2>3, <2>4 DEF Store!Begin, Store!Kind, Calls, Quiet
  <2> QED  BY <2>5 DEF StoreStep, Store!Next
<1> QED  BY <1>3, <1>4

LEMMA ReturnStore == ASSUME Types, NEW c \in Client, Return(c) PROVE StoreStep
<1>1. req[c].doubt \in BOOLEAN
  BY DEF Types, RequestsOK, RequestType
<1>2. PICK r : Quiet(c, r) /\ Ended(c, r, ReturnsTo(c), req[c].doubt)
  BY ReturnDoes
<1>3. CacheIs(ReturnsTo(c), nextId)
  BY ReturnDoes
<1> QED  BY <1>1, <1>2, <1>3, StoreGoesOn

LEMMA StoreSteps == Types /\ [Next]_vars => StoreStep
<1> SUFFICES ASSUME Types, [Next]_vars PROVE StoreStep
  OBVIOUS
<1>1. CASE UNCHANGED vars
  BY <1>1 DEF vars, StoreStep, Store!storeVars, CallOf
<1>2. ASSUME NEW c \in Client, Call(c) \/ Step(c) \/ Fail(c) PROVE StoreStep
  <2>1. CASE Call(c)
    BY <2>1, CallDoes, StoreBegins
  <2>2. CASE ReadRows(c) \/ ReadCount(c) \/ FindById(c) \/ FindAll(c)
    <3>1. PICK r : Looks(c, r)
      BY <2>2, ReadRowsDoes, ReadCountDoes, FindByIdDoes, FindAllDoes
    <3> QED  BY <3>1, NoStoreStep DEF Looks, Write
  <2>3. CASE TodoQuery(c)
    <3>1. PICK e, r : Loads(c, e, r)
      BY <2>3, TodoQueryDoes
    <3>2. r.kind = "load" /\ Quiet(c, r)
      BY <3>1 DEF Loads, Answered, Idle
    <3> QED  BY <3>2, NoStoreStep DEF Write
  <2> QED
    BY <1>2, <2>1, <2>2, <2>3, LoadStore, CreateStore, UpdateStore, FetchStore, DeleteStore,
       ReturnStore, FailStore DEF Step
<1> QED  BY <1>1, <1>2 DEF Next

\* Whichever database is behind them, however many requests interleave and
\* whatever queries fail, both repositories are a store in which each call
\* takes effect at most once, at one moment, on one todo, and answers for it.
THEOREM RepositoriesImplementStore == Spec => StoreSpec
<1>1. Init => Store!Init
  <2> SUFFICES ASSUME Init PROVE Store!Init
    OBVIOUS
  <2>1. \A c \in Client : CallOf(c) = Store!NoCall
    BY DEF Init, CallOf, Idle, Write, Store!NoCall
  <2> QED  BY <2>1 DEF Init, Store!Init
<1>2. Types /\ [Next]_vars => [Store!Next]_(Store!storeVars)
  BY StoreSteps DEF StoreStep
<1> QED  BY <1>1, <1>2, AlwaysTypes, PTL DEF Spec, StoreSpec, Store!Spec
=============================================================================
