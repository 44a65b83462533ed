----------------------------- MODULE TodoStore -----------------------------
(***************************************************************************)
(* What ITodoRepository (repositories/TodoRepository.interface.ts) offers  *)
(* to its callers, whichever database is behind it: a table of todos and,  *)
(* for each client, at most one call that changes it.  A call takes effect *)
(* at one moment, once, and touches one todo; what it answers agrees with  *)
(* the effect unless a query was rejected on the way.                      *)
(***************************************************************************)
EXTENDS Integers

CONSTANTS
  Client,  \* callers, each with one call at a time
  User,
  Title,
  None     \* no todo, no user given, a field left out

VARIABLES
  todos,   \* the rows
  nextId,  \* todos created so far; the id of the next one
  call     \* the call of each client, and how far it has come

storeVars == <<todos, nextId, call>>

Row == [id : Nat, user : User, title : Title, completed : BOOLEAN]

\* UpdateTodoDTO: the fields given, None for a field that is left out.
Patch == [title : Title \cup {None}, completed : BOOLEAN \cup {None}]

NoCall == [phase |-> "idle"]
Phase == {"called", "applied", "yes", "no", "unknown"}
Kind == {"create", "update", "delete"}

Patched(r, p) ==
  [id |-> r.id, user |-> r.user,
   title |-> IF p.title = None THEN r.title ELSE p.title,
   completed |-> IF p.completed = None THEN r.completed ELSE p.completed]

\* The todo with that id, provided it is the user's or no user is given.
Matching(table, id, u) == {r \in table : r.id = id /\ u \in {None, r.user}}

Ids(table) == {r.id : r \in table}

Init ==
  /\ todos = {}
  /\ nextId = 0
  /\ call = [c \in Client |-> NoCall]

To(c, phase) == call' = [call EXCEPT ![c].phase = phase]

\* The call before it is over, if there was one.  The user is None where a
\* caller gives none.
Begin(c) ==
  /\ \E kind \in Kind, id \in 0..nextId, p \in Patch, u \in User \cup {None} :
       call' = [call EXCEPT ![c] =
         [phase |-> "called", kind |-> kind, id |-> id, patch |-> p, user |-> u]]
  /\ UNCHANGED <<todos, nextId>>

\* The effect of a call: one todo comes, changes or goes.
Effect(c) ==
  LET found == Matching(todos, call[c].id, call[c].user) IN
  \/ /\ call[c].kind = "create"
     /\ todos' = todos \cup {[id |-> nextId, user |-> call[c].user,
                              title |-> call[c].patch.title,
                              completed |-> call[c].patch.completed]}
     /\ nextId' = nextId + 1
  \/ /\ call[c].kind = "update" /\ found # {}
     /\ todos' = (todos \ found) \cup {Patched(r, call[c].patch) : r \in found}
     /\ UNCHANGED nextId
  \/ /\ call[c].kind = "delete" /\ found # {}
     /\ todos' = todos \ found
     /\ UNCHANGED nextId

\* The answer is known at once, or an update takes another look for it.
Apply(c) ==
  /\ call[c].phase = "called"
  /\ Effect(c)
  /\ To(c, "yes") \/ (call[c].kind = "update" /\ To(c, "applied"))

Confirm(c) ==
  /\ call[c].phase = "applied"
  /\ call[c].id \in Ids(todos)
  /\ To(c, "yes")
  /\ UNCHANGED <<todos, nextId>>

\* Nothing to change: nothing is changed, and the answer says so.
Miss(c) ==
  /\ call[c].phase = "called" /\ call[c].kind # "create"
  /\ Matching(todos, call[c].id, call[c].user) = {}
  /\ To(c, "no")
  /\ UNCHANGED <<todos, nextId>>

\* Updated, and deleted by somebody else before the second look.
Vanish(c) ==
  /\ call[c].phase = "applied"
  /\ call[c].id \notin Ids(todos)
  /\ To(c, "no")
  /\ UNCHANGED <<todos, nextId>>

\* A query was rejected; the caller cannot tell whether the effect took place.
Doubt(c) ==
  /\ call[c].phase \in {"called", "applied", "yes", "no"}
  /\ To(c, "unknown")
  /\ UNCHANGED <<todos, nextId>>

\* The call returns, or throws before it has an answer.
End(c) ==
  /\ call[c] # NoCall
  /\ call' = [call EXCEPT ![c] = NoCall]
  /\ UNCHANGED <<todos, nextId>>

Next ==
  \E c \in Client :
    \/ Begin(c) \/ Apply(c) \/ Confirm(c) \/ Miss(c) \/ Vanish(c) \/ Doubt(c) \/ End(c)

Spec == Init /\ [][Next]_storeVars
=============================================================================
