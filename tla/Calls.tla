-------------------------------- MODULE Calls --------------------------------
(***************************************************************************)
(* What the services of the social and content modules have in common: a   *)
(* request calls one operation of a service and runs it await by await, in *)
(* no transaction and under no lock.  A request that is refused ends like  *)
(* one whose await rejects, or does not begin.                             *)
(*                                                                         *)
(* A row is named after the request that inserted it.  save(entity) writes *)
(* every column as it was read; what another request wrote meanwhile is    *)
(* lost.  stale and before are history variables, for the properties.      *)
(***************************************************************************)
EXTENDS Naturals

CONSTANTS
  Requests,
  People,
  Plans,  \* the calls the requests may make
  NONE

VARIABLES
  call,   \* what each request calls
  pc,     \* the await it has reached
  target, \* the row it has found,
  seen,   \* and what was in it
  todo,   \* the people it has still to deal with
  stale,  \* the requests that have overwritten a row they had seen otherwise
  before  \* the requests that had ended well before this one began

locals == <<target, seen, todo, stale>>
callVars == <<call, pc, before, locals>>

Op(r) == call[r].op
By(r) == call[r].by     \* the user of the session
On(r) == call[r].on     \* the request that made what the call is about
To(r) == CHOOSE u \in People : u \in call[r].to
Arg(r) == call[r].arg
Key(r) == call[r].key   \* the slug, code or key it names
Place(r) == call[r].at  \* and the place or the second thing
Made(r) == call[r].made \* the call was made, and ended, before the others begin

CallsInit ==
  /\ call \in Plans
  /\ pc = [r \in Requests |-> IF Made(r) THEN "ok" ELSE "idle"]
  /\ target = [r \in Requests |-> NONE]
  /\ seen = [r \in Requests |-> NONE]
  /\ todo = [r \in Requests |-> {}]
  /\ stale = {}
  /\ before = [r \in Requests |-> {}]

Ended(r) == pc[r] \in {"ok", "failed"}
AllWell == \A r \in Requests : pc[r] \in {"idle", "ok"}
Overlap(r, s) == r # s /\ r \notin before[s] /\ s \notin before[r]

Goto(r, label) ==
  /\ pc' = [pc EXCEPT ![r] = label]
  /\ before' = IF pc[r] = "idle"
               THEN [before EXCEPT ![r] = {s \in Requests : pc[s] = "ok"}]
               ELSE before

\* An entity is read ...
Reads(r, id, row) ==
  /\ target' = [target EXCEPT ![r] = id]
  /\ seen' = [seen EXCEPT ![r] = row]
  /\ UNCHANGED <<todo, stale>>

\* ... and saved or removed, when the table holds row in its place.
Writes(r, row) ==
  /\ stale' = IF row = seen[r] THEN stale ELSE stale \cup {r}
  /\ UNCHANGED <<target, seen, todo>>

Sees(r, people) ==
  /\ todo' = [todo EXCEPT ![r] = people]
  /\ UNCHANGED <<target, seen, stale>>

\* Any await may reject, and the process may die in any.
Fails(r) ==
  /\ pc[r] # "idle" /\ ~Ended(r)
  /\ Goto(r, "failed")
  /\ UNCHANGED locals
=============================================================================
