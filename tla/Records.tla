------------------------------- MODULE Records -------------------------------
(***************************************************************************)
(* The tables of the content, learning, registry and marketing services.   *)
(* One request inserts at most one entity, so that all entities are kept   *)
(* in one function; what kind an entity is follows from the operation of   *)
(* the request that inserted it.  A document of MongoDB that a service     *)
(* saves as a whole is treated like a row.                                 *)
(***************************************************************************)
EXTENDS Calls, FiniteSets

CONSTANT Keys \* slugs, codes, module keys and the like

VARIABLES
  rows, \* the entity each request has inserted
  held  \* what a request has read besides: a document, a count, a cache entry

recordVars == <<rows, held>>

Live(x) == x # NONE /\ rows[x] # NONE
Table(op) == {x \in Requests : Op(x) = op /\ rows[x] # NONE}
Put(x, row) == rows' = [rows EXCEPT ![x] = row]
Hold(r, value) == held' = [held EXCEPT ![r] = value]

\* A call begins; the id that it names was given by a call that has ended.
Began(r, op) ==
  /\ pc[r] = "idle" /\ Op(r) = op
  /\ On(r) # NONE => Ended(On(r))

\* An operation of one await that inserts an entity
Insert(r, op, row) ==
  /\ Began(r, op)
  /\ Put(r, row)
  /\ Goto(r, "ok")
  /\ UNCHANGED <<locals, held>>

\* findOne of the entity the call is about
Find(r, label) ==
  /\ Live(On(r))
  /\ Reads(r, On(r), rows[On(r)])
  /\ Goto(r, label)
  /\ UNCHANGED recordVars

\* save of the entity found, every column as it was read but for the change;
\* remove of it when row is NONE
Save(r, row, label) ==
  /\ Put(target[r], row)
  /\ Writes(r, rows[target[r]])
  /\ Goto(r, label)
  /\ UNCHANGED held

\* A query whose result is the answer
Answer(r, op, found) ==
  /\ Began(r, op)
  /\ Sees(r, found)
  /\ Goto(r, "ok")
  /\ UNCHANGED recordVars
=============================================================================
