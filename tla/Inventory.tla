------------------------------ MODULE Inventory ------------------------------
(***************************************************************************)
(* InventoryService.adjustStock: a stock level is read, changed and saved  *)
(* under a Redis lock of 5 s, and under nothing else.                      *)
(*                                                                         *)
(* A level is the SET of the adjustments it includes.  warehouse_inventory *)
(* has no unique index on warehouse and product: a row is named after the  *)
(* request that inserted it.                                               *)
(***************************************************************************)
EXTENDS FiniteSets

CONSTANTS
  Requests,  \* calls of adjustStock
  Keys,      \* a warehouse and a product
  KeyOf,     \* what a request adjusts
  NONE

ASSUME InventoryAssumption ==
  /\ NONE \notin Requests
  /\ KeyOf \in [Requests -> Keys]

VARIABLES
  pc,     \* where each request is
  lock,   \* the holder of lock inventory:<warehouse>:<product>
  rows,   \* the warehouse_inventory rows that exist
  stock,  \* quantity of each row
  target, \* the row a request has read; its own name: a row it will insert
  seen    \* the quantity it has read

vars == <<pc, lock, rows, stock, target, seen>>

----------------------------------------------------------------------------
Working == {"find", "save", "release_ok", "release_err"}
Final == {"ok", "failed"}

TypeOK ==
  /\ pc \in [Requests -> {"idle"} \cup Working \cup Final]
  /\ lock \in [Keys -> Requests \cup {NONE}]
  /\ rows \in SUBSET Requests
  /\ stock \in [Requests -> SUBSET Requests]
  /\ target \in [Requests -> Requests \cup {NONE}]
  /\ seen \in [Requests -> SUBSET Requests]

Init ==
  /\ pc = [r \in Requests |-> "idle"]
  /\ lock = [k \in Keys |-> NONE]
  /\ rows = {}
  /\ stock = [r \in Requests |-> {}]
  /\ target = [r \in Requests |-> NONE]
  /\ seen = [r \in Requests |-> {}]

Goto(r, label) == pc' = [pc EXCEPT ![r] = label]
Holds(r) == lock[KeyOf[r]] = r

\* Mutation: the query confuses the product with the warehouse.
RowsElsewhere(k) == {x \in rows : KeyOf[x] # k}
RowsOf(k) == {x \in rows : KeyOf[x] = k}

----------------------------------------------------------------------------
Acquire(r) ==
  /\ pc[r] = "idle"
  /\ lock[KeyOf[r]] = NONE
  /\ lock' = [lock EXCEPT ![KeyOf[r]] = r]
  /\ Goto(r, "find")
  /\ UNCHANGED <<rows, stock, target, seen>>

\* LockService gives up after ten retries.
AcquireFails(r) ==
  /\ pc[r] = "idle"
  /\ lock[KeyOf[r]] # NONE
  /\ Goto(r, "failed")
  /\ UNCHANGED <<lock, rows, stock, target, seen>>

\* Any row of the key, or none: then the request will insert one.
Find(r) ==
  /\ pc[r] = "find"
  /\ \/ /\ RowsOf(KeyOf[r]) = {}
        /\ target' = [target EXCEPT ![r] = r]
        /\ seen' = [seen EXCEPT ![r] = {}]
     \/ \E x \in RowsOf(KeyOf[r]) :
          /\ target' = [target EXCEPT ![r] = x]
          /\ seen' = [seen EXCEPT ![r] = stock[x]]
  /\ Goto(r, "save")
  /\ UNCHANGED <<lock, rows, stock>>

\* quantity = what was read + the adjustment, whatever the row says by now
Write(r) ==
  /\ rows' = rows \cup {target[r]}
  /\ stock' = [stock EXCEPT ![target[r]] = seen[r] \cup {r}]

Save(r) ==
  /\ pc[r] = "save"
  /\ Write(r)
  /\ Goto(r, "release_ok")
  /\ UNCHANGED <<lock, target, seen>>

\* A query throws; a save that throws may have been done.
Fails(r) ==
  /\ pc[r] \in {"find", "save"}
  /\ \/ UNCHANGED <<rows, stock>>
     \/ pc[r] = "save" /\ Write(r)
  /\ Goto(r, "release_err")
  /\ UNCHANGED <<lock, target, seen>>

\* Mutation: the error of a release is swallowed.
ReleaseQuietly(r) ==
  /\ pc[r] \in {"release_ok", "release_err"}
  /\ lock' = IF Holds(r) THEN [lock EXCEPT ![KeyOf[r]] = NONE] ELSE lock
  /\ Goto(r, IF pc[r] = "release_ok" THEN "ok" ELSE "failed")
  /\ UNCHANGED <<rows, stock, target, seen>>

\* lock.release() throws when the lock is no longer ours, and that error
\* replaces what the method was about to return.
Release(r) ==
  /\ pc[r] \in {"release_ok", "release_err"}
  /\ lock' = IF Holds(r) THEN [lock EXCEPT ![KeyOf[r]] = NONE] ELSE lock
  /\ Goto(r, IF pc[r] = "release_ok" /\ Holds(r) THEN "ok" ELSE "failed")
  /\ UNCHANGED <<rows, stock, target, seen>>

\* The 5 s are over, whatever the holder is doing.
LockExpires(k) ==
  /\ lock[k] # NONE
  /\ lock' = [lock EXCEPT ![k] = NONE]
  /\ UNCHANGED <<pc, rows, stock, target, seen>>

\* The process dies; Redis keeps the lock.
Crash(r) ==
  /\ pc[r] \in Working
  /\ Goto(r, "failed")
  /\ UNCHANGED <<lock, rows, stock, target, seen>>

Next ==
  \/ \E r \in Requests :
       \/ Acquire(r) \/ AcquireFails(r) \/ Find(r) \/ Save(r) \/ Release(r)
       \/ Fails(r) \/ Crash(r)
  \/ \E k \in Keys : LockExpires(k)

Spec == Init /\ [][Next]_vars

----------------------------------------------------------------------------
(* Properties *)

\* A request that has taken the lock of a key and does not hold it any more:
\* it reports an error, or will.
Overtaken(s) == pc[s] = "failed" \/ (pc[s] \in Working /\ ~Holds(s))

InStock(r) == \E x \in RowsOf(KeyOf[r]) : r \in stock[x]

\* An adjustment that was acknowledged is only ever overwritten by a request
\* that had read the quantity without it and whose own lock had expired; that
\* request does not report success.  No update is lost without an error.
LostUpdatesAreNoticed ==
  \A r \in Requests :
    pc[r] = "ok" /\ ~InStock(r) =>
      \E s \in Requests :
        target[s] = target[r] /\ r \notin seen[s] /\ s # r /\ Overtaken(s)

\* A second row for a product in a warehouse is never the work of two
\* requests that both succeed.
SecondRowsAreNoticed ==
  \A x, y \in rows :
    KeyOf[x] = KeyOf[y] /\ pc[x] = "ok" /\ pc[y] = "ok" => x = y
=============================================================================
