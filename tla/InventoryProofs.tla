--------------------------- MODULE InventoryProofs ---------------------------
(***************************************************************************)
(* What adjustStock promises in spite of expired locks, for any number of  *)
(* requests, products and warehouses.                                      *)
(***************************************************************************)
EXTENDS Inventory, TLAPS

\* A request that has saved and will report success, if its lock lasts.
Good(r) == pc[r] = "ok" \/ (pc[r] = "release_ok" /\ Holds(r))

\* Somebody has read the row of r without r, and does not report success.
Excuse(r) ==
  \E s \in Requests :
    target[s] = target[r] /\ r \notin seen[s] /\ s # r /\ Overtaken(s)

LocksOwned ==
  \A k \in Keys : lock[k] # NONE => KeyOf[lock[k]] = k /\ pc[lock[k]] # "idle"

TargetsRead ==
  \A r \in Requests :
    /\ pc[r] \in {"idle", "find"} => target[r] = NONE
    /\ pc[r] = "save" => target[r] # NONE
    /\ pc[r] \in {"release_ok", "ok"} => target[r] \in rows
    /\ target[r] # NONE =>
         KeyOf[target[r]] = KeyOf[r] /\ (target[r] = r \/ target[r] \in rows)

RowsInserted ==
  \A x \in rows : target[x] = x /\ pc[x] \notin {"idle", "find", "save"}

GoodKept ==
  \A r \in Requests : Good(r) => r \in stock[target[r]] \/ Excuse(r)

\* Who is about to save under the lock has read every adjustment that was
\* acknowledged.
FreshReads ==
  \A r, s \in Requests :
    /\ pc[r] = "ok" /\ target[r] = target[s] /\ r # s
    /\ pc[s] = "save" /\ Holds(s)
    => r \in seen[s] \/ Excuse(r)

\* Who is about to insert under the lock is the first to.
FirstRows ==
  \A x \in rows, s \in Requests :
    KeyOf[x] = KeyOf[s] /\ pc[x] = "ok" =>
      ~(pc[s] = "save" /\ Holds(s) /\ target[s] = s)

OneGoodRow ==
  \A x, y \in rows : KeyOf[x] = KeyOf[y] /\ Good(x) /\ Good(y) => x = y

IInv ==
  /\ TypeOK
  /\ LocksOwned
  /\ TargetsRead
  /\ RowsInserted
  /\ GoodKept
  /\ FreshReads
  /\ FirstRows
  /\ OneGoodRow

----------------------------------------------------------------------------
USE InventoryAssumption DEF Working, Final

\* Initially nobody has done anything.
LEMMA InitInv == Init => IInv
  BY DEF Init, IInv, TypeOK, LocksOwned, TargetsRead, RowsInserted, GoodKept,
         FreshReads, FirstRows, OneGoodRow, Good

\* An excuse stays one: nobody gets a lock back.
LEMMA ExcusesStay ==
  ASSUME IInv, Next, NEW r \in Requests, target[r] # NONE, Excuse(r)
  PROVE  target'[r] = target[r] /\ Excuse(r)'
<1>1. PICK s \in Requests :
        target[s] = target[r] /\ r \notin seen[s] /\ s # r /\ Overtaken(s)
  BY DEF Excuse
<1>2. pc[s] \notin {"idle", "find"} /\ pc[r] \notin {"idle", "find"}
  BY <1>1 DEF IInv, TargetsRead
<1>3. target'[s] = target[s] /\ target'[r] = target[r] /\ seen'[s] = seen[s]
  BY <1>2 DEF Next, Acquire, AcquireFails, Find, Save, Release, Fails, Crash,
              LockExpires, Goto, IInv, TypeOK
<1>4. Overtaken(s)'
  BY <1>1, <1>2 DEF Overtaken, Holds, Next, Acquire, AcquireFails, Find, Save,
       Release, Fails, Crash, LockExpires, Goto, IInv, TypeOK
<1>. QED  BY <1>1, <1>3, <1>4 DEF Excuse

\* Steps that leave the table, and what every request has read, alone.
LEMMA QuietInv ==
  ASSUME IInv, NEW r \in Requests,
         Acquire(r) \/ AcquireFails(r) \/ Release(r) \/ Crash(r)
           \/ \E k \in Keys : LockExpires(k)
  PROVE  IInv'
<1>0. Next /\ UNCHANGED <<rows, stock, target, seen>>
  BY DEF Next, Acquire, AcquireFails, Release, Crash, LockExpires
<1>1. TypeOK'
  BY <1>0 DEF IInv, TypeOK, Acquire, AcquireFails, Release, Crash, LockExpires, Goto, Holds
<1>2. LocksOwned'
  BY DEF IInv, TypeOK, LocksOwned, Acquire, AcquireFails, Release, Crash,
         LockExpires, Goto, Holds
<1>3. TargetsRead'
  BY <1>0 DEF IInv, TypeOK, TargetsRead, Acquire, AcquireFails, Release, Crash,
              LockExpires, Goto
<1>4. RowsInserted'
  BY <1>0 DEF IInv, TypeOK, RowsInserted, TargetsRead, Acquire, AcquireFails,
              Release, Crash, LockExpires, Goto
<1>5. \A q \in Requests : Good(q)' => Good(q) /\ target[q] # NONE
  BY DEF IInv, TypeOK, TargetsRead, Good, Holds, Acquire, AcquireFails, Release, Crash,
         LockExpires, Goto
<1>6. GoodKept'
  BY <1>0, <1>5, ExcusesStay DEF IInv, GoodKept
<1>7. FreshReads'
  <2>. SUFFICES ASSUME NEW q \in Requests, NEW s \in Requests,
                       pc'[q] = "ok", target[q] = target[s], q # s,
                       pc'[s] = "save", Holds(s)'
                PROVE  q \in seen[s] \/ Excuse(q)'
    BY <1>0 DEF FreshReads
  <2>1. pc[s] = "save" /\ Holds(s)
    BY DEF IInv, TypeOK, Holds, Acquire, AcquireFails, Release, Crash, LockExpires, Goto
  <2>2. target[q] # NONE /\ KeyOf[q] = KeyOf[s]
    BY <2>1, <1>5 DEF IInv, TargetsRead
  <2>3. pc[q] = "ok"
    BY <2>1, <2>2, <1>5 DEF Good, Holds, IInv, TypeOK, Acquire, AcquireFails, Release,
                            Crash, LockExpires, Goto
  <2>. QED  BY <1>0, <2>1, <2>2, <2>3, ExcusesStay DEF IInv, FreshReads
<1>8. FirstRows'
  <2>. SUFFICES ASSUME NEW x \in rows, NEW s \in Requests, KeyOf[x] = KeyOf[s],
                       pc'[x] = "ok", pc'[s] = "save", Holds(s)', target[s] = s
                PROVE  FALSE
    BY <1>0 DEF FirstRows
  <2>. x \in Requests
    BY DEF IInv, TypeOK
  <2>1. pc[s] = "save" /\ Holds(s)
    BY DEF IInv, TypeOK, Holds, Acquire, AcquireFails, Release, Crash, LockExpires, Goto
  <2>2. pc[x] = "ok"
    BY <2>1, <1>5 DEF Good, Holds, IInv, TypeOK, Acquire, AcquireFails, Release,
                      Crash, LockExpires, Goto
  <2>. QED  BY <2>1, <2>2 DEF IInv, FirstRows
<1>9. OneGoodRow'
  BY <1>0, <1>5 DEF IInv, TypeOK, OneGoodRow
<1>. QED  BY <1>1, <1>2, <1>3, <1>4, <1>6, <1>7, <1>8, <1>9 DEF IInv

\* Reading the row: it holds every acknowledged adjustment that has no excuse.
LEMMA FindInv ==
  ASSUME IInv, NEW r \in Requests, Find(r)
  PROVE  IInv'
<1>0. Next /\ UNCHANGED <<rows, stock, lock>> /\ pc[r] = "find" /\ target[r] = NONE
  BY DEF Next, Find, IInv, TargetsRead
<1>1. TypeOK'
  BY DEF IInv, TypeOK, Find, Goto, RowsOf
<1>2. LocksOwned'
  BY DEF IInv, TypeOK, LocksOwned, Find, Goto
<1>3. TargetsRead'
  BY DEF IInv, TypeOK, TargetsRead, Find, Goto, RowsOf
<1>4. RowsInserted'
  BY DEF IInv, TypeOK, RowsInserted, TargetsRead, Find, Goto
<1>5. \A q \in Requests : Good(q)' =>
       Good(q) /\ target[q] # NONE /\ q # r /\ target'[q] = target[q]
  BY DEF IInv, TypeOK, TargetsRead, Good, Holds, Find, Goto
<1>6. GoodKept'
  BY <1>0, <1>5, ExcusesStay DEF IInv, GoodKept
<1>7. FreshReads'
  <2>. SUFFICES ASSUME NEW q \in Requests, NEW s \in Requests,
                       pc'[q] = "ok", target'[q] = target'[s], q # s,
                       pc'[s] = "save", Holds(s)'
                PROVE  q \in seen'[s] \/ Excuse(q)'
    BY DEF FreshReads
  <2>1. pc[q] = "ok" /\ q # r /\ target'[q] = target[q] /\ target[q] \in rows
        /\ KeyOf[target[q]] = KeyOf[q]
    BY DEF IInv, TypeOK, TargetsRead, Find, Goto
  <2>2. Excuse(q) => Excuse(q)'
    BY <2>1, <1>0, ExcusesStay DEF IInv, TypeOK
  <2>3. CASE s # r
    <3>1. pc[s] = "save" /\ Holds(s) /\ target'[s] = target[s] /\ seen'[s] = seen[s]
      BY <2>3 DEF IInv, TypeOK, Holds, Find, Goto
    <3>. QED  BY <3>1, <2>1, <2>2 DEF IInv, FreshReads
  <2>4. CASE s = r /\ target'[r] \in rows
    <3>1. seen'[r] = stock[target'[r]]
      BY <2>4 DEF Find, IInv, TypeOK, RowsInserted, TargetsRead, RowsOf
    <3>. QED  BY <3>1, <2>1, <2>2, <2>4 DEF IInv, GoodKept, Good
  <2>5. CASE s = r /\ target'[r] \notin rows
    BY <2>5, <2>1
  <2>. QED  BY <2>3, <2>4, <2>5
<1>8. FirstRows'
  <2>. SUFFICES ASSUME NEW x \in rows, NEW s \in Requests, KeyOf[x] = KeyOf[s],
                       pc'[x] = "ok", pc'[s] = "save", Holds(s)', target'[s] = s
                PROVE  FALSE
    BY <1>0 DEF FirstRows
  <2>1. x \in Requests /\ x # r /\ pc[x] = "ok"
    BY DEF IInv, TypeOK, Find, Goto
  <2>2. CASE s = r
    BY <2>1, <2>2, <1>0 DEF Find, RowsOf, IInv, TypeOK, RowsInserted
  <2>3. CASE s # r
    BY <2>1, <2>3 DEF IInv, TypeOK, FirstRows, Find, Goto, Holds
  <2>. QED  BY <2>2, <2>3
<1>9. OneGoodRow'
  BY <1>0, <1>5 DEF IInv, TypeOK, OneGoodRow
<1>. QED  BY <1>1, <1>2, <1>3, <1>4, <1>6, <1>7, <1>8, <1>9 DEF IInv

\* Saving, with or without an error: who has lost the lock is the excuse of
\* those it overwrites.
LEMMA SaveInv ==
  ASSUME IInv, NEW r \in Requests, Save(r) \/ Fails(r)
  PROVE  IInv'
<1>0. Next /\ UNCHANGED <<lock, target, seen>> /\ pc[r] \in {"find", "save"}
  BY DEF Next, Save, Fails
<1>w. UNCHANGED <<rows, stock>> \/ (pc[r] = "save" /\ Write(r))
  BY DEF Save, Fails
<1>p. /\ pc' = [pc EXCEPT ![r] = pc'[r]]
      /\ pc'[r] = "release_err" \/ (pc'[r] = "release_ok" /\ pc[r] = "save" /\ Write(r))
  BY DEF Save, Fails, Goto, IInv, TypeOK
<1>k. \A q \in Requests : target[q] # NONE => target[q] \in Requests
  BY DEF IInv, TypeOK
<1>1. TypeOK'
  BY <1>0, <1>w, <1>p, <1>k DEF IInv, TypeOK, TargetsRead, Write
<1>2. LocksOwned'
  BY <1>0, <1>p DEF IInv, TypeOK, LocksOwned
<1>3. TargetsRead'
  BY <1>0, <1>w, <1>p DEF IInv, TypeOK, TargetsRead, Write
<1>4. RowsInserted'
  BY <1>0, <1>w, <1>p, <1>k DEF IInv, TypeOK, RowsInserted, TargetsRead, Write
<1>5. \A q \in Requests \ {r} : Good(q)' <=> Good(q)
  BY <1>0, <1>p DEF IInv, TypeOK, Good, Holds
<1>6. GoodKept'
  <2>. SUFFICES ASSUME NEW q \in Requests, Good(q)'
                PROVE  q \in stock'[target[q]] \/ Excuse(q)'
    BY <1>0 DEF GoodKept
  <2>1. CASE q = r
    BY <2>1, <1>0, <1>p, <1>k DEF Good, Write, IInv, TypeOK, TargetsRead
  <2>2. CASE q # r
    <3>1. Good(q) /\ target[q] \in rows
      BY <2>2, <1>5 DEF IInv, TargetsRead, Good
    <3>2. target[q] # NONE
      BY <3>1 DEF IInv, TypeOK
    <3>3. CASE Excuse(q)
      BY <3>2, <3>3, <1>0, ExcusesStay
    <3>4. CASE q \in stock[target[q]] /\ ~(target[q] = target[r] /\ Write(r))
      BY <3>4, <1>w, <3>1, <1>k DEF Write, IInv, TypeOK
    <3>5. CASE q \in stock[target[q]] /\ target[q] = target[r] /\ Write(r) /\ q \in seen[r]
      BY <3>5, <3>1 DEF Write, IInv, TypeOK
    <3>6. CASE target[q] = target[r] /\ pc[r] = "save" /\ q \notin seen[r] /\ ~Holds(r)
      <4>1. Overtaken(r)'
        BY <3>6, <1>0, <1>p DEF Overtaken, Holds, IInv, TypeOK
      <4>. QED  BY <4>1, <3>6, <1>0, <2>2 DEF Excuse
    <3>7. CASE target[q] = target[r] /\ pc[r] = "save" /\ q \notin seen[r] /\ Holds(r)
      <4>1. KeyOf[q] = KeyOf[r]
        BY <3>7, <3>2 DEF IInv, TargetsRead
      <4>2. pc[q] = "ok"
        BY <4>1, <3>1, <3>7, <2>2 DEF Good, Holds
      <4>3. Excuse(q)
        BY <4>2, <3>7, <2>2 DEF IInv, FreshReads
      <4>. QED  BY <4>3, <3>2, <1>0, ExcusesStay
    <3>. QED  BY <3>1, <3>3, <3>4, <3>5, <3>6, <3>7, <1>w DEF IInv, GoodKept
  <2>. QED  BY <2>1, <2>2
<1>7. FreshReads'
  <2>. SUFFICES ASSUME NEW q \in Requests, NEW s \in Requests,
                       pc'[q] = "ok", target[q] = target[s], q # s,
                       pc'[s] = "save", Holds(s)'
                PROVE  q \in seen[s] \/ Excuse(q)'
    BY <1>0 DEF FreshReads
  <2>1. pc[q] = "ok" /\ pc[s] = "save" /\ Holds(s)
    BY <1>0, <1>p DEF Holds, IInv, TypeOK
  <2>2. target[q] # NONE
    BY <2>1 DEF IInv, TypeOK, TargetsRead
  <2>. QED  BY <2>1, <2>2, <1>0, ExcusesStay DEF IInv, FreshReads
<1>8. FirstRows'
  <2>. SUFFICES ASSUME NEW x \in rows', NEW s \in Requests, KeyOf[x] = KeyOf[s],
                       pc'[x] = "ok", pc'[s] = "save", Holds(s)', target[s] = s
                PROVE  FALSE
    BY <1>0 DEF FirstRows
  <2>1. x \in Requests /\ pc[x] = "ok" /\ x # r /\ pc[s] = "save" /\ Holds(s)
    BY <1>0, <1>1, <1>p DEF Holds, IInv, TypeOK
  <2>2. x \in rows
    BY <2>1, <1>w, <1>0 DEF Write, IInv, TargetsRead
  <2>. QED  BY <2>1, <2>2 DEF IInv, FirstRows
<1>9. OneGoodRow'
  <2>. SUFFICES ASSUME NEW x \in rows', NEW y \in rows', KeyOf[x] = KeyOf[y],
                       Good(x)', Good(y)', x # y
                PROVE  FALSE
    BY DEF OneGoodRow
  <2>0. x \in Requests /\ y \in Requests
    BY <1>1 DEF TypeOK
  <2>1. \A a, b \in rows' : KeyOf[a] = KeyOf[b] /\ Good(a)' /\ Good(b)' /\ a # b /\ a = r
          => FALSE
    <3>. SUFFICES ASSUME NEW b \in rows', KeyOf[r] = KeyOf[b], Good(r)', Good(b)', r # b,
                         r \in rows'
                  PROVE  FALSE
      OBVIOUS
    <3>0. b \in Requests
      BY <1>1 DEF TypeOK
    <3>1. pc[r] = "save" /\ Write(r) /\ Holds(r)
      BY <1>0, <1>p DEF Good, Holds
    <3>2. pc[b] = "ok"
      BY <3>0, <3>1, <1>5 DEF Good, Holds
    <3>3. b \in rows
      BY <3>0, <3>2, <1>w, <1>0 DEF Write, IInv, TargetsRead
    <3>4. target[r] = r
      BY <1>4, <1>0 DEF RowsInserted
    <3>. QED  BY <3>1, <3>2, <3>3, <3>4 DEF IInv, FirstRows
  <2>2. CASE x = r \/ y = r
    BY <2>1, <2>2
  <2>3. CASE x # r /\ y # r
    <3>1. Good(x) /\ Good(y)
      BY <2>0, <2>3, <1>5
    <3>2. x \in rows /\ y \in rows
      BY <2>0, <3>1, <2>3, <1>w, <1>4, <1>0 DEF Write, IInv, TargetsRead, RowsInserted, Good
    <3>. QED  BY <3>1, <3>2 DEF IInv, OneGoodRow
  <2>. QED  BY <2>2, <2>3
<1>. QED  BY <1>1, <1>2, <1>3, <1>4, <1>6, <1>7, <1>8, <1>9 DEF IInv

LEMMA NextInv == IInv /\ [Next]_vars => IInv'
<1>. SUFFICES ASSUME IInv, [Next]_vars
              PROVE  IInv'
  OBVIOUS
<1>1. CASE UNCHANGED vars
  BY <1>1 DEF vars, IInv, TypeOK, LocksOwned, TargetsRead, RowsInserted, GoodKept,
              FreshReads, FirstRows, OneGoodRow, Good, Excuse, Overtaken, Holds
<1>2. ASSUME NEW r \in Requests,
             Acquire(r) \/ AcquireFails(r) \/ Release(r) \/ Crash(r)
      PROVE  IInv'
  BY <1>2, QuietInv
<1>3. ASSUME NEW r \in Requests, Find(r)
      PROVE  IInv'
  BY <1>3, FindInv
<1>4. ASSUME NEW r \in Requests, Save(r) \/ Fails(r)
      PROVE  IInv'
  BY <1>4, SaveInv
<1>5. ASSUME NEW k \in Keys, LockExpires(k)
      PROVE  IInv'
  <2>1. lock[k] \in Requests
    BY <1>5 DEF LockExpires, IInv, TypeOK
  <2>. QED  BY <1>5, <2>1, QuietInv
<1>. QED  BY <1>1, <1>2, <1>3, <1>4, <1>5 DEF Next

----------------------------------------------------------------------------
\* The variables have their types in every reachable state.
THEOREM TypeCorrect == Spec => []TypeOK
<1>1. IInv => TypeOK
  BY DEF IInv
<1>. QED  BY <1>1, InitInv, NextInv, PTL DEF Spec

\* An acknowledged adjustment is in the stock, or was overwritten by a request
\* that does not report success, for any number of requests and keys.
THEOREM LossesAreNoticed == Spec => []LostUpdatesAreNoticed
<1>1. IInv => LostUpdatesAreNoticed
  BY DEF IInv, TypeOK, TargetsRead, GoodKept, Good, Excuse, LostUpdatesAreNoticed,
         InStock, RowsOf
<1>. QED  BY <1>1, InitInv, NextInv, PTL DEF Spec

\* Two rows for one product in one warehouse are never both the work of
\* requests that succeed.
THEOREM SecondRowsFail == Spec => []SecondRowsAreNoticed
<1>1. IInv => SecondRowsAreNoticed
  BY DEF IInv, OneGoodRow, Good, SecondRowsAreNoticed
<1>. QED  BY <1>1, InitInv, NextInv, PTL DEF Spec
=============================================================================
