------------------------------ MODULE Checkout ------------------------------
(***************************************************************************)
(* The shopping cart of one user, the abandoned-cart job, and              *)
(* createOrderFromCart.                                                    *)
(*                                                                         *)
(* The cart is one MongoDB document, read whole and saved whole; the       *)
(* orders and their items are rows of one PostgreSQL transaction; the jobs *)
(* are in Redis.  Nothing ties the three together.                         *)
(***************************************************************************)
EXTENDS Naturals, FiniteSetsExt

CONSTANTS
  Lines,       \* products and variants
  Warehouses,
  WarehouseOf, \* the variant's warehouse, or 'DEFAULT_WH'
  Price,
  Requests,    \* calls of ShoppingCartService and createOrderFromCart
  Plans,       \* the methods the requests may call
  LineOf,      \* a request's dto: a line
  Qty,         \* and a quantity
  External,    \* or a paymentMethod that is STRIPE or PAYPAL
  NONE

ASSUME CheckoutAssumption ==
  /\ WarehouseOf \in [Lines -> Warehouses]
  /\ Price \in [Lines -> Nat]
  /\ Plans \subseteq [Requests -> {"get", "add", "update", "remove", "clear", "checkout"}]
  /\ LineOf \in [Requests -> Lines]
  /\ Qty \in [Requests -> Nat]
  /\ External \subseteq Requests
  /\ NONE \notin [Lines -> Nat] \cup Warehouses

VARIABLES
  cart,     \* the document: a quantity for each line, 0 when it is not there
  job,      \* the job abandoned-cart-<user>
  jobItems, \* the cart it carries
  op,       \* the method each request calls
  pc,       \* where it is
  local,    \* the cart a request has read; what a checkout orders
  txn,      \* the orders and items a checkout has saved in its transaction
  orders,   \* committed: <<checkout, warehouse, parent's warehouse or NONE>>
  items,    \* committed: <<checkout, line, quantity>>
  jobs,     \* sales-queue: <<name, checkout, warehouse>>
  sessions  \* payments: <<checkout, warehouse of the order, amount>>

cartVars == <<cart, job, jobItems>>
txnVars == <<txn, orders, items>>
outVars == <<jobs, sessions>>
vars == <<cartVars, op, pc, local, txnVars, outVars>>

----------------------------------------------------------------------------
Empty == [l \in Lines |-> 0]
LinesIn(c) == {l \in Lines : c[l] > 0}
JobNames == {"order-confirmation", "stock-sync"}
Final == {"ok", "failed"}
Labels == {"idle", "insert", "save", "job", "begin", "orders", "clear", "commit",
           "dispatch", "pay"} \cup Final
OrderRows == Requests \X Warehouses \X (Warehouses \cup {NONE})
ItemRows == Requests \X Lines \X Nat

TypeOK ==
  /\ cart \in [Lines -> Nat] \cup {NONE}
  /\ job \in {"none", "delayed", "completed"}
  /\ jobItems \in [Lines -> Nat]
  /\ op \in Plans
  /\ pc \in [Requests -> Labels]
  /\ local \in [Requests -> [Lines -> Nat]]
  /\ txn \in [Requests -> [orders : SUBSET OrderRows, items : SUBSET ItemRows]]
  /\ orders \subseteq OrderRows
  /\ items \subseteq ItemRows
  /\ jobs \subseteq JobNames \X Requests \X Warehouses

NoRows == [orders |-> {}, items |-> {}]

Init ==
  /\ cart = NONE
  /\ job = "none"
  /\ jobItems = Empty
  /\ op \in Plans
  /\ pc = [r \in Requests |-> "idle"]
  /\ local = [r \in Requests |-> Empty]
  /\ txn = [r \in Requests |-> NoRows]
  /\ orders = {}
  /\ items = {}
  /\ jobs = {}
  /\ sessions = {}

Goto(r, label) == pc' = [pc EXCEPT ![r] = label]
----------------------------------------------------------------------------
(* ShoppingCartService: every method begins with getCart *)

\* What a method makes of the cart it has read.
Edited(r, c) ==
  CASE op[r] = "add" -> [c EXCEPT ![LineOf[r]] = @ + Qty[r]]
    [] op[r] = "update" -> [c EXCEPT ![LineOf[r]] = Qty[r]]
    [] op[r] = "remove" -> [c EXCEPT ![LineOf[r]] = 0]
    [] op[r] = "clear" -> Empty
    [] OTHER -> c

\* updateCartItem refuses a line that is not in the cart.
Got(r, c) ==
  \/ op[r] = "get" /\ Goto(r, "ok") /\ UNCHANGED local
  \/ op[r] = "update" /\ c[LineOf[r]] = 0 /\ Goto(r, "failed") /\ UNCHANGED local
  \/ /\ op[r] # "get"
     /\ op[r] = "update" => c[LineOf[r]] > 0
     /\ Goto(r, "save")
     /\ local' = [local EXCEPT ![r] = Edited(r, c)]

CartFind(r) ==
  /\ pc[r] = "idle" /\ op[r] # "checkout"
  /\ IF cart = NONE
     THEN Goto(r, "insert") /\ UNCHANGED local
     ELSE Got(r, cart)
  /\ UNCHANGED <<op, cartVars, txnVars, outVars>>

\* user_id is unique: of two first requests, one fails.
CartInsert(r) ==
  /\ pc[r] = "insert"
  /\ IF cart = NONE
     THEN cart' = Empty /\ Got(r, Empty)
     ELSE Goto(r, "failed") /\ UNCHANGED <<cart, local>>
  /\ UNCHANGED <<op, job, jobItems, txnVars, outVars>>

CartSave(r) ==
  /\ pc[r] = "save"
  /\ cart' = local[r]
  /\ IF op[r] \in {"add", "update"}
     THEN Goto(r, "job") /\ UNCHANGED local
     ELSE Goto(r, "ok") /\ local' = [local EXCEPT ![r] = Empty]
  /\ UNCHANGED <<op, job, jobItems, txnVars, outVars>>

\* The job id is fixed, and BullMQ ignores an id it has seen, also that of a
\* completed job.
QueueJob(c) ==
  IF job = "none"
  THEN job' = "delayed" /\ jobItems' = c
  ELSE UNCHANGED <<job, jobItems>>

CartJob(r) ==
  /\ pc[r] = "job" /\ op[r] # "checkout"
  /\ QueueJob(local[r])
  /\ Goto(r, "ok")
  /\ local' = [local EXCEPT ![r] = Empty]
  /\ UNCHANGED <<op, cart, txnVars, outVars>>

\* The hour is over: MarketingProcessor notifies the user.
NotifyAbandoned ==
  /\ job = "delayed"
  /\ job' = "completed"
  /\ UNCHANGED <<op, cart, jobItems, pc, local, txnVars, outVars>>

----------------------------------------------------------------------------
(* createOrderFromCart *)

CheckoutFind(r) ==
  /\ pc[r] = "idle" /\ op[r] = "checkout"
  /\ IF cart \in {NONE, Empty}
     THEN Goto(r, "failed") /\ UNCHANGED local
     ELSE Goto(r, "begin") /\ local' = [local EXCEPT ![r] = cart]
  /\ UNCHANGED <<op, cartVars, txnVars, outVars>>

CheckoutBegin(r) ==
  /\ pc[r] = "begin"
  /\ Goto(r, "orders")
  /\ UNCHANGED <<op, cartVars, local, txnVars, outVars>>

\* What its transaction has still to save an item for, and the first of the
\* orders that are to be linked.
Unsaved(r) == {l \in LinesIn(local[r]) : <<r, l, local[r][l]>> \notin txn[r].items}
Parent(os) ==
  IF os = {} THEN NONE ELSE LET root == CHOOSE o \in os : o[3] = NONE IN root[2]

\* An order for each warehouse, the first the parent of the others ...
SaveOrder(r, w) ==
  /\ pc[r] = "orders"
  /\ \E l \in Unsaved(r) : WarehouseOf[l] = w
  /\ \A o \in txn[r].orders, l \in Unsaved(r) : o[2] # WarehouseOf[l]
  /\ txn' = [txn EXCEPT ![r].orders = @ \cup {<<r, w, Parent(@)>>}]
  /\ UNCHANGED <<op, cartVars, pc, local, orders, items, outVars>>

\* Mutation: the item's repository saves it, not the transaction's manager.
SaveItemOutside(r, l) ==
  /\ pc[r] = "orders" /\ l \in Unsaved(r)
  /\ \E o \in txn[r].orders : o[2] = WarehouseOf[l]
  /\ items' = items \cup {<<r, l, local[r][l]>>}
  /\ txn' = [txn EXCEPT ![r].items = @ \cup {<<r, l, local[r][l]>>}]
  /\ Goto(r, IF Unsaved(r) = {l} THEN "clear" ELSE "orders")
  /\ UNCHANGED <<op, cartVars, local, orders, outVars>>

\* ... and, before the next order, its items.
SaveItem(r, l) ==
  /\ pc[r] = "orders" /\ l \in Unsaved(r)
  /\ \E o \in txn[r].orders : o[2] = WarehouseOf[l]
  /\ txn' = [txn EXCEPT ![r].items = @ \cup {<<r, l, local[r][l]>>}]
  /\ Goto(r, IF Unsaved(r) = {l} THEN "clear" ELSE "orders")
  /\ UNCHANGED <<op, cartVars, local, orders, items, outVars>>

\* The cart is emptied before the orders are committed.
ClearCart(r) ==
  /\ pc[r] = "clear"
  /\ cart' = Empty
  /\ Goto(r, "job")
  /\ UNCHANGED <<op, job, jobItems, local, txnVars, outVars>>

CheckoutJob(r) ==
  /\ pc[r] = "job" /\ op[r] = "checkout"
  /\ QueueJob(Empty)
  /\ Goto(r, "commit")
  /\ UNCHANGED <<op, cart, local, txnVars, outVars>>

\* The answer may be lost: the orders are there and the checkout fails.
CheckoutCommit(r) ==
  /\ pc[r] = "commit"
  /\ orders' = orders \cup txn[r].orders
  /\ items' = items \cup txn[r].items
  /\ \E label \in {"dispatch", "failed"} : Goto(r, label)
  /\ UNCHANGED <<op, cartVars, local, txn, outVars>>

Jobs(o) == {n \in JobNames : <<n, o[1], o[2]>> \in jobs}

\* Mutation: the jobs are queued before the commit.
DispatchEarly(r, o) ==
  /\ pc[r] \in {"commit", "dispatch"} /\ o \in txn[r].orders
  /\ \E n \in JobNames :
       /\ n \notin Jobs(o)
       /\ n = "stock-sync" => Jobs(o) # {}
       /\ jobs' = jobs \cup {<<n, o[1], o[2]>>}
  /\ UNCHANGED <<op, cartVars, pc, local, txnVars, sessions>>

\* order-confirmation and then stock-sync, order by order.
Dispatch(r, o) ==
  /\ pc[r] = "dispatch" /\ o \in txn[r].orders
  /\ \A p \in txn[r].orders \ {o} : Jobs(p) \in {{}, JobNames}
  /\ \E n \in JobNames :
       /\ n \notin Jobs(o)
       /\ n = "stock-sync" => Jobs(o) # {}
       /\ jobs' = jobs \cup {<<n, o[1], o[2]>>}
  /\ UNCHANGED <<op, cartVars, pc, local, txnVars, sessions>>

\* Mutation: it is enough that the last order has its jobs.
DispatchedSome(r) ==
  /\ pc[r] = "dispatch"
  /\ \E o \in txn[r].orders : Jobs(o) = JobNames
  /\ Goto(r, IF r \in External THEN "pay" ELSE "ok")
  /\ UNCHANGED <<op, cartVars, local, txnVars, outVars>>

Dispatched(r) ==
  /\ pc[r] = "dispatch"
  /\ \A o \in txn[r].orders : Jobs(o) = JobNames
  /\ Goto(r, IF r \in External THEN "pay" ELSE "ok")
  /\ UNCHANGED <<op, cartVars, local, txnVars, outVars>>

\* What each line of its cart costs, and the order of a warehouse
Worth(r) == [l \in LinesIn(local[r]) |-> local[r][l] * Price[l]]
Total(r, w) == SumFunctionOnSet(Worth(r), {l \in LinesIn(local[r]) : WarehouseOf[l] = w})

\* Mutation: the parent order's total.
AmountOfParent(r) == Total(r, Parent(txn[r].orders))

AmountToPay(r) == SumFunction([o \in txn[r].orders |-> Total(r, o[2])])

\* The gateway opens a session; the request or its answer may be lost.
CheckoutPay(r) ==
  /\ pc[r] = "pay"
  /\ \/ /\ sessions' = sessions \cup {<<r, Parent(txn[r].orders), AmountToPay(r)>>}
        /\ \E label \in Final : Goto(r, label)
     \/ UNCHANGED sessions /\ Goto(r, "failed")
  /\ UNCHANGED <<op, cartVars, local, txnVars, jobs>>

----------------------------------------------------------------------------
Placed(r) == {o \in orders : o[1] = r}
Ordered(r) == {i \in items : i[1] = r}

\* An await throws or the process dies: an open transaction is rolled back,
\* the cart, the jobs and a transaction that is over stay as they are.
Fails(r) ==
  /\ pc[r] \notin {"idle"} \cup Final
  /\ local' = [local EXCEPT ![r] = IF Placed(r) = {} THEN Empty ELSE @]
  /\ txn' = [txn EXCEPT ![r] = NoRows]
  /\ Goto(r, "failed")
  /\ UNCHANGED <<op, cartVars, orders, items, outVars>>

CartStep(r) == CartFind(r) \/ CartInsert(r) \/ CartSave(r) \/ CartJob(r)
CheckoutStep(r) ==
  \/ CheckoutFind(r) \/ CheckoutBegin(r) \/ ClearCart(r) \/ CheckoutJob(r)
  \/ CheckoutCommit(r) \/ Dispatched(r) \/ CheckoutPay(r)
  \/ \E w \in Warehouses : SaveOrder(r, w)
  \/ \E l \in Lines : SaveItem(r, l)
  \/ \E o \in txn[r].orders : Dispatch(r, o)

Next ==
  \/ NotifyAbandoned
  \/ \E r \in Requests : CartStep(r) \/ CheckoutStep(r) \/ Fails(r)

Spec == Init /\ [][Next]_vars

----------------------------------------------------------------------------
(* Properties *)

\* One order is the parent of the others.
Linked(os) ==
  \E root \in os : root[3] = NONE /\ \A o \in os \ {root} : o[3] = root[2]

\* Every line of the cart that a checkout has read, in an order of its
\* warehouse.
Whole(r, os, is) ==
  /\ is = {<<r, l, local[r][l]>> : l \in LinesIn(local[r])}
  /\ {o[2] : o \in os} = {WarehouseOf[l] : l \in LinesIn(local[r])}
  /\ Linked(os)

\* The orders a cart is split into are all there or none is, whatever was done
\* to the cart, or failed, in the meantime.
OrdersComplete ==
  \A r \in Requests :
    Placed(r) # {} \/ Ordered(r) # {} => Whole(r, Placed(r), Ordered(r))

\* No confirmation, no stock-sync and no payment for an order that is not in
\* the database: it could be rolled back after the customer has heard of it.
JobsHaveOrders ==
  /\ \A j \in jobs : \E o \in orders : o[1] = j[2] /\ o[2] = j[3]
  /\ \A s \in sessions : <<s[1], s[2], NONE>> \in orders

\* What the customer is asked to pay is the worth of all the orders.
PaymentsCoverOrders ==
  \A s \in sessions :
    s[3] = SumFunction([i \in Ordered(s[1]) |-> i[3] * Price[i[2]]])

\* A checkout that reports success has placed its orders, queued the jobs of
\* each and opened the payment.
SuccessIsComplete ==
  \A r \in Requests :
    op[r] = "checkout" /\ pc[r] = "ok" =>
      /\ Placed(r) # {}
      /\ \A o \in Placed(r) : Jobs(o) = JobNames
      /\ r \in External => \E s \in sessions : s[1] = r
=============================================================================
