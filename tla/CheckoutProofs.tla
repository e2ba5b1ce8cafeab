--------------------------- MODULE CheckoutProofs ---------------------------
(***************************************************************************)
(* What checkouts guarantee for every cart, every set of warehouses and    *)
(* every number of concurrent requests.                                    *)
(***************************************************************************)
EXTENDS Checkout, FiniteSetTheorems, TLAPS

(***************************************************************************)
(* The inductive invariant, part by part.                                  *)
(***************************************************************************)

Before == {"idle", "insert", "save", "begin", "orders", "clear", "commit"}
CartLabels == {"idle", "insert", "save", "job"} \cup Final

\* A checkout has saved all it will save, and it has committed.
Saved(r) == pc[r] \in {"clear", "job", "commit", "dispatch", "pay", "ok"}
Committed(r) == pc[r] \in {"dispatch", "pay", "ok"}

\* Half way through the loop, an item is saved after the order it belongs to.
PartSaved(r) ==
  /\ txn[r].items \subseteq {<<r, l, local[r][l]>> : l \in LinesIn(local[r])}
  /\ {o[2] : o \in txn[r].orders} \subseteq {WarehouseOf[l] : l \in LinesIn(local[r])}
  /\ \A l \in LinesIn(local[r]) \ Unsaved(r) : \E o \in txn[r].orders : o[2] = WarehouseOf[l]
  /\ txn[r].orders # {} => Linked(txn[r].orders)

\* Only a checkout places orders, and none before its commit.
CartRequest(r) ==
  op[r] # "checkout" => pc[r] \in CartLabels /\ Placed(r) = {} /\ Ordered(r) = {}
CheckoutRequest(r) ==
  op[r] = "checkout" =>
    /\ pc[r] \notin {"insert", "save"}
    /\ pc[r] \in {"idle", "begin"} => txn[r] = NoRows
    /\ pc[r] = "orders" => PartSaved(r)
    /\ Saved(r) => Whole(r, txn[r].orders, txn[r].items)
    /\ pc[r] \in Before \cup {"job"} => Placed(r) = {} /\ Ordered(r) = {}
    /\ Committed(r) => Placed(r) = txn[r].orders /\ Ordered(r) = txn[r].items
    /\ pc[r] \in {"pay", "ok"} => \A o \in Placed(r) : Jobs(o) = JobNames

\* A transaction writes rows of its own checkout, and an external checkout
\* that is over has its session.
OwnRows(r) ==
  /\ \A o \in txn[r].orders : o[1] = r
  /\ \A i \in txn[r].items : i[1] = r
Paid(r) ==
  op[r] = "checkout" /\ pc[r] = "ok" /\ r \in External => \E s \in sessions : s[1] = r

RequestInv(r) == CartRequest(r) /\ CheckoutRequest(r) /\ OwnRows(r) /\ Paid(r)
IInv == TypeOK /\ (\A r \in Requests : RequestInv(r)) /\ OrdersComplete /\ JobsHaveOrders

----------------------------------------------------------------------------
LEMMA InitInv == Init => IInv
  <1> SUFFICES ASSUME Init PROVE IInv
    OBVIOUS
  <1> USE CheckoutAssumption DEF Init
  <1>1. TypeOK
    BY DEF TypeOK, Empty, NoRows, Final, Labels
  <1>2. ASSUME NEW r \in Requests PROVE RequestInv(r)
    BY DEF RequestInv, CartRequest, CheckoutRequest, OwnRows, Paid, Saved, Committed, Before,
           CartLabels, Final, Placed, Ordered, NoRows
  <1>3. OrdersComplete /\ JobsHaveOrders
    BY DEF OrdersComplete, JobsHaveOrders, Placed, Ordered
  <1>4. QED
    BY <1>1, <1>2, <1>3 DEF IInv

----------------------------------------------------------------------------
(* The types *)

\* What a method makes of a cart is a cart.
LEMMA EditedType ==
  ASSUME NEW r \in Requests, NEW c \in [Lines -> Nat]
  PROVE  Edited(r, c) \in [Lines -> Nat]
  BY CheckoutAssumption DEF Edited, Empty

\* A request keeps its types when it has its cart.
LEMMA GotType ==
  ASSUME TypeOK, NEW r \in Requests, NEW c \in [Lines -> Nat], Got(r, c)
  PROVE  pc' \in [Requests -> Labels] /\ local' \in [Requests -> [Lines -> Nat]]
  BY EditedType, ZenonT(40) DEF TypeOK, Got, Goto, Labels, Final

\* The requests of the cart keep the types.
LEMMA CartType ==
  ASSUME TypeOK, NEW r \in Requests, CartStep(r)
  PROVE  TypeOK'
  <1>0. Empty \in [Lines -> Nat]
    BY DEF Empty
  <1>1. CASE CartFind(r)
    <2>1. pc' \in [Requests -> Labels] /\ local' \in [Requests -> [Lines -> Nat]]
      BY <1>1, GotType DEF CartFind, Goto, TypeOK, Labels
    <2>2. QED
      BY <1>1, <2>1 DEF CartFind, TypeOK, cartVars, txnVars, outVars
  <1>2. CASE CartInsert(r)
    <2>1. pc' \in [Requests -> Labels] /\ local' \in [Requests -> [Lines -> Nat]]
      BY <1>0, <1>2, GotType DEF CartInsert, Goto, TypeOK, Labels, Final
    <2>2. QED
      BY <1>0, <1>2, <2>1 DEF CartInsert, TypeOK, txnVars, outVars
  <1>3. CASE CartSave(r)
    <2>1. pc' \in [Requests -> Labels] /\ local' \in [Requests -> [Lines -> Nat]]
      BY <1>0, <1>3 DEF CartSave, Goto, TypeOK, Labels, Final
    <2>2. QED
      BY <1>3, <2>1 DEF CartSave, TypeOK, txnVars, outVars
  <1>4. CASE CartJob(r)
    <2>1. pc' \in [Requests -> Labels] /\ local' \in [Requests -> [Lines -> Nat]]
      BY <1>0, <1>4 DEF CartJob, Goto, TypeOK, Labels, Final
    <2>2. QED
      BY <1>4, <2>1 DEF CartJob, QueueJob, TypeOK, txnVars, outVars
  <1>5. QED
    BY <1>1, <1>2, <1>3, <1>4 DEF CartStep

\* The parent of a linked set of orders is the warehouse of its root.
LEMMA ParentOf ==
  ASSUME NEW os \in SUBSET OrderRows, Linked(os)
  PROVE  \E root \in os : /\ root[3] = NONE
                         /\ Parent(os) = root[2]
                         /\ \A o \in os \ {root} : o[3] = root[2]
  <1>1. PICK root \in os : root[3] = NONE /\ \A o \in os \ {root} : o[3] = root[2]
    BY DEF Linked
  <1>2. \A o \in os : o[3] = NONE => o = root
    BY <1>1, CheckoutAssumption DEF OrderRows
  <1>3. (CHOOSE o \in os : o[3] = NONE) = root
    BY <1>1, <1>2
  <1>4. QED
    BY <1>1, <1>3 DEF Parent

\* The checkouts keep the types.
LEMMA CheckoutType ==
  ASSUME TypeOK, NEW r \in Requests, RequestInv(r), CheckoutStep(r) \/ Fails(r)
  PROVE  TypeOK'
  <1>0. Empty \in [Lines -> Nat] /\ NoRows \in [orders : SUBSET OrderRows, items : SUBSET ItemRows]
    BY DEF Empty, NoRows
  <1>1. CASE CheckoutFind(r)
    <2>1. pc' \in [Requests -> Labels] /\ local' \in [Requests -> [Lines -> Nat]]
      BY <1>1 DEF CheckoutFind, Goto, TypeOK, Labels, Final
    <2>2. QED
      BY <1>1, <2>1 DEF CheckoutFind, TypeOK, cartVars, txnVars, outVars
  <1>2. CASE CheckoutBegin(r)
    BY <1>2 DEF CheckoutBegin, Goto, TypeOK, Labels, cartVars, txnVars, outVars
  <1>3. CASE ClearCart(r)
    BY <1>0, <1>3 DEF ClearCart, Goto, TypeOK, Labels, txnVars, outVars
  <1>4. CASE CheckoutJob(r)
    BY <1>0, <1>4 DEF CheckoutJob, QueueJob, Goto, TypeOK, Labels, txnVars, outVars
  <1>5. CASE CheckoutCommit(r)
    BY <1>5 DEF CheckoutCommit, Goto, TypeOK, Labels, Final, cartVars, outVars
  <1>6. CASE Dispatched(r)
    BY <1>6 DEF Dispatched, Goto, TypeOK, Labels, Final, cartVars, txnVars, outVars
  <1>7. CASE CheckoutPay(r)
    <2>1. pc' \in [Requests -> Labels]
      BY <1>7 DEF CheckoutPay, Goto, TypeOK, Labels, Final
    <2>2. QED
      BY <1>7, <2>1 DEF CheckoutPay, TypeOK, cartVars, txnVars
  <1>8. ASSUME NEW w \in Warehouses, SaveOrder(r, w) PROVE TypeOK'
    <2>1. Parent(txn[r].orders) \in Warehouses \cup {NONE}
      <3>1. CASE txn[r].orders = {}
        BY <3>1 DEF Parent
      <3>2. CASE txn[r].orders # {}
        <4>1. Linked(txn[r].orders)
          BY <1>8, <3>2 DEF SaveOrder, RequestInv, CartRequest, CheckoutRequest, PartSaved,
                           CartLabels, Final
        <4>2. txn[r].orders \in SUBSET OrderRows
          BY DEF TypeOK
        <4>3. QED
          BY <4>1, <4>2, ParentOf DEF OrderRows
      <3>3. QED
        BY <3>1, <3>2
    <2>2. <<r, w, Parent(txn[r].orders)>> \in OrderRows
      BY <2>1 DEF OrderRows
    <2>3. QED
      BY <1>8, <2>2 DEF SaveOrder, TypeOK, cartVars, outVars
  <1>9. ASSUME NEW l \in Lines, SaveItem(r, l) PROVE TypeOK'
    <2>1. <<r, l, local[r][l]>> \in ItemRows
      BY DEF ItemRows, TypeOK
    <2>2. pc' \in [Requests -> Labels]
      BY <1>9 DEF SaveItem, Goto, TypeOK, Labels
    <2>3. QED
      BY <1>9, <2>1, <2>2 DEF SaveItem, TypeOK, cartVars, outVars
  <1>10. ASSUME NEW o \in txn[r].orders, Dispatch(r, o) PROVE TypeOK'
    <2>1. o[1] \in Requests /\ o[2] \in Warehouses
      BY <1>10 DEF TypeOK, OrderRows
    <2>2. jobs' \subseteq JobNames \X Requests \X Warehouses
      BY <1>10, <2>1 DEF Dispatch, TypeOK
    <2>3. QED
      BY <1>10, <2>2 DEF Dispatch, TypeOK, cartVars, txnVars
  <1>11. CASE Fails(r)
    <2>1. pc' \in [Requests -> Labels] /\ local' \in [Requests -> [Lines -> Nat]]
      BY <1>0, <1>11 DEF Fails, Goto, TypeOK, Labels, Final
    <2>2. QED
      BY <1>0, <1>11, <2>1 DEF Fails, TypeOK, cartVars, outVars
  <1>12. QED
    BY <1>1, <1>2, <1>3, <1>4, <1>5, <1>6, <1>7, <1>8, <1>9, <1>10, <1>11 DEF CheckoutStep

----------------------------------------------------------------------------
(* Requests *)

\* A step of one request leaves the others as they are.
LEMMA Frame ==
  ASSUME NEW r \in Requests, RequestInv(r), jobs \subseteq jobs', sessions \subseteq sessions',
         op' = op, pc'[r] = pc[r], local'[r] = local[r], txn'[r] = txn[r],
         Placed(r)' = Placed(r), Ordered(r)' = Ordered(r)
  PROVE  RequestInv(r)'
  <1>1. CartRequest(r)' /\ OwnRows(r)' /\ Paid(r)'
    BY DEF RequestInv, CartRequest, OwnRows, Paid
  <1>2. \A o : Jobs(o) = JobNames => Jobs(o)' = JobNames
    BY DEF Jobs
  <1>3. CheckoutRequest(r)'
    BY <1>2, SMTT(30) DEF RequestInv, CheckoutRequest, Saved, Committed, PartSaved, Unsaved, Whole
  <1>4. QED
    BY <1>1, <1>3 DEF RequestInv

\* The parts of the invariant follow from what a step does to its request.
LEMMA Others ==
  ASSUME IInv, NEW r \in Requests, op' = op, jobs \subseteq jobs', sessions \subseteq sessions',
         \A q \in Requests \ {r} :
           /\ pc'[q] = pc[q] /\ local'[q] = local[q] /\ txn'[q] = txn[q]
           /\ Placed(q)' = Placed(q) /\ Ordered(q)' = Ordered(q),
         RequestInv(r)',
         (Placed(r) # {} \/ Ordered(r) # {} => Whole(r, Placed(r), Ordered(r)))'
  PROVE  (\A q \in Requests : RequestInv(q)') /\ OrdersComplete'
  <1>1. ASSUME NEW q \in Requests \ {r} PROVE RequestInv(q)'
    BY Frame DEF IInv
  <1>2. ASSUME NEW q \in Requests \ {r}, Placed(q)' # {} \/ Ordered(q)' # {}
        PROVE  Whole(q, Placed(q), Ordered(q))'
    <2>1. Whole(q, Placed(q), Ordered(q))
      BY <1>2 DEF IInv, OrdersComplete
    <2>2. QED
      BY <2>1, SMTT(30) DEF Whole
  <1>3. QED
    BY <1>1, <1>2 DEF OrdersComplete

\* A request of the cart places no orders.
LEMMA CartInv ==
  ASSUME IInv, NEW r \in Requests, CartStep(r)
  PROVE  IInv'
  <1>1. op[r] # "checkout" /\ RequestInv(r)
    BY DEF IInv, RequestInv, CheckoutRequest, CartStep, CartFind, CartInsert, CartSave, CartJob
  <1>2. /\ UNCHANGED <<op, txn, orders, items, jobs, sessions>>
        /\ pc'[r] \in CartLabels
        /\ \A q \in Requests \ {r} : pc'[q] = pc[q] /\ local'[q] = local[q]
    BY DEF IInv, TypeOK, CartStep, CartFind, CartInsert, CartSave, CartJob, Got, Goto, CartLabels,
           Final, txnVars, outVars
  <1>3. RequestInv(r)'
    BY <1>1, <1>2 DEF RequestInv, CartRequest, CheckoutRequest, OwnRows, Paid, Placed, Ordered
  <1>4. (Placed(r) = {} /\ Ordered(r) = {})'
    BY <1>1, <1>2 DEF RequestInv, CartRequest, Placed, Ordered
  <1>5. (\A q \in Requests : RequestInv(q)') /\ OrdersComplete'
    BY <1>2, <1>3, <1>4, Others DEF Placed, Ordered
  <1>6. TypeOK'
    BY CartType DEF IInv
  <1>7. JobsHaveOrders'
    BY <1>2 DEF IInv, JobsHaveOrders
  <1>8. QED
    BY <1>5, <1>6, <1>7 DEF IInv

\* A step that leaves the orders, their items and the request's cart alone.
LEMMA QuietInv ==
  ASSUME IInv, TypeOK', NEW r \in Requests, op[r] = "checkout", RequestInv(r)',
         UNCHANGED <<op, orders, items>>, jobs \subseteq jobs', sessions \subseteq sessions',
         local'[r] = local[r] \/ Placed(r) = {}, JobsHaveOrders',
         \A q \in Requests \ {r} :
           pc'[q] = pc[q] /\ local'[q] = local[q] /\ txn'[q] = txn[q]
  PROVE  IInv'
  <1>1. \A q \in Requests : Placed(q)' = Placed(q) /\ Ordered(q)' = Ordered(q)
    BY DEF Placed, Ordered
  <1>2. ASSUME Placed(r)' # {} \/ Ordered(r)' # {}
        PROVE  Whole(r, Placed(r), Ordered(r))'
    <2>1. Whole(r, Placed(r), Ordered(r))
      BY <1>1, <1>2 DEF IInv, OrdersComplete
    <2>2. Placed(r) # {}
      BY <2>1 DEF Whole, Linked
    <2>3. local'[r] = local[r] /\ Placed(r)' = Placed(r) /\ Ordered(r)' = Ordered(r)
      BY <1>1, <2>2
    <2>4. QED
      BY <2>1, <2>3 DEF Whole
  <1>3. QED
    BY <1>1, <1>2, Others DEF IInv

\* The steps of a checkout that save nothing.
LEMMA SilentInv ==
  ASSUME IInv, NEW r \in Requests, op[r] = "checkout",
         CheckoutFind(r) \/ CheckoutBegin(r) \/ ClearCart(r) \/ CheckoutJob(r) \/ Dispatched(r)
  PROVE  IInv'
  <1>1. TypeOK' /\ RequestInv(r)
    BY CheckoutType DEF IInv, CheckoutStep
  <1>2. /\ UNCHANGED <<op, txn, orders, items, jobs, sessions>>
        /\ \A q \in Requests \ {r} : pc'[q] = pc[q] /\ local'[q] = local[q]
    BY DEF IInv, TypeOK, CheckoutFind, CheckoutBegin, ClearCart, CheckoutJob, Dispatched, Goto,
           cartVars, txnVars, outVars
  <1>3. JobsHaveOrders'
    BY <1>2 DEF IInv, JobsHaveOrders
  <1>4. CASE CheckoutFind(r)
    <2>1. pc'[r] \in {"begin", "failed"} /\ pc[r] = "idle" /\ Placed(r) = {} /\ Ordered(r) = {}
      BY <1>1, <1>4 DEF IInv, TypeOK, CheckoutFind, Goto, RequestInv, CheckoutRequest, Before
    <2>2. RequestInv(r)'
      BY <1>1, <1>2, <2>1 DEF RequestInv, CartRequest, CheckoutRequest, OwnRows, Paid, Saved,
                              Committed, Before, Placed, Ordered
    <2>3. QED
      BY <1>1, <1>2, <1>3, <2>1, <2>2, QuietInv
  <1>5. CASE CheckoutBegin(r)
    <2>1. pc'[r] = "orders" /\ pc[r] = "begin" /\ local' = local
      BY <1>5 DEF IInv, TypeOK, CheckoutBegin, Goto
    <2>2. txn[r] = NoRows
      BY <1>1, <2>1 DEF RequestInv, CheckoutRequest
    <2>3. PartSaved(r)'
      BY <1>2, <2>1, <2>2 DEF PartSaved, NoRows, Unsaved
    <2>4. RequestInv(r)'
      BY <1>1, <1>2, <2>1, <2>3 DEF RequestInv, CartRequest, CheckoutRequest, OwnRows, Paid,
                                    Saved, Committed, Before, Placed, Ordered
    <2>5. QED
      BY <1>1, <1>2, <1>3, <2>1, <2>4, QuietInv
  <1>6. CASE ClearCart(r) \/ CheckoutJob(r)
    <2>1. local' = local /\ pc[r] \in {"clear", "job"} /\ pc'[r] \in {"job", "commit"}
      BY <1>6 DEF IInv, TypeOK, ClearCart, CheckoutJob, Goto
    <2>2. Whole(r, txn[r].orders, txn[r].items)'
      BY <1>1, <1>2, <2>1 DEF RequestInv, CheckoutRequest, Saved, Whole
    <2>3. RequestInv(r)'
      BY <1>1, <1>2, <2>1, <2>2 DEF RequestInv, CartRequest, CheckoutRequest, OwnRows, Paid,
                                    Saved, Committed, Before, Placed, Ordered
    <2>4. QED
      BY <1>1, <1>2, <1>3, <2>1, <2>3, QuietInv
  <1>7. CASE Dispatched(r)
    <2>1. /\ local' = local /\ pc[r] = "dispatch" /\ pc'[r] \in {"pay", "ok"}
          /\ pc'[r] = "ok" => r \notin External
          /\ \A o \in txn[r].orders : Jobs(o) = JobNames
      BY <1>7 DEF IInv, TypeOK, Dispatched, Goto
    <2>2. /\ Whole(r, txn[r].orders, txn[r].items)'
          /\ Placed(r)' = txn[r].orders /\ Ordered(r)' = txn[r].items
      <3>1. Whole(r, txn[r].orders, txn[r].items)
        BY <1>1, <2>1 DEF RequestInv, CheckoutRequest, Saved
      <3>2. Placed(r) = txn[r].orders /\ Ordered(r) = txn[r].items
        BY <1>1, <2>1 DEF RequestInv, CheckoutRequest, Committed
      <3>3. QED
        BY <1>2, <2>1, <3>1, <3>2, SMTT(30) DEF Whole, Placed, Ordered
    <2>3. \A o \in Placed(r)' : Jobs(o)' = JobNames
      BY <1>2, <2>1, <2>2 DEF Jobs
    <2>4. RequestInv(r)'
      BY <1>1, <1>2, <2>1, <2>2, <2>3 DEF RequestInv, CartRequest, CheckoutRequest, OwnRows, Paid,
                                          Saved, Committed, Before
    <2>5. QED
      BY <1>1, <1>2, <1>3, <2>1, <2>4, QuietInv
  <1>8. QED
    BY <1>4, <1>5, <1>6, <1>7

\* A new order is linked to the first one.
LEMMA SaveOrderInv ==
  ASSUME IInv, NEW r \in Requests, op[r] = "checkout", NEW w \in Warehouses, SaveOrder(r, w)
  PROVE  IInv'
  <1> DEFINE os == txn[r].orders
             new == <<r, w, Parent(os)>>
  <1>1. TypeOK' /\ RequestInv(r) /\ PartSaved(r)
    BY CheckoutType DEF IInv, CheckoutStep, SaveOrder, RequestInv, CheckoutRequest
  <1>2. /\ UNCHANGED <<op, pc, local, orders, items, jobs, sessions>>
        /\ pc[r] = "orders"
        /\ txn'[r].orders = os \cup {new} /\ txn'[r].items = txn[r].items
        /\ \A q \in Requests \ {r} : txn'[q] = txn[q]
    BY DEF IInv, TypeOK, SaveOrder, cartVars, outVars
  <1>3. JobsHaveOrders'
    BY <1>2 DEF IInv, JobsHaveOrders
  <1>4. Linked(os \cup {new})
    <2>1. CASE os = {}
      <3>1. new[3] = NONE /\ os \cup {new} = {new}
        BY <2>1 DEF Parent
      <3>2. QED
        BY <3>1 DEF Linked
    <2>2. CASE os # {}
      <3>1. os \in SUBSET OrderRows /\ Linked(os)
        BY <1>1, <2>2 DEF IInv, TypeOK, PartSaved
      <3>2. PICK root \in os : /\ root[3] = NONE /\ Parent(os) = root[2]
                               /\ \A o \in os \ {root} : o[3] = root[2]
        BY <3>1, ParentOf
      <3>3. new[3] = root[2]
        BY <3>2
      <3>4. QED
        BY <3>2, <3>3 DEF Linked
    <2>3. QED
      BY <2>1, <2>2
  <1>5. PartSaved(r)'
    <2>1. Unsaved(r)' = Unsaved(r) /\ LinesIn(local[r])' = LinesIn(local[r])
      BY <1>2 DEF Unsaved, LinesIn
    <2>2. \E l \in LinesIn(local[r]) : WarehouseOf[l] = w
      BY DEF SaveOrder, Unsaved
    <2>3. new[2] = w
      OBVIOUS
    <2>4. {o[2] : o \in os \cup {new}} \subseteq {WarehouseOf[l] : l \in LinesIn(local[r])}
      BY <1>1, <2>2, <2>3 DEF PartSaved
    <2>5. Linked(txn[r].orders)'
      BY <1>2, <1>4 DEF Linked
    <2>6. QED
      BY <1>1, <1>2, <2>1, <2>4, <2>5 DEF PartSaved
  <1>6. RequestInv(r)'
    <2>1. OwnRows(r)'
      BY <1>1, <1>2 DEF RequestInv, OwnRows
    <2>2. QED
      BY <1>1, <1>2, <1>5, <2>1 DEF RequestInv, CartRequest, CheckoutRequest, Paid, Saved,
                                    Committed, Before, Placed, Ordered
  <1>7. QED
    BY <1>1, <1>2, <1>3, <1>6, QuietInv

\* The last item completes the orders.
LEMMA SaveItemInv ==
  ASSUME IInv, NEW r \in Requests, op[r] = "checkout", NEW l \in Lines, SaveItem(r, l)
  PROVE  IInv'
  <1> DEFINE lines == LinesIn(local[r])
             row(k) == <<r, k, local[r][k]>>
  <1>1. TypeOK' /\ RequestInv(r) /\ PartSaved(r)
    BY CheckoutType DEF IInv, CheckoutStep, SaveItem, RequestInv, CheckoutRequest
  <1>2. /\ UNCHANGED <<op, local, orders, items, jobs, sessions>>
        /\ l \in Unsaved(r) /\ pc[r] = "orders"
        /\ pc'[r] = IF Unsaved(r) = {l} THEN "clear" ELSE "orders"
        /\ txn'[r].items = txn[r].items \cup {row(l)} /\ txn'[r].orders = txn[r].orders
        /\ \A q \in Requests \ {r} : pc'[q] = pc[q] /\ txn'[q] = txn[q]
    BY DEF IInv, TypeOK, SaveItem, Goto, cartVars, outVars
  <1>3. JobsHaveOrders'
    BY <1>2 DEF IInv, JobsHaveOrders
  <1>4. /\ txn'[r].items \subseteq {row(k) : k \in lines}
        /\ l \in lines
        /\ txn[r].orders # {}
        /\ \A k \in lines : row(k) \notin txn'[r].items => k \in Unsaved(r) \ {l}
    BY <1>1, <1>2 DEF PartSaved, Unsaved, SaveItem
  <1>5. \A k \in lines : k \notin Unsaved(r) \ {l} =>
          \E o \in txn[r].orders : o[2] = WarehouseOf[k]
    BY <1>1 DEF PartSaved, SaveItem
  <1>6. Linked(txn[r].orders)'
    BY <1>1, <1>2, <1>4 DEF PartSaved, Linked
  <1>7. PartSaved(r)'
    <2>1. \A k \in lines : k \notin Unsaved(r)' => k \notin Unsaved(r) \ {l}
      <3>1. ASSUME NEW k \in lines, k \in Unsaved(r) \ {l} PROVE k \in Unsaved(r)'
        BY <1>2, <3>1 DEF Unsaved, LinesIn
      <3>2. QED
        BY <3>1
    <2>2. LinesIn(local[r])' = lines
      BY <1>2 DEF LinesIn
    <2>3. QED
      BY <1>1, <1>2, <1>4, <1>5, <1>6, <2>1, <2>2 DEF PartSaved
  <1>8. ASSUME Unsaved(r) = {l} PROVE Whole(r, txn[r].orders, txn[r].items)'
    <2>1. txn'[r].items = {row(k) : k \in lines}
      BY <1>4, <1>8
    <2>2. {o[2] : o \in txn[r].orders} = {WarehouseOf[k] : k \in lines}
      BY <1>1, <1>5, <1>8 DEF PartSaved
    <2>3. QED
      BY <1>2, <1>6, <2>1, <2>2 DEF Whole, LinesIn
  <1>9. RequestInv(r)'
    <2>1. OwnRows(r)'
      BY <1>1, <1>2 DEF RequestInv, OwnRows
    <2>2. QED
      BY <1>1, <1>2, <1>7, <1>8, <2>1 DEF RequestInv, CartRequest, CheckoutRequest, Paid, Saved,
                                          Committed, Before, Placed, Ordered
  <1>10. QED
    BY <1>1, <1>2, <1>3, <1>9, QuietInv

\* The commit places all the orders of the checkout at once.
LEMMA CommitInv ==
  ASSUME IInv, NEW r \in Requests, op[r] = "checkout", CheckoutCommit(r)
  PROVE  IInv'
  <1>1. TypeOK' /\ RequestInv(r)
    BY CheckoutType DEF IInv, CheckoutStep
  <1>2. /\ UNCHANGED <<op, local, txn, jobs, sessions>>
        /\ pc[r] = "commit" /\ pc'[r] \in {"dispatch", "failed"}
        /\ orders' = orders \cup txn[r].orders /\ items' = items \cup txn[r].items
        /\ \A q \in Requests \ {r} : pc'[q] = pc[q]
    BY DEF IInv, TypeOK, CheckoutCommit, Goto, cartVars, outVars
  <1>3. OwnRows(r) /\ Placed(r) = {} /\ Ordered(r) = {} /\ Whole(r, txn[r].orders, txn[r].items)
    BY <1>1, <1>2 DEF RequestInv, CheckoutRequest, Saved, Before
  <1>4. Placed(r)' = txn[r].orders /\ Ordered(r)' = txn[r].items
    BY <1>2, <1>3 DEF OwnRows, Placed, Ordered
  <1>5. \A q \in Requests \ {r} : Placed(q)' = Placed(q) /\ Ordered(q)' = Ordered(q)
    BY <1>2, <1>3 DEF OwnRows, Placed, Ordered
  <1>6. Whole(r, txn[r].orders, txn[r].items)' /\ Whole(r, Placed(r), Ordered(r))'
    BY <1>2, <1>3, <1>4, ZenonT(40) DEF Whole
  <1>7. RequestInv(r)'
    <2>1. OwnRows(r)'
      BY <1>2, <1>3 DEF OwnRows
    <2>2. CheckoutRequest(r)'
      BY <1>2, <1>4, <1>6 DEF CheckoutRequest, Saved, Committed, Before
    <2>3. QED
      BY <1>2, <2>1, <2>2 DEF RequestInv, CartRequest, Paid
  <1>8. (\A q \in Requests : RequestInv(q)') /\ OrdersComplete'
    BY <1>2, <1>5, <1>6, <1>7, Others
  <1>9. JobsHaveOrders'
    BY <1>2 DEF IInv, JobsHaveOrders
  <1>10. QED
    BY <1>1, <1>8, <1>9 DEF IInv

\* A job is queued for an order that is committed.
LEMMA DispatchInv ==
  ASSUME IInv, NEW r \in Requests, op[r] = "checkout", NEW o \in txn[r].orders, Dispatch(r, o)
  PROVE  IInv'
  <1>1. TypeOK' /\ RequestInv(r)
    BY CheckoutType DEF IInv, CheckoutStep
  <1>2. UNCHANGED <<op, pc, local, txn, orders, items, sessions>> /\ pc[r] = "dispatch"
    BY DEF Dispatch, cartVars, txnVars
  <1>3. PICK n \in JobNames : jobs' = jobs \cup {<<n, o[1], o[2]>>}
    BY DEF Dispatch
  <1>4. o \in orders
    BY <1>1, <1>2 DEF RequestInv, CheckoutRequest, Committed, Placed
  <1>5. JobsHaveOrders'
    BY <1>2, <1>3, <1>4 DEF IInv, JobsHaveOrders
  <1>6. Whole(r, txn[r].orders, txn[r].items)' /\ Placed(r)' = Placed(r) /\ Ordered(r)' = Ordered(r)
    BY <1>1, <1>2 DEF RequestInv, CheckoutRequest, Saved, Whole, Placed, Ordered
  <1>7. RequestInv(r)'
    <2>1. CheckoutRequest(r)'
      BY <1>1, <1>2, <1>6 DEF RequestInv, CheckoutRequest, Saved, Committed, Before
    <2>2. QED
      BY <1>1, <1>2, <2>1 DEF RequestInv, CartRequest, OwnRows, Paid
  <1>8. QED
    BY <1>1, <1>2, <1>3, <1>5, <1>7, QuietInv

\* The payment is for the parent order, which is committed.
LEMMA PayInv ==
  ASSUME IInv, NEW r \in Requests, op[r] = "checkout", CheckoutPay(r)
  PROVE  IInv'
  <1>1. TypeOK' /\ RequestInv(r)
    BY CheckoutType DEF IInv, CheckoutStep
  <1>2. /\ UNCHANGED <<op, local, txn, orders, items, jobs>>
        /\ pc[r] = "pay" /\ pc'[r] \in Final
        /\ \A q \in Requests \ {r} : pc'[q] = pc[q]
    <2>1. \E label \in Final : Goto(r, label)
      BY DEF CheckoutPay, Final
    <2>2. pc'[r] \in Final /\ \A q \in Requests \ {r} : pc'[q] = pc[q]
      BY <2>1 DEF IInv, TypeOK, Goto
    <2>3. QED
      BY <2>2 DEF CheckoutPay, cartVars, txnVars
  <1>3. /\ Whole(r, txn[r].orders, txn[r].items)
        /\ Placed(r) = txn[r].orders /\ Ordered(r) = txn[r].items
        /\ \A o \in Placed(r) : Jobs(o) = JobNames
    BY <1>1, <1>2 DEF RequestInv, CheckoutRequest, Saved, Committed
  <1>4. <<r, Parent(txn[r].orders), NONE>> \in orders
    <2>1. txn[r].orders \in SUBSET OrderRows
      BY DEF IInv, TypeOK
    <2>2. PICK root \in txn[r].orders : root[3] = NONE /\ Parent(txn[r].orders) = root[2]
      BY <1>3, <2>1, ParentOf DEF Whole
    <2>3. root = <<r, root[2], NONE>> /\ root \in orders
      BY <1>1, <1>3, <2>1, <2>2 DEF RequestInv, OwnRows, OrderRows, Placed
    <2>4. QED
      BY <2>2, <2>3
  <1>5. /\ sessions \subseteq sessions'
        /\ \A s \in sessions' : s \in sessions \/ (s[1] = r /\ s[2] = Parent(txn[r].orders))
        /\ pc'[r] = "ok" => \E s \in sessions' : s[1] = r
    <2> DEFINE new == <<r, Parent(txn[r].orders), AmountToPay(r)>>
    <2>1. CASE sessions' = sessions \cup {new}
      <3>1. new[1] = r /\ new[2] = Parent(txn[r].orders)
        OBVIOUS
      <3>2. \A s \in sessions' : s \in sessions \/ s = new
        BY <2>1
      <3>3. new \in sessions' /\ sessions \subseteq sessions'
        BY <2>1
      <3> HIDE DEF new
      <3>4. QED
        BY <3>1, <3>2, <3>3
    <2>2. CASE UNCHANGED sessions /\ Goto(r, "failed")
      BY <2>2 DEF IInv, TypeOK, Goto
    <2>3. QED
      BY <2>1, <2>2 DEF CheckoutPay
  <1>6. JobsHaveOrders'
    BY <1>2, <1>4, <1>5 DEF IInv, JobsHaveOrders
  <1>7. RequestInv(r)'
    <2>1. /\ Whole(r, txn[r].orders, txn[r].items)' /\ Placed(r)' = Placed(r)
          /\ Ordered(r)' = Ordered(r) /\ \A o \in Placed(r)' : Jobs(o)' = JobNames
      BY <1>2, <1>3, ZenonT(40) DEF Whole, Placed, Ordered, Jobs
    <2>2. CheckoutRequest(r)'
      BY <1>2, <1>3, <2>1 DEF CheckoutRequest, Saved, Committed, Before, Final
    <2>3. QED
      BY <1>1, <1>2, <1>5, <2>2 DEF RequestInv, CartRequest, OwnRows, Paid
  <1>8. QED
    BY <1>1, <1>2, <1>5, <1>6, <1>7, QuietInv

\* A request that fails keeps the orders it has placed, or has placed none.
LEMMA FailsInv ==
  ASSUME IInv, NEW r \in Requests, Fails(r)
  PROVE  IInv'
  <1>1. TypeOK' /\ RequestInv(r)
    BY CheckoutType DEF IInv
  <1>2. /\ UNCHANGED <<op, orders, items, jobs, sessions>>
        /\ pc'[r] = "failed" /\ txn'[r] = NoRows
        /\ local'[r] = local[r] \/ Placed(r) = {}
        /\ \A q \in Requests \ {r} :
             pc'[q] = pc[q] /\ local'[q] = local[q] /\ txn'[q] = txn[q]
    BY DEF IInv, TypeOK, Fails, Goto, cartVars, outVars
  <1>3. JobsHaveOrders'
    BY <1>2 DEF IInv, JobsHaveOrders
  <1>4. \A q \in Requests : Placed(q)' = Placed(q) /\ Ordered(q)' = Ordered(q)
    BY <1>2 DEF Placed, Ordered
  <1>5. RequestInv(r)'
    BY <1>1, <1>2, <1>4 DEF RequestInv, CartRequest, CheckoutRequest, OwnRows, Paid, Saved,
                            Committed, Before, CartLabels, Final, NoRows
  <1>6. CASE op[r] = "checkout"
    BY <1>1, <1>2, <1>3, <1>5, <1>6, QuietInv
  <1>7. CASE op[r] # "checkout"
    <2>1. Placed(r)' = {} /\ Ordered(r)' = {}
      BY <1>1, <1>4, <1>7 DEF RequestInv, CartRequest
    <2>2. (\A q \in Requests : RequestInv(q)') /\ OrdersComplete'
      BY <1>2, <1>4, <1>5, <2>1, Others
    <2>3. QED
      BY <1>1, <1>3, <2>2 DEF IInv
  <1>8. QED
    BY <1>6, <1>7

\* The end of the hour touches the job alone.
LEMMA JobInv == IInv /\ (NotifyAbandoned \/ UNCHANGED vars) => IInv'
  <1> SUFFICES ASSUME IInv, NotifyAbandoned \/ UNCHANGED vars PROVE IInv'
    OBVIOUS
  <1>1. UNCHANGED <<op, cart, jobItems, pc, local, txn, orders, items, jobs, sessions>>
    BY DEF NotifyAbandoned, vars, cartVars, txnVars, outVars
  <1>2. TypeOK'
    BY <1>1 DEF IInv, TypeOK, NotifyAbandoned, vars, cartVars
  <1>3. \A r \in Requests : Placed(r)' = Placed(r) /\ Ordered(r)' = Ordered(r)
    BY <1>1 DEF Placed, Ordered
  <1>4. ASSUME NEW r \in Requests PROVE RequestInv(r)'
    BY <1>1, <1>3, Frame DEF IInv
  <1>5. OrdersComplete' /\ JobsHaveOrders'
    BY <1>1, <1>3 DEF IInv, OrdersComplete, JobsHaveOrders, Whole
  <1>6. QED
    BY <1>2, <1>4, <1>5 DEF IInv

----------------------------------------------------------------------------
(* The theorems *)

\* Every step of every request keeps the invariant.
LEMMA NextInv == IInv /\ [Next]_vars => IInv'
  <1> SUFFICES ASSUME IInv, [Next]_vars PROVE IInv'
    OBVIOUS
  <1>1. CASE NotifyAbandoned \/ UNCHANGED vars
    BY <1>1, JobInv
  <1>2. ASSUME NEW r \in Requests, CartStep(r) PROVE IInv'
    BY <1>2, CartInv
  <1>3. ASSUME NEW r \in Requests, CheckoutStep(r) PROVE IInv'
    <2>1. op[r] = "checkout"
      BY <1>3 DEF IInv, RequestInv, CartRequest, CartLabels, Final, CheckoutStep, CheckoutFind,
                  CheckoutBegin, ClearCart, CheckoutJob, CheckoutCommit, Dispatched, CheckoutPay,
                  SaveOrder, SaveItem, Dispatch
    <2>2. QED
      BY <1>3, <2>1, SilentInv, CommitInv, PayInv, SaveOrderInv, SaveItemInv, DispatchInv
         DEF CheckoutStep
  <1>4. ASSUME NEW r \in Requests, Fails(r) PROVE IInv'
    BY <1>4, FailsInv
  <1>5. QED
    BY <1>1, <1>2, <1>3, <1>4 DEF Next

\* The invariant holds in every reachable state.
THEOREM Invariance == Spec => []IInv
  <1>1. QED
    BY InitInv, NextInv, PTL DEF Spec

\* The cart, the transactions and the rows keep their types.
THEOREM TypeCorrect == Spec => []TypeOK
  <1>1. IInv => TypeOK
    BY DEF IInv
  <1>2. QED
    BY <1>1, Invariance, PTL

\* The orders a cart is split into are all there or none is.
THEOREM OrdersAreComplete == Spec => []OrdersComplete
  <1>1. IInv => OrdersComplete
    BY DEF IInv
  <1>2. QED
    BY <1>1, Invariance, PTL

\* No job and no payment for an order that is not committed.
THEOREM JobsFollowOrders == Spec => []JobsHaveOrders
  <1>1. IInv => JobsHaveOrders
    BY DEF IInv
  <1>2. QED
    BY <1>1, Invariance, PTL

\* A checkout that reports success has done all it reports.
THEOREM SuccessMeansComplete == Spec => []SuccessIsComplete
  <1>1. IInv => SuccessIsComplete
    <2> SUFFICES ASSUME IInv, NEW r \in Requests, op[r] = "checkout", pc[r] = "ok"
                 PROVE  /\ Placed(r) # {}
                        /\ \A o \in Placed(r) : Jobs(o) = JobNames
                        /\ r \in External => \E s \in sessions : s[1] = r
      BY DEF SuccessIsComplete
    <2>1. RequestInv(r)
      BY DEF IInv
    <2>2. Whole(r, txn[r].orders, txn[r].items) /\ Placed(r) = txn[r].orders
      BY <2>1 DEF RequestInv, CheckoutRequest, Saved, Committed
    <2>3. QED
      BY <2>1, <2>2 DEF RequestInv, CheckoutRequest, Paid, Whole, Linked
  <1>2. QED
    BY <1>1, Invariance, PTL

----------------------------------------------------------------------------
(* Sums over finite sets, in whatever order the fold takes the elements *)

\* g[s] is the sum of f over s, for the subsets s of S.
Sums(g, f, S) ==
  /\ g \in [SUBSET S -> Nat]
  /\ g[{}] = 0
  /\ \A s \in SUBSET S : \A x \in s : g[s] = f[x] + g[s \ {x}]

\* A set of subsets of a finite set has a least one.
LEMMA LeastSubset ==
  ASSUME NEW S, IsFiniteSet(S), NEW T, T \subseteq SUBSET S, T # {}
  PROVE  \E s \in T : \A u \in T : u \subseteq s => u = s
  <1>1. T \subseteq FiniteSubsetsOf(S)
    BY FS_FiniteSubsetsOfFinite
  <1>2. PICK s \in T : \A u \in T : <<u, s>> \notin StrictSubsetOrdering(S)
    BY <1>1, FS_StrictSubsetOrderingWellFounded, WFMin
  <1>3. ASSUME NEW u \in T, u \subseteq s, u # s PROVE FALSE
    BY <1>2, <1>3 DEF StrictSubsetOrdering
  <1>4. QED
    BY <1>3

\* There is such a function: a set that is one larger has it from the smaller one.
LEMMA SumsExist ==
  ASSUME NEW S, IsFiniteSet(S), NEW f \in [S -> Nat]
  PROVE  \E g : Sums(g, f, S)
  <1> DEFINE T == {s \in SUBSET S : ~ \E g : Sums(g, f, s)}
  <1>1. SUFFICES ASSUME T # {} PROVE FALSE
    OBVIOUS
  <1>2. PICK s \in T : \A u \in T : u \subseteq s => u = s
    <2>1. T \subseteq SUBSET S
      OBVIOUS
    <2> HIDE DEF T
    <2>2. QED
      BY <1>1, <2>1, LeastSubset
  <1>3. s # {}
    <2>1. Sums([u \in SUBSET {} |-> 0], f, {})
      BY DEF Sums
    <2>2. QED
      BY <1>2, <2>1
  <1>4. PICK x \in s : TRUE
    BY <1>3
  <1>5. PICK g : Sums(g, f, s \ {x})
    BY <1>2, <1>4
  <1> DEFINE h == [u \in SUBSET s |-> IF x \in u THEN f[x] + g[u \ {x}] ELSE g[u]]
  <1>6. h \in [SUBSET s -> Nat]
    <2>1. f[x] \in Nat /\ g \in [SUBSET (s \ {x}) -> Nat]
      BY <1>4, <1>5 DEF Sums
    <2>2. ASSUME NEW u \in SUBSET s PROVE h[u] \in Nat
      <3>1. CASE x \in u
        <4>1. u \ {x} \in SUBSET (s \ {x})
          OBVIOUS
        <4>2. g[u \ {x}] \in Nat
          BY <2>1, <4>1
        <4>3. QED
          BY <2>1, <3>1, <4>2
      <3>2. CASE x \notin u
        <4>1. u \in SUBSET (s \ {x})
          BY <3>2
        <4>2. QED
          BY <2>1, <3>2, <4>1
      <3>3. QED
        BY <3>1, <3>2
    <2>3. QED
      BY <2>2
  <1>7. h[{}] = 0
    BY <1>5 DEF Sums
  <1>8. ASSUME NEW u \in SUBSET s, NEW y \in u PROVE h[u] = f[y] + h[u \ {y}]
    <2>1. f[x] \in Nat /\ f[y] \in Nat /\ g \in [SUBSET (s \ {x}) -> Nat]
      BY <1>4, <1>5 DEF Sums
    <2>2. u \ {y} \in SUBSET s
      OBVIOUS
    <2>3. CASE x = y
      BY <1>5, <2>2, <2>3
    <2>4. CASE x # y /\ x \in u
      <3>1. u \ {x} \in SUBSET (s \ {x}) /\ y \in u \ {x} /\ (u \ {x}) \ {y} = (u \ {y}) \ {x}
        BY <2>4
      <3>2. g[u \ {x}] = f[y] + g[(u \ {y}) \ {x}]
        BY <1>5, <3>1 DEF Sums
      <3>3. g[(u \ {y}) \ {x}] \in Nat
        BY <2>1, <3>1
      <3>4. h[u] = f[x] + g[u \ {x}] /\ h[u \ {y}] = f[x] + g[(u \ {y}) \ {x}]
        BY <2>2, <2>4
      <3> HIDE DEF h
      <3>5. QED
        BY <2>1, <3>2, <3>3, <3>4
    <2>5. CASE x \notin u
      <3>1. u \in SUBSET (s \ {x}) /\ x \notin u \ {y}
        BY <2>5
      <3>2. g[u] = f[y] + g[u \ {y}]
        BY <1>5, <3>1 DEF Sums
      <3>3. QED
        BY <2>2, <2>5, <3>1, <3>2
    <2>6. QED
      BY <2>3, <2>4, <2>5
  <1>9. Sums(h, f, s)
    <2> HIDE DEF h
    <2>1. QED
      BY <1>6, <1>7, <1>8 DEF Sums
  <1>10. QED
    BY <1>2, <1>9

\* The fold is that function, whichever elements it chooses first.
LEMMA SumIs ==
  ASSUME NEW S, IsFiniteSet(S), NEW f \in [S -> Nat], NEW T \in SUBSET S, NEW g, Sums(g, f, S)
  PROVE  SumFunctionOnSet(f, T) = g[T]
  <1> DEFINE F(k) == [s \in SUBSET T |->
                        IF s = {} THEN 0
                        ELSE f[CHOOSE x \in s : TRUE] + k[s \ {CHOOSE x \in s : TRUE}]]
  <1>1. SumFunctionOnSet(f, T) = (CHOOSE k : k = F(k))[T]
    BY DEF SumFunctionOnSet, FoldFunctionOnSet, MapThenFoldSet
  <1>2. IsFiniteSet(T)
    BY FS_Subset
  <1> DEFINE k0 == [s \in SUBSET T |-> g[s]]
  <1>3. k0 = F(k0)
    <2>1. ASSUME NEW s \in SUBSET T, s # {}
          PROVE  g[s] = f[CHOOSE x \in s : TRUE] + g[s \ {CHOOSE x \in s : TRUE}]
      <3>1. (CHOOSE x \in s : TRUE) \in s
        BY <2>1
      <3>2. QED
        BY <3>1 DEF Sums
    <2>2. g[{}] = 0
      BY DEF Sums
    <2>3. QED
      BY <2>1, <2>2
  <1> DEFINE k == CHOOSE h : h = F(h)
  <1>4. k = F(k)
    BY <1>3
  <1>5. \A s \in SUBSET T : k[s] = g[s]
    <2> DEFINE B == {s \in SUBSET T : k[s] # g[s]}
    <2>1. SUFFICES ASSUME B # {} PROVE FALSE
      OBVIOUS
    <2>2. B \subseteq SUBSET T
      OBVIOUS
    <2>3. PICK s \in B : \A u \in B : u \subseteq s => u = s
      <3> HIDE DEF B
      <3>1. QED
        BY <1>2, <2>1, <2>2, LeastSubset
    <2>4. s # {}
      <3>1. k[{}] = 0
        BY <1>4
      <3>2. QED
        BY <3>1 DEF Sums
    <2>5. PICK x \in s : x = CHOOSE y \in s : TRUE
      BY <2>4
    <2>6. k[s] = f[x] + k[s \ {x}]
      BY <1>4, <2>2, <2>4, <2>5
    <2>7. k[s \ {x}] = g[s \ {x}]
      <3>1. s \ {x} \in SUBSET T /\ s \ {x} # s
        BY <2>2, <2>5
      <3>2. s \ {x} \notin B
        <4> HIDE DEF B
        <4>1. QED
          BY <2>3, <3>1
      <3> HIDE DEF k
      <3>3. QED
        BY <3>1, <3>2
    <2>8. g[s] = f[x] + g[s \ {x}]
      BY <2>2, <2>5 DEF Sums
    <2> HIDE DEF k
    <2>9. QED
      BY <2>6, <2>7, <2>8
  <1> HIDE DEF F
  <1>6. QED
    BY <1>1, <1>5

\* A sum is a number: zero, or one of the values and the sum of the others, ...
LEMMA SumTyped ==
  ASSUME NEW S, IsFiniteSet(S), NEW f \in [S -> Nat], NEW T \in SUBSET S
  PROVE  SumFunctionOnSet(f, T) \in Nat
  <1>1. PICK g : Sums(g, f, S)
    BY SumsExist
  <1>2. SumFunctionOnSet(f, T) = g[T]
    BY <1>1, SumIs
  <1>3. QED
    BY <1>1, <1>2 DEF Sums

LEMMA SumEmpty ==
  ASSUME NEW S, IsFiniteSet(S), NEW f \in [S -> Nat]
  PROVE  SumFunctionOnSet(f, {}) = 0
  <1>1. PICK g : Sums(g, f, S)
    BY SumsExist
  <1>2. SumFunctionOnSet(f, {}) = g[{}]
    BY <1>1, SumIs
  <1>3. QED
    BY <1>1, <1>2 DEF Sums

LEMMA SumTakes ==
  ASSUME NEW S, IsFiniteSet(S), NEW f \in [S -> Nat], NEW T \in SUBSET S, NEW x \in T
  PROVE  SumFunctionOnSet(f, T) = f[x] + SumFunctionOnSet(f, T \ {x})
  <1>1. PICK g : Sums(g, f, S)
    BY SumsExist
  <1>2. SumFunctionOnSet(f, T) = g[T] /\ SumFunctionOnSet(f, T \ {x}) = g[T \ {x}]
    BY <1>1, SumIs
  <1>3. QED
    BY <1>1, <1>2 DEF Sums

\* ... or the sums of the two parts of a set.
LEMMA SumSplits ==
  ASSUME NEW S, IsFiniteSet(S), NEW f \in [S -> Nat], NEW T \in SUBSET S, NEW part \in SUBSET T
  PROVE  SumFunctionOnSet(f, T) = SumFunctionOnSet(f, part) + SumFunctionOnSet(f, T \ part)
  <1> DEFINE B == {p \in SUBSET T : SumFunctionOnSet(f, T)
                                      # SumFunctionOnSet(f, p) + SumFunctionOnSet(f, T \ p)}
  <1>0. IsFiniteSet(T)
    BY FS_Subset
  <1>1. SUFFICES ASSUME B # {} PROVE FALSE
    OBVIOUS
  <1>2. PICK p \in B : \A u \in B : u \subseteq p => u = p
    <2>1. B \subseteq SUBSET T
      OBVIOUS
    <2> HIDE DEF B
    <2>2. QED
      BY <1>0, <1>1, <2>1, LeastSubset
  <1>3. p # {}
    <2>1. SumFunctionOnSet(f, {}) = 0 /\ SumFunctionOnSet(f, T) \in Nat
      BY SumEmpty, SumTyped
    <2>2. T \ {} = T
      OBVIOUS
    <2>3. QED
      BY <2>1, <2>2
  <1>4. PICK x \in p : TRUE
    BY <1>3
  <1>5. p \ {x} \in SUBSET T /\ p \ {x} \notin B
    BY <1>2, <1>4
  <1>6. SumFunctionOnSet(f, T)
          = SumFunctionOnSet(f, p \ {x}) + SumFunctionOnSet(f, T \ (p \ {x}))
    BY <1>5
  <1>7. SumFunctionOnSet(f, p) = f[x] + SumFunctionOnSet(f, p \ {x})
    BY <1>2, <1>4, SumTakes
  <1>8. SumFunctionOnSet(f, T \ (p \ {x})) = f[x] + SumFunctionOnSet(f, T \ p)
    <2>1. x \in T \ (p \ {x}) /\ (T \ (p \ {x})) \ {x} = T \ p /\ T \ (p \ {x}) \in SUBSET S
      BY <1>2, <1>4
    <2>2. QED
      BY <2>1, SumTakes
  <1>9. /\ f[x] \in Nat /\ SumFunctionOnSet(f, p \ {x}) \in Nat
        /\ SumFunctionOnSet(f, T \ p) \in Nat
    BY <1>2, <1>4, SumTyped
  <1>10. SumFunctionOnSet(f, T) # SumFunctionOnSet(f, p) + SumFunctionOnSet(f, T \ p)
    BY <1>2
  <1> HIDE DEF B
  <1>11. QED
    BY <1>6, <1>7, <1>8, <1>9, <1>10

\* A sum by groups: if val[w] is the sum of f over the x that group sends to w, the
\* values sum up to that of all x.
LEMMA SumOfGroups ==
  ASSUME NEW S, IsFiniteSet(S), NEW f \in [S -> Nat],
         NEW W, IsFiniteSet(W), NEW group \in [S -> W], NEW val \in [W -> Nat],
         \A w \in W : val[w] = SumFunctionOnSet(f, {x \in S : group[x] = w})
  PROVE  SumFunctionOnSet(val, W) = SumFunctionOnSet(f, S)
  <1> DEFINE In(T) == {x \in S : group[x] \in T}
             B == {T \in SUBSET W : SumFunctionOnSet(val, T) # SumFunctionOnSet(f, In(T))}
  <1>1. SUFFICES ASSUME B # {} PROVE FALSE
    <2>1. W \notin B
      BY <1>1
    <2>2. In(W) = S
      OBVIOUS
    <2>3. QED
      BY <2>1, <2>2
  <1>2. PICK T \in B : \A u \in B : u \subseteq T => u = T
    <2>1. B \subseteq SUBSET W
      OBVIOUS
    <2> HIDE DEF B
    <2>2. QED
      BY <1>1, <2>1, LeastSubset
  <1>3. T # {}
    <2>1. In({}) = {}
      OBVIOUS
    <2>2. SumFunctionOnSet(val, {}) = 0 /\ SumFunctionOnSet(f, {}) = 0
      BY SumEmpty
    <2>3. QED
      BY <2>1, <2>2
  <1>4. PICK w \in T : TRUE
    BY <1>3
  <1>5. T \ {w} \notin B /\ T \ {w} \in SUBSET W
    BY <1>2, <1>4
  <1>6. SumFunctionOnSet(val, T \ {w}) = SumFunctionOnSet(f, In(T \ {w}))
    BY <1>5
  <1>7. SumFunctionOnSet(val, T) = val[w] + SumFunctionOnSet(val, T \ {w})
    BY <1>2, <1>4, SumTakes
  <1>8. SumFunctionOnSet(f, In(T)) = val[w] + SumFunctionOnSet(f, In(T \ {w}))
    <2> DEFINE part == {x \in S : group[x] = w}
    <2>1. In(T) \in SUBSET S /\ part \in SUBSET In(T)
      BY <1>4
    <2>2. In(T) \ part = In(T \ {w})
      OBVIOUS
    <2>3. val[w] = SumFunctionOnSet(f, part)
      BY <1>2, <1>4
    <2> HIDE DEF part, In
    <2>4. SumFunctionOnSet(f, In(T)) = SumFunctionOnSet(f, part) + SumFunctionOnSet(f, In(T) \ part)
      BY <2>1, SumSplits
    <2>5. QED
      BY <2>2, <2>3, <2>4
  <1>9. QED
    BY <1>2, <1>6, <1>7, <1>8

----------------------------------------------------------------------------
(* What a checkout asks to be paid: a second invariant, on top of the first *)

\* The orders of a transaction are of different warehouses, since each is saved when
\* no other order is left without an item.
Apart(r) == \A o, p \in txn[r].orders : o[2] = p[2] => o = p

\* A cart has finitely many lines: each call puts one in.
CartsFinite ==
  /\ cart # NONE => IsFiniteSet(LinesIn(cart))
  /\ \A r \in Requests : IsFiniteSet(LinesIn(local[r]))

\* A payment is of a checkout that is over.
SessionsOver == \A s \in sessions : s[1] \in Requests /\ op[s[1]] = "checkout" /\ pc[s[1]] \in Final

PaymentInv ==
  /\ IInv
  /\ CartsFinite /\ (\A r \in Requests : Apart(r))
  /\ SessionsOver /\ PaymentsCoverOrders

\* The totals of the orders add up to what the lines of the cart cost ...
LEMMA OrdersWorth ==
  ASSUME PaymentInv, NEW r \in Requests, Whole(r, txn[r].orders, txn[r].items)
  PROVE  AmountToPay(r) = SumFunctionOnSet(Worth(r), LinesIn(local[r]))
  <1> DEFINE S == LinesIn(local[r])
             f == Worth(r)
             W == txn[r].orders
             group == [l \in S |-> CHOOSE o \in W : o[2] = WarehouseOf[l]]
             val == [o \in W |-> Total(r, o[2])]
  <1>1. IsFiniteSet(S) /\ f \in [S -> Nat]
    BY CheckoutAssumption DEF PaymentInv, CartsFinite, Worth, LinesIn, IInv, TypeOK
  <1>2. \A l \in S : group[l] \in W /\ group[l][2] = WarehouseOf[l]
    <2>1. ASSUME NEW l \in S PROVE \E o \in W : o[2] = WarehouseOf[l]
      BY DEF Whole
    <2>2. QED
      BY <2>1
  <1>3. \A o \in W : {l \in S : group[l] = o} = {l \in S : WarehouseOf[l] = o[2]}
    BY <1>2 DEF PaymentInv, Apart
  <1>4. group \in [S -> W]
    BY <1>2
  <1>5. \A o \in W : \E l \in S : group[l] = o
    <2>1. ASSUME NEW o \in W PROVE \E l \in S : WarehouseOf[l] = o[2]
      BY DEF Whole
    <2>2. QED
      BY <1>2, <2>1 DEF PaymentInv, Apart
  <1>6. \A o \in W : val[o] = SumFunctionOnSet(f, {l \in S : group[l] = o})
    BY <1>3 DEF Total
  <1> HIDE DEF S, f, W, group
  <1>7. IsFiniteSet(W)
    <2>1. group \in Surjection(S, W)
      BY <1>4, <1>5 DEF Surjection
    <2>2. QED
      BY <1>1, <2>1, FS_Surjection
  <1>8. val \in [W -> Nat]
    <2>1. ASSUME NEW o \in W PROVE val[o] \in Nat
      <3>1. {l \in S : group[l] = o} \in SUBSET S
        OBVIOUS
      <3>2. SumFunctionOnSet(f, {l \in S : group[l] = o}) \in Nat
        BY <1>1, <3>1, SumTyped
      <3>3. QED
        BY <1>6, <3>2
    <2>2. QED
      BY <2>1
  <1>9. AmountToPay(r) = SumFunctionOnSet(val, W)
    BY DEF AmountToPay, SumFunction, W
  <1> HIDE DEF val
  <1>10. SumFunctionOnSet(val, W) = SumFunctionOnSet(f, S)
    BY <1>1, <1>4, <1>6, <1>7, <1>8, SumOfGroups
  <1>11. QED
    BY <1>9, <1>10 DEF S, f

\* ... and so is the worth of the items, one for each line of the cart.
LEMMA ItemsWorth ==
  ASSUME PaymentInv, NEW r \in Requests, Whole(r, txn[r].orders, txn[r].items)
  PROVE  SumFunction([i \in txn[r].items |-> i[3] * Price[i[2]]])
           = SumFunctionOnSet(Worth(r), LinesIn(local[r]))
  <1> DEFINE S == LinesIn(local[r])
             f == Worth(r)
             W == txn[r].items
             group == [l \in S |-> <<r, l, local[r][l]>>]
             val == [i \in W |-> i[3] * Price[i[2]]]
  <1>1. IsFiniteSet(S) /\ f \in [S -> Nat]
    BY CheckoutAssumption DEF PaymentInv, CartsFinite, Worth, LinesIn, IInv, TypeOK
  <1>2. W = {group[l] : l \in S}
    BY DEF Whole
  <1>3. ASSUME NEW l \in S
        PROVE  /\ val[group[l]] = f[l] /\ group[l] \in W
               /\ {k \in S : group[k] = group[l]} = {l}
    BY <1>2 DEF Worth
  <1> HIDE DEF S, f, W, val
  <1>4. group \in Surjection(S, W)
    BY <1>2 DEF Surjection
  <1> HIDE DEF group
  <1>5. IsFiniteSet(W) /\ group \in [S -> W]
    BY <1>1, <1>4, FS_Surjection DEF Surjection
  <1>6. ASSUME NEW l \in S PROVE SumFunctionOnSet(f, {l}) = f[l]
    <2>1. {l} \in SUBSET S /\ {l} \ {l} = {} /\ l \in {l}
      OBVIOUS
    <2>2. SumFunctionOnSet(f, {l}) = f[l] + SumFunctionOnSet(f, {l} \ {l})
      BY <1>1, <2>1, SumTakes
    <2>3. QED
      BY <1>1, <2>1, <2>2, SumEmpty
  <1>7. ASSUME NEW i \in W
        PROVE  val[i] \in Nat /\ val[i] = SumFunctionOnSet(f, {l \in S : group[l] = i})
    <2>1. PICK l \in S : group[l] = i
      BY <1>2
    <2>2. QED
      BY <1>1, <1>3, <1>6, <2>1
  <1>8. val \in [W -> Nat] /\ val = [i \in W |-> i[3] * Price[i[2]]]
    BY <1>7 DEF val
  <1>9. SumFunctionOnSet(val, W) = SumFunctionOnSet(f, S)
    BY <1>1, <1>5, <1>7, <1>8, SumOfGroups
  <1>10. DOMAIN val = W
    BY <1>8
  <1>11. SumFunction(val) = SumFunctionOnSet(f, S)
    BY <1>9, <1>10 DEF SumFunction
  <1>12. QED
    BY <1>8, <1>11 DEF S, f, W

----------------------------------------------------------------------------
\* A step puts at most the line of its call into a cart.
LEMMA StepCarts ==
  ASSUME IInv, NEW r \in Requests, CartStep(r) \/ CheckoutStep(r) \/ Fails(r),
         CartsFinite
  PROVE  CartsFinite'
  <1> DEFINE Fine(c) == IsFiniteSet(LinesIn(c))
  <1>1. Fine(Empty)
    <2>1. LinesIn(Empty) = {}
      BY DEF LinesIn, Empty
    <2>2. QED
      BY <2>1, FS_EmptySet
  <1>2. ASSUME NEW c \in [Lines -> Nat], Fine(c) PROVE Fine(Edited(r, c))
    <2>1. CASE op[r] = "clear"
      BY <1>1, <2>1 DEF Edited
    <2>2. CASE op[r] # "clear"
      <3>1. LinesIn(Edited(r, c)) \subseteq LinesIn(c) \cup {LineOf[r]}
        BY <2>2, CheckoutAssumption DEF Edited, LinesIn
      <3>2. IsFiniteSet(LinesIn(c) \cup {LineOf[r]})
        BY <1>2, FS_AddElement
      <3>3. QED
        BY <3>1, <3>2, FS_Subset
    <2>3. QED
      BY <2>1, <2>2
  <1>3. ASSUME NEW c \in [Lines -> Nat], Fine(c), Got(r, c)
        PROVE  \A q \in Requests : Fine(local[q])'
    <2>1. UNCHANGED local \/ local' = [local EXCEPT ![r] = Edited(r, c)]
      BY <1>3 DEF Got
    <2>2. QED
      BY <1>2, <1>3, <2>1 DEF CartsFinite, IInv, TypeOK
  <1> HIDE DEF Fine
  <1>4. (cart # NONE => cart \in [Lines -> Nat] /\ Fine(cart)) /\ \A q \in Requests : Fine(local[q])
    BY DEF CartsFinite, Fine, IInv, TypeOK
  <1>5. DOMAIN local = Requests /\ Empty \in [Lines -> Nat]
    BY DEF IInv, TypeOK, Empty
  <1>6. CASE CartFind(r)
    BY <1>3, <1>4, <1>6 DEF CartFind, cartVars, CartsFinite, Fine
  <1>7. CASE CartInsert(r)
    BY <1>1, <1>3, <1>4, <1>5, <1>7 DEF CartInsert, CartsFinite, Fine
  <1>8. CASE CartSave(r)
    BY <1>1, <1>4, <1>5, <1>8 DEF CartSave, CartsFinite, Fine
  <1>9. CASE CartJob(r)
    BY <1>1, <1>4, <1>5, <1>9 DEF CartJob, CartsFinite, Fine
  <1>10. CASE CheckoutFind(r)
    BY <1>1, <1>4, <1>5, <1>10 DEF CheckoutFind, cartVars, CartsFinite, Fine
  <1>11. CASE ClearCart(r)
    BY <1>1, <1>4, <1>11 DEF ClearCart, CartsFinite, Fine
  <1>12. CASE Fails(r)
    BY <1>1, <1>4, <1>5, <1>12 DEF Fails, cartVars, CartsFinite, Fine
  <1>13. CASE /\ CheckoutStep(r)
              /\ ~(CheckoutFind(r) \/ ClearCart(r))
    <2>1. UNCHANGED <<cart, local>>
      BY <1>13 DEF CheckoutStep, CheckoutBegin, CheckoutJob, CheckoutCommit, Dispatched,
                   CheckoutPay, SaveOrder, SaveItem, Dispatch, cartVars
    <2>2. QED
      BY <1>4, <2>1 DEF CartsFinite, Fine
  <1>14. QED
    BY <1>6, <1>7, <1>8, <1>9, <1>10, <1>11, <1>12, <1>13 DEF CartStep

\* A new order is of a warehouse that has none yet.
LEMMA StepApart ==
  ASSUME IInv, \A q \in Requests : Apart(q), NEW r \in Requests,
         CartStep(r) \/ CheckoutStep(r) \/ Fails(r)
  PROVE  \A q \in Requests : Apart(q)'
  <1>1. ASSUME NEW w \in Warehouses, SaveOrder(r, w) PROVE \A q \in Requests : Apart(q)'
    <2> DEFINE new == <<r, w, Parent(txn[r].orders)>>
    <2>1. \A o \in txn[r].orders : o[2] # w
      BY <1>1 DEF SaveOrder
    <2>2. /\ txn'[r].orders = txn[r].orders \cup {new}
          /\ \A q \in Requests \ {r} : txn'[q] = txn[q]
      BY <1>1 DEF SaveOrder, IInv, TypeOK
    <2>3. new[2] = w
      OBVIOUS
    <2> HIDE DEF new
    <2>4. Apart(r)'
      BY <2>1, <2>2, <2>3 DEF Apart
    <2>5. QED
      BY <2>2, <2>4 DEF Apart
  <1>2. CASE ~ \E w \in Warehouses : SaveOrder(r, w)
    <2>1. \A q \in Requests : txn'[q].orders \in {txn[q].orders, {}}
      <3>1. CASE CartStep(r)
        BY <3>1 DEF CartStep, CartFind, CartInsert, CartSave, CartJob, txnVars
      <3>2. CASE Fails(r)
        BY <3>2 DEF Fails, NoRows, IInv, TypeOK
      <3>3. ASSUME NEW l \in Lines, SaveItem(r, l)
            PROVE  \A q \in Requests : txn'[q].orders = txn[q].orders
        BY <3>3 DEF SaveItem, IInv, TypeOK
      <3>4. CASE CheckoutStep(r) /\ ~ \E l \in Lines : SaveItem(r, l)
        BY <1>2, <3>4 DEF CheckoutStep, CheckoutFind, CheckoutBegin, ClearCart, CheckoutJob,
                          CheckoutCommit, Dispatched, CheckoutPay, Dispatch, txnVars
      <3>5. QED
        BY <3>1, <3>2, <3>3, <3>4
    <2>2. QED
      BY <2>1 DEF Apart
  <1>3. QED
    BY <1>1, <1>2

\* What a call that is not over does leaves the payments as they are, and what was paid.
LEMMA PaymentsStay ==
  ASSUME IInv, SessionsOver, PaymentsCoverOrders, NEW r \in Requests, pc[r] \notin Final,
         UNCHANGED <<op, sessions>>, \A q \in Requests \ {r} : pc'[q] = pc[q],
         \A i \in items' \ items : i[1] = r, items \subseteq items'
  PROVE  SessionsOver' /\ PaymentsCoverOrders'
  <1>1. \A s \in sessions : s[1] # r
    BY DEF SessionsOver
  <1>2. SessionsOver'
    BY <1>1 DEF SessionsOver
  <1>3. ASSUME NEW s \in sessions PROVE Ordered(s[1])' = Ordered(s[1])
    BY <1>1 DEF Ordered
  <1>4. ASSUME NEW s \in sessions'
        PROVE  s[3] = SumFunction([i \in Ordered(s[1])' |-> i[3] * Price[i[2]]])
    <2>1. s \in sessions
      OBVIOUS
    <2>2. s[3] = SumFunction([i \in Ordered(s[1]) |-> i[3] * Price[i[2]]])
      BY <2>1 DEF PaymentsCoverOrders
    <2>3. Ordered(s[1])' = Ordered(s[1])
      BY <1>3, <2>1
    <2>4. QED
      BY <2>2, <2>3
  <1>5. QED
    BY <1>2, <1>4 DEF PaymentsCoverOrders

\* What the gateway is asked for is the worth of the items that are committed.
LEMMA PayCovers ==
  ASSUME PaymentInv, NEW r \in Requests, CheckoutPay(r)
  PROVE  SessionsOver' /\ PaymentsCoverOrders'
  <1>1. /\ UNCHANGED <<op, items>> /\ pc[r] = "pay" /\ pc'[r] \in Final
        /\ \A q \in Requests \ {r} : pc'[q] = pc[q]
    BY DEF CheckoutPay, Goto, Final, PaymentInv, IInv, TypeOK, txnVars
  <1>2. op[r] = "checkout"
    BY <1>1 DEF PaymentInv, IInv, RequestInv, CartRequest, CartLabels, Final
  <1>3. Ordered(r) = txn[r].items /\ Whole(r, txn[r].orders, txn[r].items)
    BY <1>1, <1>2 DEF PaymentInv, IInv, RequestInv, CheckoutRequest, Saved, Committed
  <1>4. PICK amount, parent : /\ amount = SumFunction([i \in Ordered(r) |-> i[3] * Price[i[2]]])
                              /\ sessions' \subseteq sessions \cup {<<r, parent, amount>>}
    <2>1. AmountToPay(r) = SumFunction([i \in Ordered(r) |-> i[3] * Price[i[2]]])
      BY <1>3, OrdersWorth, ItemsWorth
    <2>2. PICK parent : parent = Parent(txn[r].orders)
      OBVIOUS
    <2>3. sessions' \subseteq sessions \cup {<<r, parent, AmountToPay(r)>>}
      BY <2>2 DEF CheckoutPay
    <2>4. QED
      BY <2>1, <2>3
  <1>5. \A q : Ordered(q)' = Ordered(q)
    BY <1>1 DEF Ordered
  <1>6. ASSUME NEW s \in sessions'
        PROVE  /\ s[1] \in Requests /\ op'[s[1]] = "checkout" /\ pc'[s[1]] \in Final
               /\ s[3] = SumFunction([i \in Ordered(s[1])' |-> i[3] * Price[i[2]]])
    <2>1. CASE s \in sessions
      <3>1. /\ s[1] \in Requests /\ op[s[1]] = "checkout" /\ pc[s[1]] \in Final
            /\ s[3] = SumFunction([i \in Ordered(s[1]) |-> i[3] * Price[i[2]]])
        BY <2>1 DEF PaymentInv, SessionsOver, PaymentsCoverOrders
      <3>2. Ordered(s[1])' = Ordered(s[1])
        BY <1>5
      <3>3. QED
        BY <1>1, <3>1, <3>2
    <2>2. CASE s \notin sessions
      <3>1. s = <<r, parent, amount>>
        BY <1>4, <2>2
      <3>2. s[1] = r /\ s[3] = amount
        BY <3>1
      <3>3. Ordered(s[1])' = Ordered(r)
        BY <1>5, <3>2
      <3>4. QED
        BY <1>1, <1>2, <1>4, <3>2, <3>3
    <2>3. QED
      BY <2>1, <2>2
  <1>7. QED
    BY <1>6 DEF SessionsOver, PaymentsCoverOrders

\* Every step keeps what is known of payments.
LEMMA NextPaymentInv == PaymentInv /\ [Next]_vars => PaymentInv'
  <1> SUFFICES ASSUME PaymentInv, [Next]_vars PROVE PaymentInv'
    OBVIOUS
  <1>1. IInv /\ IInv'
    BY NextInv DEF PaymentInv
  <1>2. CASE NotifyAbandoned \/ UNCHANGED vars
    <2>1. UNCHANGED <<cart, op, pc, local, txn, items, sessions>>
      BY <1>2 DEF NotifyAbandoned, vars, cartVars, txnVars, outVars
    <2>2. CartsFinite' /\ (\A r \in Requests : Apart(r)') /\ SessionsOver'
      BY <2>1 DEF PaymentInv, CartsFinite, Apart, SessionsOver
    <2>3. PaymentsCoverOrders'
      <3>1. \A q : Ordered(q)' = Ordered(q)
        BY <2>1 DEF Ordered
      <3>2. QED
        BY <2>1, <3>1 DEF PaymentInv, PaymentsCoverOrders
    <2>4. QED
      BY <1>1, <2>2, <2>3 DEF PaymentInv
  <1>3. ASSUME NEW r \in Requests, CartStep(r) \/ CheckoutStep(r) \/ Fails(r) PROVE PaymentInv'
    <2>1. CartsFinite' /\ \A q \in Requests : Apart(q)'
      BY <1>1, <1>3, StepCarts, StepApart DEF PaymentInv
    <2>2. CASE CheckoutPay(r)
      BY <1>1, <2>1, <2>2, PayCovers DEF PaymentInv
    <2>3. CASE CheckoutCommit(r)
      <3>1. /\ pc[r] \notin Final /\ UNCHANGED <<op, sessions>>
            /\ \A q \in Requests \ {r} : pc'[q] = pc[q]
            /\ items' = items \cup txn[r].items
        BY <1>1, <2>3 DEF CheckoutCommit, Goto, Final, IInv, TypeOK, outVars
      <3>2. \A i \in txn[r].items : i[1] = r
        BY <1>1 DEF IInv, RequestInv, OwnRows
      <3>3. SessionsOver' /\ PaymentsCoverOrders'
        BY <1>1, <3>1, <3>2, PaymentsStay DEF PaymentInv
      <3>4. QED
        BY <1>1, <2>1, <3>3 DEF PaymentInv
    <2>4. CASE ~(CheckoutPay(r) \/ CheckoutCommit(r))
      <3>1. pc[r] \notin Final /\ UNCHANGED <<op, items, sessions>>
        BY <1>3, <2>4 DEF CartStep, CartFind, CartInsert, CartSave, CartJob, CheckoutStep,
                          CheckoutFind, CheckoutBegin, ClearCart, CheckoutJob, Dispatched,
                          SaveOrder, SaveItem, Dispatch, Fails, Final, txnVars, outVars
      <3>2. \A q \in Requests \ {r} : pc'[q] = pc[q]
        BY <1>1, <1>3, <2>4 DEF CartStep, CartFind, CartInsert, CartSave, CartJob, Got,
                          CheckoutStep, CheckoutFind, CheckoutBegin, ClearCart, CheckoutJob,
                          Dispatched, SaveOrder, SaveItem, Dispatch, Fails, Goto, IInv, TypeOK
      <3>3. SessionsOver' /\ PaymentsCoverOrders'
        BY <1>1, <3>1, <3>2, PaymentsStay DEF PaymentInv
      <3>4. QED
        BY <1>1, <2>1, <3>3 DEF PaymentInv
    <2>5. QED
      BY <2>2, <2>3, <2>4
  <1>4. QED
    BY <1>2, <1>3 DEF Next

\* At first there is no payment and no cart.
LEMMA InitPaymentInv == Init => PaymentInv
  <1> SUFFICES ASSUME Init PROVE PaymentInv
    OBVIOUS
  <1>1. IsFiniteSet(LinesIn(Empty))
    <2>1. LinesIn(Empty) = {}
      BY DEF LinesIn, Empty
    <2>2. QED
      BY <2>1, FS_EmptySet
  <1>2. QED
    BY <1>1, InitInv DEF Init, PaymentInv, CartsFinite, Apart, NoRows, SessionsOver,
                        PaymentsCoverOrders

\* A payment is for what the orders of its checkout are worth, item by item.
THEOREM PaymentsCover == Spec => []PaymentsCoverOrders
  <1>1. PaymentInv => PaymentsCoverOrders
    BY DEF PaymentInv
  <1>2. QED
    BY <1>1, InitPaymentInv, NextPaymentInv, PTL DEF Spec
=============================================================================
