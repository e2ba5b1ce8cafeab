------------------------------- MODULE Refund -------------------------------
(***************************************************************************)
(* RefundService.processRefund on top of the wallet.  A refund opens a     *)
(* transaction of its own (the credit memo, the order) and calls           *)
(* creditUser inside it, which runs another transaction on another         *)
(* connection of the same pool.  The external gateway is the transaction   *)
(* microservice: it either refunds or not, and its answer may be lost.     *)
(*                                                                         *)
(* OrderManagementService.updateOrderStatus and cancelOrder write the same *)
(* column of an order, without a transaction around their read and save.   *)
(***************************************************************************)
EXTENDS Wallet, Naturals

CONSTANTS
  Refunds,   \* the requests that call creditUser on behalf of a refund
  Updates,   \* calls of updateOrderStatus and cancelOrder
  Orders,
  OrderOf,   \* the order a refund or an update names
  PoolSize   \* connections of the PostgreSQL pool

ASSUME RefundAssumption ==
  /\ Refunds \subseteq Requests
  /\ \A q \in Refunds : Op[q] = "credit"
  /\ Updates \cap Requests = {}
  /\ NONE \notin Updates
  /\ OrderOf \in [Refunds \cup Updates -> Orders]
  /\ PoolSize \in Nat \ {0}

VARIABLES
  rpc,        \* where each refund is
  method,     \* the refund method its request asks for
  orderLock,  \* the refund with an uncommitted UPDATE of an order
  memos,      \* the committed credit memos
  gateway,    \* the refunds the gateway has paid out
  status,     \* orders.status, committed
  upc,        \* where each update is
  wanted,     \* the status an update is to set
  writer,     \* history: whose status an order has
  found       \* history: the writer of the status a refund's save has read

moneyVars == <<rpc, method, memos, gateway>>
orderVars == <<orderLock, status, writer, found>>
updateVars == <<upc, wanted>>
refundVars == <<moneyVars, orderVars, updateVars>>
allVars == <<vars, refundVars>>

----------------------------------------------------------------------------
Outer == {"memo", "move", "credit", "gateway", "order", "update", "commit", "rollback"}
Methods == {"STORE_CREDIT", "ORIGINAL_GATEWAY", "MANUAL"}
RefundFinal == {"ok", "rolledback", "failed"}

\* CANCELLED stands for PROCESSING, SHIPPED and DELIVERED too.
Statuses == {"PENDING", "CANCELLED", "REFUNDED"}

RefundTypeOK ==
  /\ rpc \in [Refunds -> {"idle", "begin"} \cup Outer \cup RefundFinal]
  /\ method \in [Refunds -> Methods \cup {NONE}]
  /\ orderLock \in [Orders -> Refunds \cup {NONE}]
  /\ memos \in SUBSET Refunds
  /\ gateway \in SUBSET Refunds
  /\ status \in [Orders -> Statuses]
  /\ upc \in [Updates -> {"idle", "save", "write", "ok", "failed"}]
  /\ wanted \in [Updates -> Statuses \cup {NONE}]
  /\ writer \in [Orders -> Refunds \cup Updates \cup {NONE}]
  /\ found \in [Refunds -> Refunds \cup Updates \cup {NONE}]

RefundInit ==
  /\ Init
  /\ rpc = [q \in Refunds |-> "idle"]
  /\ method = [q \in Refunds |-> NONE]
  /\ orderLock = [o \in Orders |-> NONE]
  /\ memos = {}
  /\ gateway = {}
  /\ status = [o \in Orders |-> "PENDING"]
  /\ upc = [u \in Updates |-> "idle"]
  /\ wanted = [u \in Updates |-> NONE]
  /\ writer = [o \in Orders |-> NONE]
  /\ found = [q \in Refunds |-> NONE]

RGoto(q, label) == rpc' = [rpc EXCEPT ![q] = label]
UGoto(u, label) == upc' = [upc EXCEPT ![u] = label]

\* Mutation: no release in a finally block, a failed transaction keeps its own.
InUseLeaking ==
  Cardinality({q \in Refunds : rpc[q] \in Outer \cup {"rolledback"}})
    + Cardinality({r \in Requests : pc[r] \in InTxn \cup {"failed"}})
    + Cardinality({u \in Updates : upc[u] = "write"})

\* Connections in use: one per open transaction, so a store-credit refund
\* holds one while it waits for another, and one per save between its SELECT
\* and its UPDATE.
InUse ==
  Cardinality({q \in Refunds : rpc[q] \in Outer})
    + Cardinality({r \in Requests : pc[r] \in InTxn})
    + Cardinality({u \in Updates : upc[u] = "write"})
FreeConnection == InUse < PoolSize

\* The wallet steps that ask the pool for a connection.
Pooled(r) ==
  \/ pc[r] \in {"begin", "insert"}
  \/ pc[r] = "idle" /\ Op[r] # "credit"

----------------------------------------------------------------------------
\* A request with any method.  Only the existence of the order matters: its
\* status is not looked at.
FindOrder(q) ==
  /\ rpc[q] = "idle"
  /\ FreeConnection
  /\ \/ RGoto(q, "begin") /\ \E m \in Methods : method' = [method EXCEPT ![q] = m]
     \/ RGoto(q, "failed") /\ UNCHANGED method
  /\ UNCHANGED <<vars, memos, gateway, orderVars, updateVars>>

RefundBegin(q) ==
  /\ rpc[q] = "begin"
  /\ FreeConnection
  /\ RGoto(q, "memo")
  /\ UNCHANGED <<vars, method, memos, gateway, orderVars, updateVars>>

SaveMemo(q) ==
  /\ rpc[q] = "memo"
  /\ RGoto(q, "move")
  /\ UNCHANGED <<vars, method, memos, gateway, orderVars, updateVars>>

\* STORE_CREDIT: creditUser is called and awaited.
MoveByCredit(q) ==
  /\ rpc[q] = "move"
  /\ method[q] = "STORE_CREDIT"
  /\ CreditStart(q)
  /\ RGoto(q, "credit")
  /\ UNCHANGED <<method, memos, gateway, orderVars, updateVars>>

\* Mutation: an error of creditUser is swallowed.
CreditReturnsAnyhow(q) ==
  /\ rpc[q] = "credit"
  /\ pc[q] \in Final
  /\ RGoto(q, "order")
  /\ UNCHANGED <<vars, method, memos, gateway, orderVars, updateVars>>

CreditReturns(q) ==
  /\ rpc[q] = "credit"
  /\ pc[q] \in Final
  /\ RGoto(q, IF pc[q] = "ok" THEN "order" ELSE "rollback")
  /\ UNCHANGED <<vars, method, memos, gateway, orderVars, updateVars>>

\* ORIGINAL_GATEWAY: an error when the request names no transactionId.
MoveByGateway(q) ==
  /\ rpc[q] = "move"
  /\ method[q] = "ORIGINAL_GATEWAY"
  /\ \E label \in {"gateway", "rollback"} : RGoto(q, label)
  /\ UNCHANGED <<vars, method, memos, gateway, orderVars, updateVars>>

\* A refusal, a failure on the way and a lost answer all throw.
GatewayReturns(q) ==
  /\ rpc[q] = "gateway"
  /\ \/ gateway' = gateway \cup {q} /\ RGoto(q, "order")
     \/ gateway' \in {gateway, gateway \cup {q}} /\ RGoto(q, "rollback")
  /\ UNCHANGED <<vars, method, memos, orderVars, updateVars>>

MoveByHand(q) ==
  /\ rpc[q] = "move"
  /\ method[q] = "MANUAL"
  /\ RGoto(q, "order")
  /\ UNCHANGED <<vars, method, memos, gateway, orderVars, updateVars>>

\* save(order) with status REFUNDED reads the row again; there is nothing to
\* write when the status is REFUNDED already.
SelectOrder(q) ==
  /\ rpc[q] = "order"
  /\ found' = [found EXCEPT ![q] = writer[OrderOf[q]]]
  /\ RGoto(q, IF status[OrderOf[q]] = "REFUNDED" THEN "commit" ELSE "update")
  /\ UNCHANGED <<vars, method, memos, gateway, orderLock, status, writer, updateVars>>

\* Mutation: orderRepo.save, which commits at once, for manager.save.
SaveOrderOutsideTxn(q) ==
  /\ rpc[q] = "update"
  /\ orderLock[OrderOf[q]] = NONE
  /\ status' = [status EXCEPT ![OrderOf[q]] = "REFUNDED"]
  /\ writer' = [writer EXCEPT ![OrderOf[q]] = q]
  /\ RGoto(q, "commit")
  /\ UNCHANGED <<vars, method, memos, gateway, orderLock, found, updateVars>>

\* The UPDATE waits for a concurrent refund of the same order, and overwrites
\* what an update has written since the SELECT.
SaveOrder(q) ==
  /\ rpc[q] = "update"
  /\ orderLock[OrderOf[q]] = NONE
  /\ orderLock' = [orderLock EXCEPT ![OrderOf[q]] = q]
  /\ RGoto(q, "commit")
  /\ UNCHANGED <<vars, method, memos, gateway, status, writer, found, updateVars>>

\* The reply to COMMIT may be lost: the caller gets an error.
RefundCommit(q) ==
  /\ rpc[q] = "commit"
  /\ memos' = memos \cup {q}
  /\ status' = [o \in Orders |-> IF orderLock[o] = q THEN "REFUNDED" ELSE status[o]]
  /\ writer' = [o \in Orders |-> IF orderLock[o] = q THEN q ELSE writer[o]]
  /\ orderLock' = LocksWithout(orderLock, q)
  /\ \E outcome \in {"ok", "failed"} : RGoto(q, outcome)
  /\ UNCHANGED <<vars, method, gateway, found, updateVars>>

RefundRollback(q) ==
  /\ rpc[q] = "rollback"
  /\ orderLock' = LocksWithout(orderLock, q)
  /\ RGoto(q, "rolledback")
  /\ UNCHANGED <<vars, method, memos, gateway, status, writer, found, updateVars>>

\* A query inside the try throws (SaveMemo also when two refunds get the
\* same MEMO-<millisecond> number).
RefundStepFails(q) ==
  /\ rpc[q] \in {"memo", "order", "update", "commit"}
  /\ RGoto(q, "rollback")
  /\ UNCHANGED <<vars, method, memos, gateway, orderVars, updateVars>>

RefundBeginFails(q) ==
  /\ rpc[q] = "begin"
  /\ RGoto(q, "failed")
  /\ UNCHANGED <<vars, method, memos, gateway, orderVars, updateVars>>

\* The process dies with both transactions of the refund.
RefundCrash(q) ==
  /\ rpc[q] \notin RefundFinal \cup {"idle"}
  /\ IF pc[q] \in Final \cup {"idle"} THEN UNCHANGED vars ELSE Crash(q)
  /\ orderLock' = LocksWithout(orderLock, q)
  /\ RGoto(q, "failed")
  /\ UNCHANGED <<method, memos, gateway, status, writer, found, updateVars>>

----------------------------------------------------------------------------
(* The other writers of orders.status *)

\* updateOrderStatus asks for no status before and takes any after: the
\* payment service reports REFUNDED through it.
UpdateFind(u) ==
  /\ upc[u] = "idle"
  /\ FreeConnection
  /\ \/ UGoto(u, "save") /\ \E s \in Statuses : wanted' = [wanted EXCEPT ![u] = s]
     \/ UGoto(u, "failed") /\ UNCHANGED wanted
  /\ UNCHANGED <<vars, moneyVars, orderVars>>

\* cancelOrder goes on from a status it has found PENDING.
CancelFind(u) ==
  /\ upc[u] = "idle"
  /\ FreeConnection
  /\ status[OrderOf[u]] = "PENDING"
  /\ UGoto(u, "save")
  /\ wanted' = [wanted EXCEPT ![u] = "CANCELLED"]
  /\ UNCHANGED <<vars, moneyVars, orderVars>>

\* save(order) reads the row again, on the connection it keeps for its UPDATE.
SelectStatus(u) ==
  /\ upc[u] = "save"
  /\ FreeConnection
  /\ UGoto(u, IF status[OrderOf[u]] = wanted[u] THEN "ok" ELSE "write")
  /\ UNCHANGED <<vars, moneyVars, orderVars, wanted>>

\* The UPDATE and its commit, whose reply may be lost.
WriteStatus(u) ==
  /\ upc[u] = "write"
  /\ orderLock[OrderOf[u]] = NONE
  /\ status' = [status EXCEPT ![OrderOf[u]] = wanted[u]]
  /\ writer' = [writer EXCEPT ![OrderOf[u]] = u]
  /\ \E outcome \in {"ok", "failed"} : UGoto(u, outcome)
  /\ UNCHANGED <<vars, moneyVars, orderLock, found, wanted>>

\* A query throws, or the process dies.
UpdateFails(u) ==
  /\ upc[u] \in {"save", "write"}
  /\ UGoto(u, "failed")
  /\ UNCHANGED <<vars, moneyVars, orderVars, wanted>>

----------------------------------------------------------------------------
(* The wallet's own requests and the credits of the refunds *)

WalletStep(r) ==
  /\ Step(r)
  /\ Pooled(r) => FreeConnection
  /\ UNCHANGED refundVars

WalletFailure(r) ==
  /\ \/ BeginFails(r)
     \/ StepFails(r)
     \/ r \notin Refunds /\ Crash(r)
  /\ UNCHANGED refundVars

RefundStep(q) ==
  \/ FindOrder(q) \/ RefundBegin(q) \/ SaveMemo(q)
  \/ MoveByCredit(q) \/ CreditReturns(q)
  \/ MoveByGateway(q) \/ GatewayReturns(q) \/ MoveByHand(q)
  \/ SelectOrder(q) \/ SaveOrder(q) \/ RefundCommit(q) \/ RefundRollback(q)

UpdateStep(u) == UpdateFind(u) \/ CancelFind(u) \/ SelectStatus(u) \/ WriteStatus(u)

RefundNext ==
  \/ \E r \in Requests : WalletStep(r) \/ WalletFailure(r)
  \/ \E q \in Refunds : RefundStep(q) \/ RefundStepFails(q)
                          \/ RefundBeginFails(q) \/ RefundCrash(q)
  \/ \E u \in Updates : UpdateStep(u) \/ UpdateFails(u)
  \/ \E u \in Users : LockExpires(u) /\ UNCHANGED refundVars

RefundSpec == RefundInit /\ [][RefundNext]_allVars

\* The event loop runs every request that has started, and PostgreSQL serves
\* lock waiters; nothing has to start, fail or crash, and no lock to expire.
RefundFairness ==
  /\ \A u \in Updates : WF_allVars(upc[u] # "idle" /\ UpdateStep(u))
  /\ \A r \in Requests : WF_allVars(pc[r] # "idle" /\ WalletStep(r))
  /\ \A q \in Refunds : WF_allVars(rpc[q] # "idle" /\ RefundStep(q))
FairRefundSpec == RefundSpec /\ RefundFairness

----------------------------------------------------------------------------
(* Properties *)

MoneyMoved(q) == q \in Applied \cup gateway

\* A credit memo is never issued for money that did not move: the memo
\* commits only after the wallet's own transaction or the gateway's answer.
MemosBacked ==
  \A q \in memos : method[q] # "MANUAL" => MoneyMoved(q)

\* Memo and order status are one transaction, whatever fails or crashes: a
\* status REFUNDED comes from a refund with its memo or from an update asked
\* to set it, and an order with a memo is REFUNDED unless an update has
\* overwritten it since the refund's save had read the row.
RefundedOrdersHaveMemos ==
  /\ \A o \in Orders : status[o] = "REFUNDED" =>
       \/ writer[o] \in memos /\ OrderOf[writer[o]] = o
       \/ writer[o] \in Updates /\ wanted[writer[o]] = "REFUNDED"
  /\ \A q \in memos : LET o == OrderOf[q] IN
       status[o] # "REFUNDED" => writer[o] \in Updates \ {found[q]}

\* "Transaction-safe refunds": a refund that was rolled back leaves no money
\* in the wallet, also when creditUser had succeeded.
RollbackTakesCreditBack ==
  \A q \in Refunds :
    rpc[q] = "rolledback" /\ pc[q] = "ok" => q \notin Applied

\* Every connection of the pool is held by a store-credit refund whose
\* creditUser waits for a second one: nobody gives one back any more.
PoolExhausted ==
  Cardinality({q \in Refunds : rpc[q] = "credit" /\ pc[q] = "begin"}) >= PoolSize

\* What has started comes to an end although refunds wait for row locks and
\* connections while they hold a connection, except in that one deadlock.
RefundsEnd ==
  /\ \A q \in Refunds : (rpc[q] # "idle") ~> (rpc[q] \in RefundFinal \/ PoolExhausted)
  /\ \A r \in Requests : (pc[r] # "idle") ~> (pc[r] \in Final \/ PoolExhausted)
  /\ \A u \in Updates : (upc[u] # "idle") ~> (upc[u] \in {"ok", "failed"} \/ PoolExhausted)
=============================================================================
