----------------------------- MODULE Marketplace -----------------------------
(***************************************************************************)
(* From a delivered order to the vendor's money: updateOrderStatus and     *)
(* cancelOrder, the sales-queue with its two workers, settleOrder,         *)
(* createPayoutRequest and processPayout.                                  *)
(*                                                                         *)
(* A revenue row is <<job, try, vendor>>: the settlement job that wrote it *)
(* and the run of that job (BullMQ runs a job again when its worker dies). *)
(* isSettled is the set of the calls of processPayout that have set it.    *)
(*                                                                         *)
(* All of them share one pool of PostgreSQL connections: a query waits     *)
(* until one is free, a transaction keeps its own to the end.              *)
(***************************************************************************)
EXTENDS Naturals, FiniteSetsExt

CONSTANTS
  Orders,
  Vendors,
  VendorsOf,  \* the vendors of an order's items
  Payable,    \* vendors with a row in vendors and a commission rule
  Worth,      \* what an order's items of a vendor have cost the customer
  NaN,        \* not a number, in JavaScript and in a numeric column
  Updates,    \* calls of updateOrderStatus and cancelOrder
  OrderOf,
  Payouts,    \* payout requests
  VendorOf,
  Amount,     \* what a payout request asks for
  Calls,      \* calls of processPayout
  PayoutOf,
  PoolSize,   \* connections of the PostgreSQL pool
  NONE

ASSUME MarketplaceAssumption ==
  /\ VendorsOf \in [Orders -> (SUBSET Vendors) \ {{}}]
  /\ Payable \subseteq Vendors
  /\ Worth \in [Orders -> [Vendors -> Nat]]
  /\ NaN \notin Nat
  /\ OrderOf \in [Updates -> Orders]
  /\ VendorOf \in [Payouts -> Vendors]
  /\ Amount \in [Payouts -> Nat]
  /\ PayoutOf \in [Calls -> Payouts]
  /\ PoolSize \in Nat \ {0}
  /\ NONE \notin Calls

VARIABLES
  status,   \* orders.status
  upc,      \* where each call of updateOrderStatus or cancelOrder is
  wanted,   \* the status it is about to save
  job,      \* the order-settlement job it has queued
  worker,   \* the processor that took the job
  try,      \* how often the job was run again
  todo,     \* the vendors its run has still to write a row for
  rows,     \* vendor_revenues
  payout,   \* payout_requests.status, and createPayoutRequest on its way
  pc,       \* where each call of processPayout is
  claim,    \* the rows its UPDATE found with isSettled = false
  payLock,  \* the transaction with an uncommitted UPDATE of a payout request
  settled,  \* pairs <<row, call>>: the call has set the row's isSettled
  paid      \* the calls the gateway has paid out

orderVars == <<status, upc, wanted>>
jobVars == <<job, worker, try, todo, rows>>
payVars == <<pc, claim, payLock, settled, paid>>
vars == <<orderVars, jobVars, payout, payVars>>

----------------------------------------------------------------------------
\* "cancelled" stands for every status that is neither pending nor delivered.
Statuses == {"pending", "delivered", "cancelled"}
JobStates == {"none", "waiting", "active", "completed", "failed"}
PayoutStates == {"none", "checked", "PENDING", "PROCESSED", "FAILED"}
InTxn == {"bridge", "select", "settle", "save", "commit", "rollback"}
Final == {"ok", "failed"}
MaxStalled == 1   \* BullMQ's default: a job that stalls twice fails

Rows == Updates \X (0..MaxStalled) \X Vendors

TypeOK ==
  /\ status \in [Orders -> Statuses]
  /\ upc \in [Updates -> {"idle", "save", "add"} \cup Final]
  /\ wanted \in [Updates -> Statuses]
  /\ job \in [Updates -> JobStates]
  /\ worker \in [Updates -> {"none", "sales", "settlement"}]
  /\ try \in [Updates -> 0..MaxStalled]
  /\ todo \in [Updates -> SUBSET Vendors]
  /\ rows \in SUBSET Rows
  /\ payout \in [Payouts -> PayoutStates]
  /\ pc \in [Calls -> {"idle", "begin", "mark", "marking"} \cup InTxn \cup Final]
  /\ claim \in [Calls -> SUBSET Rows]
  /\ payLock \in [Payouts -> Calls \cup {NONE}]
  /\ settled \in SUBSET (Rows \X Calls)
  /\ paid \in SUBSET Calls

Init ==
  /\ status = [o \in Orders |-> "pending"]
  /\ upc = [u \in Updates |-> "idle"]
  /\ wanted = [u \in Updates |-> "pending"]
  /\ job = [u \in Updates |-> "none"]
  /\ worker = [u \in Updates |-> "none"]
  /\ try = [u \in Updates |-> 0]
  /\ todo = [u \in Updates |-> {}]
  /\ rows = {}
  /\ payout = [p \in Payouts |-> "none"]
  /\ pc = [c \in Calls |-> "idle"]
  /\ claim = [c \in Calls |-> {}]
  /\ payLock = [p \in Payouts |-> NONE]
  /\ settled = {}
  /\ paid = {}

----------------------------------------------------------------------------
\* Connections in use: that of processPayout stays until its finally block,
\* and the save of its catch block takes a second one beside it.
InUse ==
  Cardinality({c \in Calls : pc[c] \in InTxn \cup {"mark", "marking"}})
    + Cardinality({c \in Calls : pc[c] = "marking"})
FreeConnection == InUse < PoolSize

----------------------------------------------------------------------------
(* updateOrderStatus and cancelOrder *)

\* Any status may follow any other: the admin's update-status and the payment
\* webhook both come here.
UpdateFind(u) ==
  /\ upc[u] = "idle"
  /\ FreeConnection
  /\ \E s \in Statuses : wanted' = [wanted EXCEPT ![u] = s]
  /\ upc' = [upc EXCEPT ![u] = "save"]
  /\ UNCHANGED <<status, jobVars, payout, payVars>>

CancelFind(u) ==
  /\ upc[u] = "idle"
  /\ FreeConnection
  /\ IF status[OrderOf[u]] = "pending"
     THEN /\ wanted' = [wanted EXCEPT ![u] = "cancelled"]
          /\ upc' = [upc EXCEPT ![u] = "save"]
     ELSE /\ upc' = [upc EXCEPT ![u] = "failed"]
          /\ UNCHANGED wanted
  /\ UNCHANGED <<status, jobVars, payout, payVars>>

SaveStatus(u) ==
  /\ upc[u] = "save"
  /\ FreeConnection
  /\ status' = [status EXCEPT ![OrderOf[u]] = wanted[u]]
  /\ upc' = [upc EXCEPT ![u] = IF wanted[u] = "delivered" THEN "add" ELSE "ok"]
  /\ wanted' = [wanted EXCEPT ![u] = "pending"]
  /\ UNCHANGED <<jobVars, payout, payVars>>

\* No job id: every DELIVERED update queues a job of its own.
AddJob(u) ==
  /\ upc[u] = "add"
  /\ job' = [job EXCEPT ![u] = "waiting"]
  /\ upc' = [upc EXCEPT ![u] = "ok"]
  /\ UNCHANGED <<status, wanted, worker, try, todo, rows, payout, payVars>>

\* PostgreSQL or Redis is not there: what is saved stays saved.
UpdateFails(u) ==
  /\ upc[u] \in {"save", "add"}
  /\ upc' = [upc EXCEPT ![u] = "failed"]
  /\ wanted' = [wanted EXCEPT ![u] = "pending"]
  /\ UNCHANGED <<status, jobVars, payout, payVars>>

----------------------------------------------------------------------------
(* The workers of sales-queue: SalesProcessor and SettlementProcessor      *)
(* compete for every job.                                                  *)

\* SalesProcessor knows no order-settlement: it logs a warning and returns.
TakeBySales(j) ==
  /\ job[j] = "waiting"
  /\ job' = [job EXCEPT ![j] = "completed"]
  /\ worker' = [worker EXCEPT ![j] = "sales"]
  /\ UNCHANGED <<orderVars, try, todo, rows, payout, payVars>>

TakeBySettlement(j) ==
  /\ job[j] = "waiting"
  /\ FreeConnection
  /\ job' = [job EXCEPT ![j] = "active"]
  /\ worker' = [worker EXCEPT ![j] = "settlement"]
  /\ todo' = [todo EXCEPT ![j] = VendorsOf[OrderOf[j]]]
  /\ UNCHANGED <<orderVars, try, rows, payout, payVars>>

\* Mutation: the loop returns after its first vendor.
SettleFirstVendor(j, v) ==
  /\ job[j] = "active"
  /\ v \in todo[j] \cap Payable
  /\ FreeConnection
  /\ rows' = rows \cup {<<j, try[j], v>>}
  /\ todo' = [todo EXCEPT ![j] = {}]
  /\ job' = [job EXCEPT ![j] = "completed"]
  /\ UNCHANGED <<orderVars, worker, try, payout, payVars>>

\* One pass of the loop: the commission, and a row saved on its own.
SettleVendor(j, v) ==
  /\ job[j] = "active"
  /\ v \in todo[j] \cap Payable
  /\ FreeConnection
  /\ rows' = rows \cup {<<j, try[j], v>>}
  /\ todo' = [todo EXCEPT ![j] = @ \ {v}]
  /\ job' = [job EXCEPT ![j] = IF todo[j] = {v} THEN "completed" ELSE @]
  /\ UNCHANGED <<orderVars, worker, try, payout, payVars>>

\* The save throws: netAmount is missing where no rule applies, 'SYSTEM' is
\* no vendor's id, the database may be down.  The queue adds jobs with one
\* attempt: the job has failed, the rows saved before it stay.
SettleFails(j) ==
  /\ job[j] = "active"
  /\ job' = [job EXCEPT ![j] = "failed"]
  /\ todo' = [todo EXCEPT ![j] = {}]
  /\ UNCHANGED <<orderVars, worker, try, rows, payout, payVars>>

\* The worker dies: BullMQ finds the job stalled and queues it once more.
Stall(j) ==
  /\ job[j] = "active"
  /\ IF try[j] < MaxStalled
     THEN /\ job' = [job EXCEPT ![j] = "waiting"]
          /\ try' = [try EXCEPT ![j] = @ + 1]
          /\ worker' = [worker EXCEPT ![j] = "none"]
     ELSE /\ job' = [job EXCEPT ![j] = "failed"]
          /\ UNCHANGED <<try, worker>>
  /\ todo' = [todo EXCEPT ![j] = {}]
  /\ UNCHANGED <<orderVars, rows, payout, payVars>>

----------------------------------------------------------------------------
(* The vendor's balance and createPayoutRequest *)

IsSettled(x) == \E c \in Calls : <<x, c>> \in settled
Unsettled(v) == {x \in rows : x[3] = v /\ ~IsSettled(x)}

\* settleOrder adds up Number(item.price) * quantity, and an OrderItem has a
\* unitPrice but no price; taking the commission off leaves it NaN.
NetAmount(x) == NaN

Plus(a, b) == IF NaN \in {a, b} THEN NaN ELSE a + b
Exceeds(a, b) == NaN \notin {a, b} /\ a > b
AvailableBalance(v) ==
  MapThenFoldSet(Plus, 0, NetAmount, LAMBDA S : CHOOSE x \in S : TRUE, Unsettled(v))

PayoutRequestCheck(p) ==
  /\ payout[p] = "none"
  /\ FreeConnection
  /\ ~Exceeds(Amount[p], AvailableBalance(VendorOf[p]))
  /\ payout' = [payout EXCEPT ![p] = "checked"]
  /\ UNCHANGED <<orderVars, jobVars, payVars>>

\* Nothing is reserved between the check and the save.
PayoutRequestSave(p) ==
  /\ payout[p] = "checked"
  /\ FreeConnection
  /\ payout' = [payout EXCEPT ![p] = "PENDING"]
  /\ UNCHANGED <<orderVars, jobVars, payVars>>

----------------------------------------------------------------------------
(* processPayout *)

Goto(c, label) == pc' = [pc EXCEPT ![c] = label]

PayoutFind(c) ==
  /\ pc[c] = "idle"
  /\ FreeConnection
  /\ payout[PayoutOf[c]] \notin {"none", "checked"}
  /\ Goto(c, IF payout[PayoutOf[c]] = "PENDING" THEN "begin" ELSE "failed")
  /\ UNCHANGED <<orderVars, jobVars, payout, claim, payLock, settled, paid>>

PayoutBegin(c) ==
  /\ pc[c] = "begin"
  /\ FreeConnection
  /\ Goto(c, "bridge")
  /\ UNCHANGED <<orderVars, jobVars, payout, claim, payLock, settled, paid>>

\* connect and startTransaction stand before the try.
PayoutBeginFails(c) ==
  /\ pc[c] = "begin"
  /\ Goto(c, "failed")
  /\ UNCHANGED <<orderVars, jobVars, payout, claim, payLock, settled, paid>>

\* Mutation: the bridge reports an error by its return value.
BridgeAnswers(c) ==
  /\ pc[c] = "bridge"
  /\ paid' \in {paid, paid \cup {c}}
  /\ Goto(c, "select")
  /\ UNCHANGED <<orderVars, jobVars, payout, claim, payLock, settled>>

\* The money goes out, or not; an answer that is lost throws like a refusal.
Bridge(c) ==
  /\ pc[c] = "bridge"
  /\ \/ paid' = paid \cup {c} /\ Goto(c, "select")
     \/ paid' \in {paid, paid \cup {c}} /\ Goto(c, "rollback")
  /\ UNCHANGED <<orderVars, jobVars, payout, claim, payLock, settled>>

\* UPDATE vendor_revenues ... WHERE isSettled = false: the rows it finds,
SettleSelect(c) ==
  /\ pc[c] = "select"
  /\ claim' = [claim EXCEPT ![c] = Unsettled(VendorOf[PayoutOf[c]])]
  /\ Goto(c, "settle")
  /\ UNCHANGED <<orderVars, jobVars, payout, payLock, settled, paid>>

\* and, once no other transaction has an uncommitted update of them, those
\* that still satisfy the condition.
Updated(c) == IF pc[c] \in {"save", "commit", "rollback"} THEN claim[c] ELSE {}
\* Mutation: the rows are read first and then updated by their ids.
SettleByIds(c) ==
  /\ pc[c] = "settle"
  /\ \A d \in Calls : claim[c] \cap Updated(d) = {}
  /\ Goto(c, "save")
  /\ UNCHANGED <<orderVars, jobVars, payout, claim, payLock, settled, paid>>

SettleUpdate(c) ==
  /\ pc[c] = "settle"
  /\ \A d \in Calls : claim[c] \cap Updated(d) = {}
  /\ claim' = [claim EXCEPT ![c] = {x \in @ : ~IsSettled(x)}]
  /\ Goto(c, "save")
  /\ UNCHANGED <<orderVars, jobVars, payout, payLock, settled, paid>>

\* save(request): an UPDATE, unless the row already has the status and, it may
\* be, the gateway's reference.
SavePayout(c) ==
  /\ pc[c] = "save"
  /\ \/ payout[PayoutOf[c]] = "PROCESSED" /\ UNCHANGED payLock
     \/ /\ payLock[PayoutOf[c]] = NONE
        /\ payLock' = [payLock EXCEPT ![PayoutOf[c]] = c]
  /\ Goto(c, "commit")
  /\ UNCHANGED <<orderVars, jobVars, payout, claim, settled, paid>>

EndTxn(c) ==
  /\ claim' = [claim EXCEPT ![c] = {}]
  /\ payLock' = [p \in Payouts |-> IF payLock[p] = c THEN NONE ELSE payLock[p]]

\* When the reply is lost the rollback throws too, and nothing is marked.
PayoutCommit(c) ==
  /\ pc[c] = "commit"
  /\ settled' = settled \cup (claim[c] \X {c})
  /\ payout' = [p \in Payouts |-> IF payLock[p] = c THEN "PROCESSED" ELSE payout[p]]
  /\ EndTxn(c)
  /\ \E label \in Final : Goto(c, label)
  /\ UNCHANGED <<orderVars, jobVars, paid>>

PayoutStepFails(c) ==
  /\ pc[c] \in {"select", "settle", "save", "commit"}
  /\ claim' = [claim EXCEPT ![c] = Updated(c)]
  /\ Goto(c, "rollback")
  /\ UNCHANGED <<orderVars, jobVars, payout, payLock, settled, paid>>

\* Mutation: the catch block forgets to roll back.
NoRollback(c) ==
  /\ pc[c] = "rollback"
  /\ Goto(c, "failed")
  /\ UNCHANGED <<orderVars, jobVars, payout, claim, payLock, settled, paid>>

\* On a broken connection rollbackTransaction throws, and the catch block
\* ends there.
PayoutRollback(c) ==
  /\ pc[c] = "rollback"
  /\ EndTxn(c)
  /\ \E label \in {"mark", "failed"} : Goto(c, label)
  /\ UNCHANGED <<orderVars, jobVars, payout, settled, paid>>

\* payoutRepo.save(request) with FAILED asks the pool for a connection, while
\* the query runner's is released after it; its SELECT may throw, or find a
\* row that says the same already.
MarkSelect(c) ==
  /\ pc[c] = "mark"
  /\ FreeConnection
  /\ \E label \in {"marking", "failed"} : Goto(c, label)
  /\ UNCHANGED <<orderVars, jobVars, payout, claim, payLock, settled, paid>>

\* The UPDATE, whatever the row says by now, unless it throws.
MarkFailed(c) ==
  /\ pc[c] = "marking"
  /\ payLock[PayoutOf[c]] = NONE
  /\ \/ payout' = [payout EXCEPT ![PayoutOf[c]] = "FAILED"]
     \/ UNCHANGED payout
  /\ Goto(c, "failed")
  /\ UNCHANGED <<orderVars, jobVars, claim, payLock, settled, paid>>

\* The process dies.
PayoutCrash(c) ==
  /\ pc[c] \notin {"idle"} \cup Final
  /\ EndTxn(c)
  /\ Goto(c, "failed")
  /\ UNCHANGED <<orderVars, jobVars, payout, settled, paid>>

----------------------------------------------------------------------------
UpdateStep(u) == UpdateFind(u) \/ CancelFind(u) \/ SaveStatus(u) \/ AddJob(u)
JobStep(j) == TakeBySales(j) \/ TakeBySettlement(j) \/ \E v \in Vendors : SettleVendor(j, v)
CallStep(c) ==
  \/ PayoutFind(c) \/ PayoutBegin(c) \/ Bridge(c) \/ SettleSelect(c) \/ SettleUpdate(c)
  \/ SavePayout(c) \/ PayoutCommit(c) \/ PayoutRollback(c) \/ MarkSelect(c) \/ MarkFailed(c)

Next ==
  \/ \E u \in Updates : UpdateStep(u) \/ UpdateFails(u)
  \/ \E j \in Updates : JobStep(j) \/ SettleFails(j) \/ Stall(j)
  \/ \E p \in Payouts : PayoutRequestCheck(p) \/ PayoutRequestSave(p)
  \/ \E c \in Calls : CallStep(c) \/ PayoutBeginFails(c) \/ PayoutStepFails(c) \/ PayoutCrash(c)

Spec == Init /\ [][Next]_vars

\* The event loop and PostgreSQL run every call that has started, once it has
\* its connection; nothing has to fail or crash.
Fairness == \A c \in Calls : WF_vars(pc[c] # "idle" /\ CallStep(c))
FairSpec == Spec /\ Fairness

----------------------------------------------------------------------------
(* Properties *)

\* A job the settlement worker has completed wrote a row for every vendor of
\* the order, also when an earlier run of it died half way.
SettlementComplete ==
  \A j \in Updates :
    job[j] = "completed" /\ worker[j] = "settlement" =>
      \A v \in VendorsOf[OrderOf[j]] : <<j, try[j], v>> \in rows

\* Revenue is marked as settled only by a payout of its vendor that the
\* gateway has paid: a failed, rolled back or crashed payout leaves it alone.
SettledRevenueWasPaid ==
  \A s \in settled : s[2] \in paid /\ VendorOf[PayoutOf[s[2]]] = s[1][3]

\* No revenue goes into two payouts, although two calls may read the same
\* rows as unsettled before either updates them.
RevenueSettledOnce ==
  \A s, t \in settled : s[1] = t[1] => s = t

\* PROCESSED is never written for money that did not go out.
ProcessedWasPaid ==
  \A p \in Payouts :
    payout[p] = "PROCESSED" => \E c \in paid : PayoutOf[c] = p

\* Every connection of the pool is held by a failed payout that asks for a
\* second one to save FAILED: nobody gives one back any more.
PoolExhausted == Cardinality({c \in Calls : pc[c] = "mark"}) >= PoolSize

\* Every call of processPayout ends, although calls wait for connections, for
\* the rows and for the payout request that others have updated, except in
\* that one deadlock.
PayoutsEnd ==
  \A c \in Calls : (pc[c] # "idle") ~> (pc[c] \in Final \/ PoolExhausted)

\* "dedicated workers (... revenue settlement)": a completed settlement job
\* has been settled.
CompletedJobsSettle ==
  \A j \in Updates :
    job[j] = "completed" =>
      \A v \in VendorsOf[OrderOf[j]] : <<j, try[j], v>> \in rows

\* "Insufficient balance for payout": a request is accepted only when the
\* vendor's unsettled sales cover it.
RequestsCovered ==
  [][\A p \in Payouts :
       payout[p] = "none" /\ payout'[p] = "checked" =>
         Amount[p] <= MapThenSumSet(LAMBDA x : Worth[OrderOf[x[1]]][x[3]],
                                    Unsettled(VendorOf[p]))]_vars
=============================================================================
