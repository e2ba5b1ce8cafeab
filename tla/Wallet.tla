------------------------------- MODULE Wallet -------------------------------
(***************************************************************************)
(* WalletService: getBalance, redeemGiftCard and creditUser, run by        *)
(* concurrent requests of the API and worker processes.                    *)
(*                                                                         *)
(* Every await is a step.  A transaction's writes stay with its request    *)
(* until Commit; the row locks it holds keep other writers out until then. *)
(* A balance is the SET of the requests whose money it includes, so that a *)
(* lost or repeated update shows as a missing or repeated element.         *)
(*                                                                         *)
(* store_credits has no unique index on the user: a user may get several   *)
(* wallet rows.  A row is named after the request that inserted it.        *)
(***************************************************************************)
EXTENDS FiniteSets

CONSTANTS
  Requests,  \* calls of WalletService
  Users,
  Cards,     \* gift cards
  NONE,      \* no holder, no row
  Op,        \* the method a request calls: "balance", "redeem" or "credit"
  UserOf,    \* the user it is called for
  CardOf     \* the card a redeem request names

ASSUME WalletAssumption ==
  /\ NONE \notin Requests
  /\ Op \in [Requests -> {"balance", "redeem", "credit"}]
  /\ UserOf \in [Requests -> Users]
  /\ CardOf \in [Requests -> Cards]

VARIABLES
  pc,        \* where each request is
  card,      \* gift_cards.status, committed
  rows,      \* the store_credits rows that exist
  bal,       \* store_credits.balance of each row, committed
  rowLock,   \* the transaction that holds FOR UPDATE on a row
  cardLock,  \* the transaction that has an uncommitted UPDATE of a card
  redlock,   \* the holder of lock:wallet:<user> in Redis
  target,    \* the row the request writes; its own name: a row it will insert
  seen,      \* the balance the request has in memory
  ledger     \* FinanceTransaction documents in MongoDB

vars == <<pc, card, rows, bal, rowLock, cardLock, redlock, target, seen, ledger>>

----------------------------------------------------------------------------
InTxn == {"card", "update", "find", "save", "log", "commit", "rollback"}
Unlocking == {"unlock_ok", "unlock_err"}
Final == {"ok", "failed"}
Labels == {"idle", "insert", "begin", "acquire"} \cup InTxn \cup Unlocking \cup Final

CardStatus == {"ACTIVE", "EXPIRED", "REDEEMED"}

TypeOK ==
  /\ pc \in [Requests -> Labels]
  /\ card \in [Cards -> CardStatus]
  /\ rows \in SUBSET Requests
  /\ bal \in [Requests -> SUBSET Requests]
  /\ rowLock \in [Requests -> Requests \cup {NONE}]
  /\ cardLock \in [Cards -> Requests \cup {NONE}]
  /\ redlock \in [Users -> Requests \cup {NONE}]
  /\ target \in [Requests -> Requests \cup {NONE}]
  /\ seen \in [Requests -> SUBSET Requests]
  /\ ledger \in SUBSET Requests

Init ==
  /\ pc = [r \in Requests |-> "idle"]
  /\ card \in [Cards -> {"ACTIVE", "EXPIRED"}]
  /\ rows = {}
  /\ bal = [r \in Requests |-> {}]
  /\ rowLock = [r \in Requests |-> NONE]
  /\ cardLock = [c \in Cards |-> NONE]
  /\ redlock = [u \in Users |-> NONE]
  /\ target = [r \in Requests |-> NONE]
  /\ seen = [r \in Requests |-> {}]
  /\ ledger = {}

Goto(r, label) == pc' = [pc EXCEPT ![r] = label]

\* Mutation: the where clause of the wallet query loses its user.
RowsOfAnyone(u) == rows
RowsOf(u) == {x \in rows : UserOf[x] = u}

\* creditUser gives its Redis lock back once its transaction is over (the
\* finally block); redeemGiftCard never took one.
After(r, outcome) ==
  IF Op[r] = "redeem" THEN outcome
  ELSE IF outcome = "ok" THEN "unlock_ok" ELSE "unlock_err"

\* The end of r's transaction gives its row locks back; its locals are gone.
LocksWithout(lock, r) ==
  [x \in DOMAIN lock |-> IF lock[x] = r THEN NONE ELSE lock[x]]
EndTxn(r) ==
  /\ rowLock' = LocksWithout(rowLock, r)
  /\ cardLock' = LocksWithout(cardLock, r)
  /\ target' = [target EXCEPT ![r] = NONE]
  /\ seen' = [seen EXCEPT ![r] = {}]

----------------------------------------------------------------------------
(* getBalance: a read, and an insert when there is no row *)

BalanceFind(r) ==
  /\ pc[r] = "idle"
  /\ Op[r] = "balance"
  /\ Goto(r, IF RowsOf(UserOf[r]) = {} THEN "insert" ELSE "ok")
  /\ UNCHANGED <<card, rows, bal, rowLock, cardLock, redlock, target, seen, ledger>>

BalanceInsert(r) ==
  /\ pc[r] = "insert"
  /\ rows' = rows \cup {r}
  /\ Goto(r, "ok")
  /\ UNCHANGED <<card, bal, rowLock, cardLock, redlock, target, seen, ledger>>

----------------------------------------------------------------------------
(* redeemGiftCard, up to the wallet *)

\* The card is looked up before the transaction, without a lock.
RedeemFind(r) ==
  /\ pc[r] = "idle"
  /\ Op[r] = "redeem"
  /\ Goto(r, IF card[CardOf[r]] = "ACTIVE" THEN "begin" ELSE "failed")
  /\ UNCHANGED <<card, rows, bal, rowLock, cardLock, redlock, target, seen, ledger>>

\* save(giftCard) reads the row again and writes the columns that differ:
\* nothing, when another redemption has committed meanwhile.
CardSelect(r) ==
  /\ pc[r] = "card"
  /\ Goto(r, IF card[CardOf[r]] = "REDEEMED" THEN "find" ELSE "update")
  /\ UNCHANGED <<card, rows, bal, rowLock, cardLock, redlock, target, seen, ledger>>

\* Mutation: giftCardRepo.save, which commits at once, for manager.save.
CardUpdateOutsideTxn(r) ==
  /\ pc[r] = "update"
  /\ cardLock[CardOf[r]] = NONE
  /\ card' = [card EXCEPT ![CardOf[r]] = "REDEEMED"]
  /\ Goto(r, "find")
  /\ UNCHANGED <<rows, bal, rowLock, cardLock, redlock, target, seen, ledger>>

\* The UPDATE waits for a concurrent one of the same card, then goes ahead.
CardUpdate(r) ==
  /\ pc[r] = "update"
  /\ cardLock[CardOf[r]] = NONE
  /\ cardLock' = [cardLock EXCEPT ![CardOf[r]] = r]
  /\ Goto(r, "find")
  /\ UNCHANGED <<card, rows, bal, rowLock, redlock, target, seen, ledger>>

----------------------------------------------------------------------------
(* creditUser, up to the wallet *)

CreditStart(r) ==
  /\ pc[r] = "idle"
  /\ Op[r] = "credit"
  /\ Goto(r, "acquire")
  /\ UNCHANGED <<card, rows, bal, rowLock, cardLock, redlock, target, seen, ledger>>

CreditAcquire(r) ==
  /\ pc[r] = "acquire"
  /\ redlock[UserOf[r]] = NONE
  /\ redlock' = [redlock EXCEPT ![UserOf[r]] = r]
  /\ Goto(r, "begin")
  /\ UNCHANGED <<card, rows, bal, rowLock, cardLock, target, seen, ledger>>

\* LockService gives up after ten retries.
CreditAcquireFails(r) ==
  /\ pc[r] = "acquire"
  /\ redlock[UserOf[r]] # NONE
  /\ Goto(r, "failed")
  /\ UNCHANGED <<card, rows, bal, rowLock, cardLock, redlock, target, seen, ledger>>

----------------------------------------------------------------------------
(* The transaction both share *)

Begin(r) ==
  /\ pc[r] = "begin"
  /\ Goto(r, IF Op[r] = "redeem" THEN "card" ELSE "find")
  /\ UNCHANGED <<card, rows, bal, rowLock, cardLock, redlock, target, seen, ledger>>

\* connect and startTransaction stand before the try: no finally runs, and
\* creditUser's Redis lock stays until its time to live is over.
BeginFails(r) ==
  /\ pc[r] = "begin"
  /\ Goto(r, "failed")
  /\ UNCHANGED <<card, rows, bal, rowLock, cardLock, redlock, target, seen, ledger>>

\* Mutation: the wallet is read without the pessimistic_write lock.
ReadRow(r, x) ==
  /\ x \in RowsOf(UserOf[r])
  /\ target' = [target EXCEPT ![r] = x]
  /\ seen' = [seen EXCEPT ![r] = bal[x]]
  /\ UNCHANGED rowLock

\* SELECT ... FOR UPDATE LIMIT 1: some row of the user, once nobody holds it.
LockRow(r, x) ==
  /\ x \in RowsOf(UserOf[r])
  /\ rowLock[x] = NONE
  /\ rowLock' = [rowLock EXCEPT ![x] = r]
  /\ target' = [target EXCEPT ![r] = x]
  /\ seen' = [seen EXCEPT ![r] = bal[x]]

\* No committed row: the request will insert one.  FOR UPDATE locks nothing.
NewRow(r) ==
  /\ RowsOf(UserOf[r]) = {}
  /\ target' = [target EXCEPT ![r] = r]
  /\ seen' = [seen EXCEPT ![r] = {}]
  /\ UNCHANGED rowLock

FindForUpdate(r) ==
  /\ pc[r] = "find"
  /\ NewRow(r) \/ \E x \in Requests : LockRow(r, x)
  /\ Goto(r, "save")
  /\ UNCHANGED <<card, rows, bal, cardLock, redlock, ledger>>

\* Mutation: the balance is set to the amount, not raised by it.
SetWallet(r) ==
  /\ pc[r] = "save"
  /\ seen' = [seen EXCEPT ![r] = {r}]
  /\ Goto(r, "log")
  /\ UNCHANGED <<card, rows, bal, rowLock, cardLock, redlock, target, ledger>>

\* wallet.balance += amount, written inside the transaction
SaveWallet(r) ==
  /\ pc[r] = "save"
  /\ seen' = [seen EXCEPT ![r] = @ \cup {r}]
  /\ Goto(r, "log")
  /\ UNCHANGED <<card, rows, bal, rowLock, cardLock, redlock, target, ledger>>

\* The ledger is another database: the entry is there at once.
SaveLedger(r) ==
  /\ pc[r] = "log"
  /\ ledger' = ledger \cup {r}
  /\ Goto(r, "commit")
  /\ UNCHANGED <<card, rows, bal, rowLock, cardLock, redlock, target, seen>>

\* Mutation: an error of the ledger is swallowed.
StepFailsButLedger(r) ==
  /\ pc[r] \in InTxn \ {"rollback"}
  /\ Goto(r, IF pc[r] = "log" THEN "commit" ELSE "rollback")
  /\ UNCHANGED <<card, rows, bal, rowLock, cardLock, redlock, target, seen, ledger>>

\* Any call inside the try may throw; a ledger write that throws may still
\* have been done.
StepFails(r) ==
  /\ pc[r] \in InTxn \ {"rollback"}
  /\ Goto(r, "rollback")
  /\ \/ UNCHANGED ledger
     \/ pc[r] = "log" /\ ledger' = ledger \cup {r}
  /\ UNCHANGED <<card, rows, bal, rowLock, cardLock, redlock, target, seen>>

\* The writes become visible.  The reply may be lost: then the caller sees
\* an error although the money has moved.
Commit(r) ==
  /\ pc[r] = "commit"
  /\ card' = [c \in Cards |-> IF cardLock[c] = r THEN "REDEEMED" ELSE card[c]]
  /\ rows' = rows \cup {target[r]}
  /\ bal' = [bal EXCEPT ![target[r]] = seen[r]]
  /\ EndTxn(r)
  /\ \E outcome \in {"ok", "failed"} : Goto(r, After(r, outcome))
  /\ UNCHANGED <<redlock, ledger>>

Rollback(r) ==
  /\ pc[r] = "rollback"
  /\ EndTxn(r)
  /\ Goto(r, After(r, "failed"))
  /\ UNCHANGED <<card, rows, bal, redlock, ledger>>

\* lock.release() throws when the lock is no longer ours, and that error
\* replaces what the method was about to return.
ReleaseLock(r) ==
  /\ pc[r] \in Unlocking
  /\ redlock' = LocksWithout(redlock, r)
  /\ Goto(r, IF pc[r] = "unlock_ok" /\ redlock[UserOf[r]] = r
             THEN "ok" ELSE "failed")
  /\ UNCHANGED <<card, rows, bal, rowLock, cardLock, target, seen, ledger>>

----------------------------------------------------------------------------
(* The environment *)

\* The process dies: PostgreSQL drops the transaction, Redis keeps the lock,
\* and the caller gets no answer.
Crash(r) ==
  /\ pc[r] \notin Final \cup {"idle"}
  /\ EndTxn(r)
  /\ Goto(r, "failed")
  /\ UNCHANGED <<card, rows, bal, redlock, ledger>>

\* The 10 s time to live is over, whatever the holder is doing.
LockExpires(u) ==
  /\ redlock[u] # NONE
  /\ redlock' = [redlock EXCEPT ![u] = NONE]
  /\ UNCHANGED <<pc, card, rows, bal, rowLock, cardLock, target, seen, ledger>>

----------------------------------------------------------------------------
RedeemStep(r) == RedeemFind(r) \/ CardSelect(r) \/ CardUpdate(r)
BalanceStep(r) == BalanceFind(r) \/ BalanceInsert(r)
CreditStep(r) == CreditAcquire(r) \/ CreditAcquireFails(r) \/ ReleaseLock(r)
TxnStep(r) ==
  \/ Begin(r) \/ FindForUpdate(r) \/ SaveWallet(r) \/ SaveLedger(r)
  \/ Commit(r) \/ Rollback(r)
Failure(r) == BeginFails(r) \/ StepFails(r) \/ Crash(r)

\* What a running request does on its own (CreditStart is its caller's step).
Step(r) == RedeemStep(r) \/ BalanceStep(r) \/ CreditStep(r) \/ TxnStep(r)

Next ==
  \/ \E r \in Requests : Step(r) \/ CreditStart(r) \/ Failure(r)
  \/ \E u \in Users : LockExpires(u)

Spec == Init /\ [][Next]_vars

----------------------------------------------------------------------------
(* Properties *)

Applied == UNION {bal[x] : x \in rows}

\* A credit the caller was told of is in a wallet of that user: the FOR
\* UPDATE read-modify-write loses no concurrent credit, even when the Redis
\* lock has expired and when several rows of the user exist.
AcknowledgedCreditsKept ==
  \A r \in Requests :
    pc[r] = "ok" /\ Op[r] # "balance" => \E x \in RowsOf(UserOf[r]) : r \in bal[x]

\* No credit counts twice: not in two rows, not in the row of another user.
CreditsInOneRow ==
  /\ \A x, y \in rows : x # y => bal[x] \cap bal[y] = {}
  /\ \A x \in rows : \A r \in bal[x] : UserOf[r] = UserOf[x]

\* "auditing for all internal value movements": money in a wallet always has
\* its ledger entry, although the ledger is outside the transaction.
CreditsAreLedgered == Applied \subseteq ledger

\* A card is used up exactly when some redemption of it has been credited:
\* rollbacks, crashes and lost replies never separate the two.
RedemptionAtomic ==
  \A c \in Cards :
    card[c] = "REDEEMED" <=>
      \E r \in Applied : Op[r] = "redeem" /\ CardOf[r] = c

\* "transactional redemption logic": the value of a card is credited once.
CardCreditedOnce ==
  \A r, s \in Applied :
    Op[r] = "redeem" /\ Op[s] = "redeem" /\ CardOf[r] = CardOf[s] => r = s

\* The wallet implements the book of credits.
Book == INSTANCE CreditBook WITH
  Credits <- Requests,
  credited <- Applied,
  redeemed <- {c \in Cards : card[c] = "REDEEMED"}
ImplementsCreditBook == Book!BookSpec
=============================================================================
