---------------------------- MODULE WalletProofs ----------------------------
(***************************************************************************)
(* What the wallet guarantees for every set of requests, users and cards;  *)
(* and what refunds guarantee, which credit it, for every set of requests, *)
(* orders and users and every size of the pool.                            *)
(***************************************************************************)
EXTENDS Refund, TLAPS

(***************************************************************************)
(* The inductive invariant, part by part.                                  *)
(***************************************************************************)

\* A request is only where the method it calls can be.
OpsMatch ==
  \A r \in Requests :
    /\ pc[r] = "insert" => Op[r] = "balance"
    /\ pc[r] \in {"card", "update"} => Op[r] = "redeem"
    /\ pc[r] \in {"acquire"} \cup Unlocking => Op[r] = "credit"
    /\ pc[r] \in {"begin"} \cup InTxn => Op[r] # "balance"

\* A request that has a credit in a wallet, or a row, has done its work.
AppliedAreDone ==
  \A r \in Requests :
    (r \in rows \/ \E x \in Requests : r \in bal[x]) => pc[r] \in Unlocking \cup Final

\* Between FOR UPDATE and the end of its transaction a request works on a
\* row it has locked, or on one it will insert.
TargetsHeld ==
  \A r \in Requests :
    pc[r] \in {"save", "log", "commit"} =>
      /\ target[r] \in Requests
      /\ UserOf[target[r]] = UserOf[r]
      /\ target[r] = r \/ (target[r] \in rows /\ rowLock[target[r]] = r)

\* The balance in its memory is the committed one, and its own credit.
SeenIsCurrent ==
  \A r \in Requests :
    /\ pc[r] = "save" => seen[r] = bal[target[r]]
    /\ pc[r] \in {"log", "commit"} => seen[r] = bal[target[r]] \cup {r}

\* Rows that do not exist hold nothing; the others only their user's credits.
BalancesOwned ==
  /\ \A x \in Requests \ rows : bal[x] = {}
  /\ \A x \in Requests : \A r \in bal[x] : UserOf[r] = UserOf[x] /\ Op[r] # "balance"
  /\ \A x, y \in Requests : x # y => bal[x] \cap bal[y] = {}

LedgerFirst ==
  /\ \A x \in Requests : bal[x] \subseteq ledger
  /\ \A r \in Requests : pc[r] = "commit" => r \in ledger

DoneAreApplied ==
  \A r \in Requests :
    pc[r] \in {"ok", "unlock_ok"} /\ Op[r] # "balance" =>
      \E x \in rows : UserOf[x] = UserOf[r] /\ r \in bal[x]

\* A redemption past its card has written it, or found it written.
CardsHeld ==
  /\ \A c \in Cards : \A r \in Requests :
       cardLock[c] = r =>
         Op[r] = "redeem" /\ CardOf[r] = c
         /\ pc[r] \in {"find", "save", "log", "commit", "rollback"}
  /\ \A r \in Requests :
       Op[r] = "redeem" /\ pc[r] \in {"find", "save", "log", "commit"} =>
         card[CardOf[r]] = "REDEEMED" \/ cardLock[CardOf[r]] = r

RedeemedHaveCredit ==
  \A c \in Cards :
    card[c] = "REDEEMED" <=>
      \E x, r \in Requests : r \in bal[x] /\ Op[r] = "redeem" /\ CardOf[r] = c

IInv ==
  /\ TypeOK
  /\ OpsMatch
  /\ AppliedAreDone
  /\ TargetsHeld
  /\ SeenIsCurrent
  /\ BalancesOwned
  /\ LedgerFirst
  /\ DoneAreApplied
  /\ CardsHeld
  /\ RedeemedHaveCredit

----------------------------------------------------------------------------
\* Every step of a request keeps the variables within their types.
LEMMA StepType ==
  ASSUME TypeOK, TargetsHeld, NEW r \in Requests,
         Step(r) \/ CreditStart(r) \/ Failure(r)
  PROVE  TypeOK'
  <1> USE WalletAssumption DEF TypeOK, TargetsHeld, Goto, Labels, InTxn, Unlocking, Final
  <1>1. CASE BalanceFind(r)
    BY <1>1 DEF BalanceFind
  <1>2. CASE BalanceInsert(r)
    BY <1>2 DEF BalanceInsert
  <1>3. CASE RedeemFind(r)
    BY <1>3 DEF RedeemFind
  <1>4. CASE CardSelect(r)
    BY <1>4 DEF CardSelect
  <1>5. CASE CardUpdate(r)
    BY <1>5 DEF CardUpdate
  <1>6. CASE CreditStart(r)
    BY <1>6 DEF CreditStart
  <1>7. CASE CreditAcquire(r)
    BY <1>7 DEF CreditAcquire
  <1>8. CASE CreditAcquireFails(r)
    BY <1>8 DEF CreditAcquireFails
  <1>9. CASE Begin(r)
    BY <1>9 DEF Begin
  <1>10. CASE BeginFails(r)
    BY <1>10 DEF BeginFails
  <1>11. CASE FindForUpdate(r)
    BY <1>11 DEF FindForUpdate, LockRow, NewRow, RowsOf
  <1>12. CASE SaveWallet(r)
    BY <1>12 DEF SaveWallet
  <1>13. CASE SaveLedger(r)
    BY <1>13 DEF SaveLedger
  <1>14. CASE StepFails(r)
    BY <1>14 DEF StepFails
  <1>15. CASE Commit(r)
    BY <1>15 DEF Commit, CardStatus, EndTxn, LocksWithout, After
  <1>16. CASE Rollback(r)
    BY <1>16 DEF Rollback, EndTxn, LocksWithout, After
  <1>17. CASE ReleaseLock(r)
    BY <1>17 DEF ReleaseLock, LocksWithout
  <1>18. CASE Crash(r)
    BY <1>18 DEF Crash, EndTxn, LocksWithout
  <1>19. QED
    BY <1>1, <1>2, <1>3, <1>4, <1>5, <1>6, <1>7, <1>8, <1>9, <1>10, <1>11, <1>12, <1>13, <1>14, <1>15, <1>16, <1>17, <1>18
    DEF Step, Failure, RedeemStep, BalanceStep, CreditStep, TxnStep

\* The steps that neither take a row lock nor commit leave the wallets as
\* they are; they keep the rest of the invariant by their labels alone.
LEMMA QuietStepInv ==
  ASSUME IInv, TypeOK', NEW r \in Requests,
         \/ BalanceStep(r) \/ RedeemStep(r) \/ CreditStep(r) \/ CreditStart(r)
         \/ Begin(r) \/ SaveWallet(r) \/ SaveLedger(r) \/ Rollback(r)
         \/ Failure(r)
  PROVE  IInv'
  <1> USE WalletAssumption
      DEF IInv, TypeOK, OpsMatch, AppliedAreDone, TargetsHeld, SeenIsCurrent,
          BalancesOwned, LedgerFirst, DoneAreApplied, CardsHeld,
          RedeemedHaveCredit, Goto, Labels, InTxn, Unlocking, Final
  <1>1. CASE BalanceFind(r)
    BY <1>1 DEF BalanceFind
  <1>2. CASE BalanceInsert(r)
    BY <1>2 DEF BalanceInsert
  <1>3. CASE RedeemFind(r)
    BY <1>3 DEF RedeemFind
  <1>4. CASE CardSelect(r)
    BY <1>4 DEF CardSelect
  <1>5. CASE CardUpdate(r)
    BY <1>5 DEF CardUpdate
  <1>6. CASE CreditStart(r)
    BY <1>6 DEF CreditStart
  <1>7. CASE CreditAcquire(r)
    BY <1>7 DEF CreditAcquire
  <1>8. CASE CreditAcquireFails(r)
    BY <1>8 DEF CreditAcquireFails
  <1>9. CASE Begin(r)
    BY <1>9 DEF Begin
  <1>10. CASE BeginFails(r)
    BY <1>10 DEF BeginFails
  <1>11. CASE SaveWallet(r)
    BY <1>11 DEF SaveWallet
  <1>12. CASE SaveLedger(r)
    BY <1>12 DEF SaveLedger
  <1>13. CASE StepFails(r)
    BY <1>13 DEF StepFails
  <1>14. CASE Rollback(r)
    BY <1>14 DEF Rollback, EndTxn, LocksWithout, After
  <1>15. CASE ReleaseLock(r)
    BY <1>15 DEF ReleaseLock, LocksWithout
  <1>16. CASE Crash(r)
    BY <1>16 DEF Crash, EndTxn, LocksWithout
  <1>17. QED
    BY <1>1, <1>2, <1>3, <1>4, <1>5, <1>6, <1>7, <1>8,
       <1>9, <1>10, <1>11, <1>12, <1>13, <1>14, <1>15, <1>16
    DEF BalanceStep, RedeemStep, CreditStep, Failure

\* FOR UPDATE gives the request a row nobody else works on, and its balance.
LEMMA FindForUpdateInv ==
  ASSUME IInv, TypeOK', NEW r \in Requests, FindForUpdate(r)
  PROVE  IInv'
  <1> USE WalletAssumption
      DEF IInv, TypeOK, OpsMatch, AppliedAreDone, TargetsHeld, SeenIsCurrent,
          BalancesOwned, LedgerFirst, DoneAreApplied, CardsHeld,
          RedeemedHaveCredit, FindForUpdate, RowsOf, Goto, InTxn, Unlocking, Final
  <1>1. CASE NewRow(r)
    BY <1>1 DEF NewRow
  <1>2. ASSUME NEW x \in Requests, LockRow(r, x)
        PROVE  IInv'
    BY <1>2 DEF LockRow
  <1>3. QED
    BY <1>1, <1>2

\* The heart of the wallet: a commit adds the request's own credit to a row
\* that cannot have changed since it was read, and changes no other row.
LEMMA CommitAddsCredit ==
  ASSUME IInv, NEW r \in Requests, Commit(r)
  PROVE  /\ target[r] \in Requests
         /\ UserOf[target[r]] = UserOf[r]
         /\ target[r] \in rows => rowLock[target[r]] = r
         /\ bal' = [bal EXCEPT ![target[r]] = bal[target[r]] \cup {r}]
         /\ Op[r] # "balance"
         /\ \A x \in Requests : r \notin bal[x]
  BY WalletAssumption, ZenonT(40)
  DEF Commit, IInv, TypeOK, TargetsHeld, SeenIsCurrent, AppliedAreDone, OpsMatch,
      InTxn, Unlocking, Final

LEMMA CommitInv ==
  ASSUME IInv, TypeOK', NEW r \in Requests, Commit(r)
  PROVE  IInv'
  <1>1. /\ target[r] \in Requests
        /\ UserOf[target[r]] = UserOf[r]
        /\ target[r] \in rows => rowLock[target[r]] = r
        /\ bal' = [bal EXCEPT ![target[r]] = bal[target[r]] \cup {r}]
        /\ Op[r] # "balance"
        /\ \A x \in Requests : r \notin bal[x]
    BY CommitAddsCredit
  <1>2. PICK label \in Unlocking \cup Final :
          /\ pc' = [pc EXCEPT ![r] = label]
          /\ label \in Unlocking => Op[r] = "credit"
    BY <1>1, WalletAssumption DEF Commit, After, Goto, Unlocking, Final
  <1>3. /\ pc[r] = "commit"
        /\ rows' = rows \cup {target[r]}
        /\ card' = [c \in Cards |-> IF cardLock[c] = r THEN "REDEEMED" ELSE card[c]]
        /\ ledger' = ledger
        /\ rowLock' = [x \in Requests |-> IF rowLock[x] = r THEN NONE ELSE rowLock[x]]
        /\ cardLock' = [c \in Cards |-> IF cardLock[c] = r THEN NONE ELSE cardLock[c]]
        /\ target' = [target EXCEPT ![r] = NONE]
        /\ seen' = [seen EXCEPT ![r] = {}]
    BY DEF Commit, EndTxn, LocksWithout, IInv, TypeOK
  <1> USE <1>1, <1>2, <1>3, WalletAssumption
      DEF IInv, TypeOK, InTxn, Unlocking, Final
  <1>4. OpsMatch'
    BY DEF OpsMatch
  <1>5. AppliedAreDone'
    BY DEF AppliedAreDone, TargetsHeld, OpsMatch
  <1>6. TargetsHeld'
    BY DEF TargetsHeld, AppliedAreDone
  <1>7. SeenIsCurrent'
    BY DEF SeenIsCurrent, TargetsHeld, AppliedAreDone
  <1>8. BalancesOwned'
    BY DEF BalancesOwned
  <1>9. LedgerFirst'
    BY DEF LedgerFirst
  <1>10. DoneAreApplied'
    BY DEF DoneAreApplied
  <1>11. CardsHeld'
    <2>1. \A c \in Cards : \A s \in Requests : cardLock'[c] = s => cardLock[c] = s /\ s # r
      OBVIOUS
    <2>2. \A s \in Requests : s # r => pc'[s] = pc[s]
      OBVIOUS
    <2>3. pc'[r] \in Unlocking \cup Final
      OBVIOUS
    <2>4. ASSUME NEW s \in Requests, Op[s] = "redeem",
                 pc'[s] \in {"find", "save", "log", "commit"}
          PROVE  card'[CardOf[s]] = "REDEEMED" \/ cardLock'[CardOf[s]] = s
      <3>1. s # r /\ CardOf[s] \in Cards
        BY <2>3, <2>4
      <3>2. card[CardOf[s]] = "REDEEMED" \/ cardLock[CardOf[s]] = s
        BY <2>2, <2>4, <3>1 DEF CardsHeld
      <3>3. QED
        BY <3>1, <3>2
    <2>5. QED
      BY <2>1, <2>2, <2>4, SMTT(30) DEF CardsHeld
  <1>12. RedeemedHaveCredit'
    BY DEF RedeemedHaveCredit, CardsHeld
  <1>13. QED
    BY <1>4, <1>5, <1>6, <1>7, <1>8, <1>9, <1>10, <1>11, <1>12

\* Init establishes the invariant and every step keeps it.
LEMMA InitInv == Init => IInv
  BY WalletAssumption
  DEF Init, IInv, TypeOK, OpsMatch, AppliedAreDone, TargetsHeld, SeenIsCurrent,
      BalancesOwned, LedgerFirst, DoneAreApplied, CardsHeld, RedeemedHaveCredit,
      Labels, InTxn, Unlocking, Final, CardStatus

LEMMA NextInv == IInv /\ [Next]_vars => IInv'
  <1> SUFFICES ASSUME IInv, [Next]_vars
               PROVE  IInv'
    OBVIOUS
  <1>1. ASSUME NEW r \in Requests, Step(r) \/ CreditStart(r) \/ Failure(r)
        PROVE  IInv'
    <2>1. TypeOK'
      BY <1>1, StepType DEF IInv
    <2>2. QED
      BY <1>1, <2>1, QuietStepInv, FindForUpdateInv, CommitInv DEF Step, TxnStep
  <1>2. ASSUME NEW u \in Users, LockExpires(u)
        PROVE  IInv'
    BY <1>2
    DEF LockExpires, IInv, TypeOK, OpsMatch, AppliedAreDone, TargetsHeld,
        SeenIsCurrent, BalancesOwned, LedgerFirst, DoneAreApplied, CardsHeld,
        RedeemedHaveCredit
  <1>3. CASE UNCHANGED vars
    BY <1>3
    DEF vars, IInv, TypeOK, OpsMatch, AppliedAreDone, TargetsHeld, SeenIsCurrent,
        BalancesOwned, LedgerFirst, DoneAreApplied, CardsHeld, RedeemedHaveCredit
  <1>4. QED
    BY <1>1, <1>2, <1>3 DEF Next

THEOREM Invariance == Spec => []IInv
  BY InitInv, NextInv, PTL DEF Spec

----------------------------------------------------------------------------
(* The properties, for every set of requests, users and cards *)

\* The wallet's variables keep their types.
THEOREM TypeCorrect == Spec => []TypeOK
  <1>1. IInv => TypeOK
    BY DEF IInv
  <1>2. QED
    BY <1>1, Invariance, PTL

\* No acknowledged credit is lost, with or without the Redis lock.
THEOREM CreditsKept == Spec => []AcknowledgedCreditsKept
  <1>1. IInv => AcknowledgedCreditsKept
    BY DEF IInv, DoneAreApplied, AcknowledgedCreditsKept, RowsOf
  <1>2. QED
    BY <1>1, Invariance, PTL

\* No credit is counted twice or goes to another user.
THEOREM CreditsOnce == Spec => []CreditsInOneRow
  <1>1. IInv => CreditsInOneRow
    BY DEF IInv, TypeOK, BalancesOwned, CreditsInOneRow
  <1>2. QED
    BY <1>1, Invariance, PTL

\* Every credit in a wallet has its ledger entry.
THEOREM LedgerComplete == Spec => []CreditsAreLedgered
  <1>1. IInv => CreditsAreLedgered
    BY DEF IInv, TypeOK, LedgerFirst, CreditsAreLedgered, Applied
  <1>2. QED
    BY <1>1, Invariance, PTL

\* A card is used up exactly when its value has been credited.
THEOREM RedemptionsAtomic == Spec => []RedemptionAtomic
  <1>1. IInv => RedemptionAtomic
    BY DEF IInv, TypeOK, BalancesOwned, RedeemedHaveCredit, RedemptionAtomic, Applied
  <1>2. QED
    BY <1>1, Invariance, PTL

----------------------------------------------------------------------------
(* Refinement of the book of credits *)

Used == {c \in Cards : card[c] = "REDEEMED"}

\* Steps other than a commit are invisible in the book.
LEMMA QuietStepBook ==
  ASSUME IInv, NEW r \in Requests,
         \/ BalanceStep(r) \/ RedeemStep(r) \/ CreditStep(r) \/ CreditStart(r)
         \/ Begin(r) \/ FindForUpdate(r) \/ SaveWallet(r) \/ SaveLedger(r)
         \/ Rollback(r) \/ Failure(r)
  PROVE  Applied' = Applied /\ Used' = Used
  <1>1. CASE BalanceInsert(r)
    BY <1>1 DEF BalanceInsert, IInv, TypeOK, BalancesOwned, AppliedAreDone, Applied,
       Used, Unlocking, Final
  <1>2. CASE ~BalanceInsert(r)
    <2>1. UNCHANGED <<card, rows, bal>>
      BY <1>2
      DEF BalanceStep, RedeemStep, CreditStep, Failure, BalanceFind, RedeemFind,
          CardSelect, CardUpdate, CreditStart, CreditAcquire, CreditAcquireFails,
          ReleaseLock, Begin, FindForUpdate, SaveWallet, SaveLedger, Rollback,
          BeginFails, StepFails, Crash
    <2>2. QED
      BY <2>1 DEF Applied, Used
  <1>3. QED
    BY <1>1, <1>2

\* A commit is a step of the book.
LEMMA CommitBook ==
  ASSUME IInv, NEW r \in Requests, Commit(r)
  PROVE  Book!BookNext
  <1>1. Applied' = Applied \cup {r} /\ r \notin Applied
    <2>1. /\ target[r] \in Requests
          /\ rows' = rows \cup {target[r]}
          /\ bal' = [bal EXCEPT ![target[r]] = bal[target[r]] \cup {r}]
          /\ \A x \in Requests : r \notin bal[x]
      BY CommitAddsCredit DEF Commit
    <2>2. /\ rows \subseteq Requests
          /\ bal \in [Requests -> SUBSET Requests]
          /\ \A x \in Requests \ rows : bal[x] = {}
      BY DEF IInv, TypeOK, BalancesOwned
    <2>3. QED
      BY <2>1, <2>2 DEF Applied
  <1>2. CASE Op[r] = "redeem"
    <2>1. Used' = Used \cup {CardOf[r]} /\ CardOf[r] \in Cards
      <3>1. pc[r] = "commit" /\ card \in [Cards -> CardStatus] /\ CardOf[r] \in Cards
        BY WalletAssumption DEF Commit, IInv, TypeOK
      <3>2. card[CardOf[r]] = "REDEEMED" \/ cardLock[CardOf[r]] = r
        BY <1>2, <3>1 DEF IInv, CardsHeld
      <3>3. \A c \in Cards : cardLock[c] = r => c = CardOf[r]
        BY DEF IInv, CardsHeld
      <3>4. QED
        BY <3>1, <3>2, <3>3 DEF Used, Commit
    <2>2. QED
      BY <1>1, <2>1 DEF Book!BookNext, Book!Redeem, Used
  <1>3. CASE Op[r] # "redeem"
    <2>1. Used' = Used
      BY <1>3 DEF Used, Commit, IInv, TypeOK, CardsHeld
    <2>2. QED
      BY <1>1, <2>1 DEF Book!BookNext, Book!Credit, Used
  <1>4. QED
    BY <1>2, <1>3

\* Credits are applied once and kept for ever, and a card is used up in the
\* step that credits it, whatever the interleaving, failures and crashes.
THEOREM Refinement == Spec => ImplementsCreditBook
  <1>1. Init => Book!BookInit
    BY DEF Init, Book!BookInit, Applied
  <1>2. IInv /\ [Next]_vars => [Book!BookNext]_(Book!bookVars)
    <2> SUFFICES ASSUME IInv, [Next]_vars
                 PROVE  Book!BookNext \/ (Applied' = Applied /\ Used' = Used)
      BY DEF Book!bookVars, Used
    <2>1. ASSUME NEW r \in Requests, Step(r) \/ CreditStart(r) \/ Failure(r)
          PROVE  Book!BookNext \/ (Applied' = Applied /\ Used' = Used)
      BY <2>1, QuietStepBook, CommitBook DEF Step, TxnStep
    <2>2. ASSUME NEW u \in Users, LockExpires(u)
          PROVE  Applied' = Applied /\ Used' = Used
      BY <2>2 DEF LockExpires, Applied, Used
    <2>3. CASE UNCHANGED vars
      BY <2>3 DEF vars, Applied, Used
    <2>4. QED
      BY <2>1, <2>2, <2>3 DEF Next
  <1>3. QED
    BY <1>1, <1>2, Invariance, PTL DEF Spec, Book!BookSpec, ImplementsCreditBook
----------------------------------------------------------------------------

(***************************************************************************)
(* A refund uses the wallet only as the wallet allows, so that all that is *)
(* proved of the wallet holds of refunds too.                              *)
(***************************************************************************)
LEMMA RefundStepIsWalletStep ==
  ASSUME [RefundNext]_allVars
  PROVE  [Next]_vars
  <1>1. ASSUME NEW r \in Requests, WalletStep(r) \/ WalletFailure(r)
        PROVE  Next
    BY <1>1 DEF WalletStep, WalletFailure, Next, Failure
  <1>2. ASSUME NEW q \in Refunds,
               RefundStep(q) \/ RefundStepFails(q) \/ RefundBeginFails(q)
        PROVE  CreditStart(q) \/ UNCHANGED vars
    BY <1>2
    DEF RefundStep, RefundStepFails, RefundBeginFails, FindOrder, RefundBegin,
        SaveMemo, MoveByCredit, CreditReturns, MoveByGateway, GatewayReturns,
        MoveByHand, SelectOrder, SaveOrder, RefundCommit, RefundRollback
  <1>3. ASSUME NEW q \in Refunds, RefundCrash(q)
        PROVE  Failure(q) \/ UNCHANGED vars
    BY <1>3 DEF RefundCrash, Failure
  <1>4. ASSUME NEW u \in Users, LockExpires(u)
        PROVE  Next
    BY <1>4 DEF Next
  <1>5. ASSUME NEW u \in Updates, UpdateStep(u) \/ UpdateFails(u)
        PROVE  UNCHANGED vars
    BY <1>5 DEF UpdateStep, UpdateFind, CancelFind, SelectStatus, WriteStatus, UpdateFails
  <1>6. CASE UNCHANGED allVars
    BY <1>6 DEF allVars
  <1>7. Refunds \subseteq Requests
    BY RefundAssumption
  <1>8. QED
    BY <1>1, <1>2, <1>3, <1>4, <1>5, <1>6, <1>7 DEF RefundNext, Next

\* Every behaviour of the refunds is one of the wallet.
THEOREM RefundsUseTheWallet == RefundSpec => Spec
  <1>1. RefundInit => Init
    BY DEF RefundInit
  <1>2. [RefundNext]_allVars => [Next]_vars
    BY RefundStepIsWalletStep
  <1>3. QED
    BY <1>1, <1>2, PTL DEF RefundSpec, Spec

----------------------------------------------------------------------------
(* The inductive invariant of the refund itself *)

\* The nested credit is started from "move" only.
CreditNotStarted ==
  \A q \in Refunds :
    rpc[q] \in {"idle", "begin", "memo", "move"} => pc[q] = "idle"

\* The method is fixed before the transaction, and a memo is of a refund
\* that has ended.
MethodsKnown ==
  /\ \A q \in Refunds :
       rpc[q] \in {"begin", "ok", "rolledback"} \cup Outer => method[q] \in Methods
  /\ \A q \in memos : method[q] \in Methods /\ rpc[q] \in {"ok", "failed"}
  /\ \A q \in Refunds : rpc[q] = "credit" => method[q] = "STORE_CREDIT"
  /\ \A q \in Refunds : rpc[q] = "gateway" => method[q] = "ORIGINAL_GATEWAY"

\* Past its money movement a refund has got its credit or its pay-out.
MovementDone ==
  \A q \in Refunds :
    rpc[q] \in {"order", "update", "commit"} \/ q \in memos =>
      /\ method[q] = "STORE_CREDIT" => pc[q] = "ok"
      /\ method[q] = "ORIGINAL_GATEWAY" => q \in gateway

\* The order of q is REFUNDED, or an update has written it after q's SELECT.
Overwritten(q) ==
  status[OrderOf[q]] # "REFUNDED" => writer[OrderOf[q]] \in Updates \ {found[q]}

\* An order's row lock belongs to a refund of it that is about to end; one
\* about to commit holds it, or found the order refunded.
OrdersHeld ==
  /\ \A o \in Orders : \A q \in Refunds :
       orderLock[o] = q => OrderOf[q] = o /\ rpc[q] \in {"commit", "rollback"}
  /\ \A q \in Refunds :
       rpc[q] = "commit" => orderLock[OrderOf[q]] = q \/ Overwritten(q)

\* An update that has not written yet is nobody's writer, and knows what it
\* is to write.
WritersKnown ==
  \A u \in Updates :
    /\ upc[u] \in {"idle", "save", "write"} =>
         /\ \A o \in Orders : writer[o] # u
         /\ \A q \in Refunds : found[q] # u
    /\ upc[u] \in {"save", "write"} => wanted[u] \in Statuses

RefundInv ==
  /\ RefundTypeOK
  /\ CreditNotStarted
  /\ MethodsKnown
  /\ MovementDone
  /\ OrdersHeld
  /\ WritersKnown
  /\ RefundedOrdersHaveMemos

LEMMA RefundInitInv == RefundInit => RefundInv
  BY WalletAssumption, RefundAssumption
  DEF RefundInit, Init, RefundInv, RefundTypeOK, CreditNotStarted, MethodsKnown,
      MovementDone, OrdersHeld, WritersKnown, RefundedOrdersHaveMemos, Outer,
      RefundFinal, Statuses

\* A step of the wallet changes only where its request is, never from "ok",
\* and starts no credit.
LEMMA WalletStepFrame ==
  ASSUME TypeOK, NEW r \in Requests, WalletStep(r) \/ WalletFailure(r)
  PROVE  /\ UNCHANGED refundVars
         /\ \A q \in Requests : pc[q] = "ok" => pc'[q] = "ok"
         /\ \A q \in Refunds : pc[q] = "idle" => pc'[q] = "idle"
  <1>1. UNCHANGED refundVars
    BY DEF WalletStep, WalletFailure
  <1>2. PICK label : Goto(r, label)
    BY DEF WalletStep, WalletFailure, Step, RedeemStep, BalanceStep, CreditStep,
       TxnStep, BalanceFind, BalanceInsert, RedeemFind, CardSelect, CardUpdate,
       CreditAcquire, CreditAcquireFails, Begin, FindForUpdate, SaveWallet,
       SaveLedger, Commit, Rollback, ReleaseLock, BeginFails, StepFails, Crash
  <1>3. pc[r] # "ok" /\ (r \in Refunds => pc[r] # "idle")
    BY RefundAssumption
    DEF WalletStep, WalletFailure, Step, RedeemStep, BalanceStep, CreditStep,
       TxnStep, BalanceFind, BalanceInsert, RedeemFind, CardSelect, CardUpdate,
       CreditAcquire, CreditAcquireFails, Begin, FindForUpdate, SaveWallet,
       SaveLedger, Commit, Rollback, ReleaseLock, BeginFails, StepFails, Crash,
       InTxn, Unlocking, Final
  <1>4. QED
    BY <1>1, <1>2, <1>3, RefundAssumption DEF Goto, TypeOK

\* Each step of a refund keeps the invariant.
LEMMA RefundStepInv ==
  ASSUME RefundInv, TypeOK, NEW q \in Refunds,
         RefundStep(q) \/ RefundStepFails(q) \/ RefundBeginFails(q) \/ RefundCrash(q)
  PROVE  RefundInv'
  <1> USE RefundAssumption, WalletAssumption
      DEF RefundInv, RefundTypeOK, CreditNotStarted, MethodsKnown, MovementDone,
          OrdersHeld, WritersKnown, Overwritten, RefundedOrdersHaveMemos, Outer,
          RefundFinal, Methods, Statuses, RGoto, orderVars, updateVars, vars
  <1>1. CASE FindOrder(q)
    BY <1>1 DEF FindOrder
  <1>2. CASE RefundBegin(q)
    BY <1>2 DEF RefundBegin
  <1>3. CASE SaveMemo(q)
    BY <1>3 DEF SaveMemo
  <1>4. CASE MoveByCredit(q)
    BY <1>4 DEF MoveByCredit, CreditStart, Goto, TypeOK
  <1>5. CASE CreditReturns(q)
    BY <1>5 DEF CreditReturns, Final
  <1>6. CASE MoveByGateway(q)
    BY <1>6 DEF MoveByGateway
  <1>7. CASE GatewayReturns(q)
    BY <1>7 DEF GatewayReturns
  <1>8. CASE MoveByHand(q)
    BY <1>8 DEF MoveByHand
  <1>9. CASE SaveOrder(q)
    BY <1>9 DEF SaveOrder
  <1>15. CASE SelectOrder(q)
    BY <1>15 DEF SelectOrder
  <1>10. CASE RefundCommit(q)
    BY <1>10 DEF RefundCommit, LocksWithout
  <1>11. CASE RefundRollback(q)
    BY <1>11 DEF RefundRollback, LocksWithout
  <1>12. CASE RefundStepFails(q)
    BY <1>12 DEF RefundStepFails
  <1>13. CASE RefundBeginFails(q)
    BY <1>13 DEF RefundBeginFails
  <1>14. CASE RefundCrash(q)
    BY <1>14 DEF RefundCrash, Crash, EndTxn, LocksWithout, Goto, TypeOK, Final
  <1>16. QED
    BY <1>1, <1>2, <1>3, <1>4, <1>5, <1>6, <1>7, <1>8, <1>9,
       <1>10, <1>11, <1>12, <1>13, <1>14, <1>15 DEF RefundStep

\* Each step of an update keeps it too.
LEMMA UpdateStepInv ==
  ASSUME RefundInv, NEW u \in Updates, UpdateStep(u) \/ UpdateFails(u)
  PROVE  RefundInv'
  <1> USE RefundAssumption
      DEF RefundInv, RefundTypeOK, CreditNotStarted, MethodsKnown, MovementDone,
          OrdersHeld, WritersKnown, Overwritten, RefundedOrdersHaveMemos,
          Statuses, UGoto, moneyVars, orderVars, vars
  <1>1. CASE UpdateFind(u)
    BY <1>1 DEF UpdateFind
  <1>2. CASE CancelFind(u)
    BY <1>2 DEF CancelFind
  <1>3. CASE SelectStatus(u)
    BY <1>3 DEF SelectStatus
  <1>4. CASE WriteStatus(u)
    BY <1>4 DEF WriteStatus
  <1>5. CASE UpdateFails(u)
    BY <1>5 DEF UpdateFails
  <1>6. QED
    BY <1>1, <1>2, <1>3, <1>4, <1>5 DEF UpdateStep

LEMMA RefundNextInv == RefundInv /\ TypeOK /\ [RefundNext]_allVars => RefundInv'
  <1> SUFFICES ASSUME RefundInv, TypeOK, [RefundNext]_allVars
               PROVE  RefundInv'
    OBVIOUS
  <1> USE RefundAssumption
      DEF RefundInv, RefundTypeOK, CreditNotStarted, MethodsKnown, MovementDone,
          OrdersHeld, WritersKnown, Overwritten, RefundedOrdersHaveMemos,
          refundVars, moneyVars, orderVars, updateVars
  <1>1. ASSUME NEW r \in Requests, WalletStep(r) \/ WalletFailure(r)
        PROVE  RefundInv'
    BY <1>1, WalletStepFrame
  <1>2. ASSUME NEW q \in Refunds,
               RefundStep(q) \/ RefundStepFails(q) \/ RefundBeginFails(q)
                 \/ RefundCrash(q)
        PROVE  RefundInv'
    BY <1>2, RefundStepInv
  <1>3. ASSUME NEW u \in Users, LockExpires(u), UNCHANGED refundVars
        PROVE  RefundInv'
    BY <1>3 DEF LockExpires
  <1>4. ASSUME NEW u \in Updates, UpdateStep(u) \/ UpdateFails(u)
        PROVE  RefundInv'
    BY <1>4, UpdateStepInv
  <1>5. CASE UNCHANGED allVars
    BY <1>5 DEF allVars, vars
  <1>6. QED
    BY <1>1, <1>2, <1>3, <1>4, <1>5 DEF RefundNext

THEOREM RefundInvariance == RefundSpec => [](RefundInv /\ IInv)
  <1>1. IInv => TypeOK
    BY DEF IInv
  <1>2. QED
    BY <1>1, RefundInitInv, RefundNextInv, RefundsUseTheWallet, Invariance, PTL
    DEF RefundSpec

----------------------------------------------------------------------------
\* The refund's variables keep their types.
THEOREM RefundTypeCorrect == RefundSpec => []RefundTypeOK
  <1>1. RefundInv => RefundTypeOK
    BY DEF RefundInv
  <1>2. QED
    BY <1>1, RefundInvariance, PTL

\* No memo without the money: for any number of concurrent refunds.
THEOREM MemosAreBacked == RefundSpec => []MemosBacked
  <1>1. RefundInv /\ IInv => MemosBacked
    <2> SUFFICES ASSUME RefundInv, IInv, NEW q \in memos, method[q] # "MANUAL"
                 PROVE  MoneyMoved(q)
      BY DEF MemosBacked
    <2>1. q \in Refunds /\ q \in Requests /\ Op[q] = "credit"
      BY RefundAssumption DEF RefundInv, RefundTypeOK
    <2>2. CASE method[q] = "STORE_CREDIT"
      <3>1. pc[q] = "ok"
        BY <2>1, <2>2 DEF RefundInv, MovementDone
      <3>2. PICK x \in rows : q \in bal[x]
        BY <2>1, <3>1 DEF IInv, DoneAreApplied
      <3>3. QED
        BY <3>2 DEF MoneyMoved, Applied
    <2>3. CASE method[q] = "ORIGINAL_GATEWAY"
      BY <2>1, <2>3 DEF RefundInv, MovementDone, MoneyMoved
    <2>4. QED
      BY <2>2, <2>3 DEF RefundInv, MethodsKnown, Methods
  <1>2. QED
    BY <1>1, RefundInvariance, PTL

\* REFUNDED comes with a memo or from an update, and an order with a memo is
\* REFUNDED unless an update has overwritten it since: the refund's one
\* transaction is what ties the two, for any number of refunds and updates.
THEOREM RefundedOrdersAreDocumented == RefundSpec => []RefundedOrdersHaveMemos
  <1>1. RefundInv => RefundedOrdersHaveMemos
    BY DEF RefundInv
  <1>2. QED
    BY <1>1, RefundInvariance, PTL

\* The wallet keeps every acknowledged credit when refunds drive it.
THEOREM RefundCreditsKept == RefundSpec => []AcknowledgedCreditsKept
  BY RefundsUseTheWallet, CreditsKept, PTL
=============================================================================
