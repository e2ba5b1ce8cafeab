-------------------------- MODULE MarketplaceProofs --------------------------
(***************************************************************************)
(* What settlement and payouts guarantee for every set of orders, vendors, *)
(* status updates, payout requests and calls.                              *)
(***************************************************************************)
EXTENDS Marketplace, TLAPS

(***************************************************************************)
(* The inductive invariant, part by part.                                  *)
(***************************************************************************)

\* An active job has written the rows of the vendors it is done with.
JobsRecorded ==
  \A j \in Updates :
    job[j] = "active" =>
      /\ worker[j] = "settlement"
      /\ \A v \in VendorsOf[OrderOf[j]] \ todo[j] : <<j, try[j], v>> \in rows

\* Past the bridge the money is out.
PaidPastBridge ==
  \A c \in Calls : pc[c] \in {"select", "settle", "save", "commit"} => c \in paid

\* A call claims revenue of its own vendor, and what it has updated nobody
\* else has, committed or not.
ClaimsOwned ==
  \A c \in Calls :
    /\ claim[c] # {} => pc[c] \in {"settle", "save", "commit", "rollback"}
    /\ \A x \in claim[c] : x[3] = VendorOf[PayoutOf[c]]
ClaimsUnsettled == \A c \in Calls : \A x \in Updated(c) : ~IsSettled(x)
ClaimsApart == \A c, d \in Calls : c # d => Updated(c) \cap Updated(d) = {}

\* A payout request is locked by a call of its own that has been paid.
LocksHeld ==
  \A p \in Payouts, c \in Calls : payLock[p] = c => PayoutOf[c] = p /\ c \in paid

PayInv ==
  /\ PaidPastBridge
  /\ ClaimsOwned
  /\ ClaimsUnsettled
  /\ ClaimsApart
  /\ LocksHeld
  /\ SettledRevenueWasPaid
  /\ RevenueSettledOnce
  /\ ProcessedWasPaid

IInv == TypeOK /\ JobsRecorded /\ SettlementComplete /\ PayInv

----------------------------------------------------------------------------
\* The initial states satisfy the invariant.
LEMMA InitInv == Init => IInv
  <1> SUFFICES ASSUME Init PROVE IInv
    OBVIOUS
  <1> USE MarketplaceAssumption DEF Init
  <1>1. TypeOK
    BY DEF TypeOK, Statuses, JobStates, PayoutStates, Final, InTxn, MaxStalled, Rows
  <1>2. JobsRecorded /\ SettlementComplete
    BY DEF JobsRecorded, SettlementComplete
  <1>3. PayInv
    BY DEF PayInv, PaidPastBridge, ClaimsOwned, ClaimsUnsettled, ClaimsApart, LocksHeld,
           SettledRevenueWasPaid, RevenueSettledOnce, ProcessedWasPaid, Updated, IsSettled
  <1>4. QED
    BY <1>1, <1>2, <1>3 DEF IInv, PayInv

----------------------------------------------------------------------------
\* The steps of orders and jobs keep the variables within their types.
LEMMA OrderJobType ==
  ASSUME TypeOK, NEW u \in Updates,
         UpdateStep(u) \/ UpdateFails(u) \/ JobStep(u) \/ SettleFails(u) \/ Stall(u)
  PROVE  TypeOK'
  <1> USE MarketplaceAssumption
      DEF TypeOK, orderVars, jobVars, payVars, Statuses, JobStates, Final, MaxStalled, Rows
  <1>1. CASE UpdateFind(u)
    BY <1>1 DEF UpdateFind
  <1>2. CASE CancelFind(u)
    BY <1>2, ZenonT(40) DEF CancelFind
  <1>3. CASE SaveStatus(u)
    BY <1>3 DEF SaveStatus
  <1>4. CASE AddJob(u)
    BY <1>4 DEF AddJob
  <1>5. CASE UpdateFails(u)
    BY <1>5 DEF UpdateFails
  <1>6. CASE TakeBySales(u)
    BY <1>6 DEF TakeBySales
  <1>7. CASE TakeBySettlement(u)
    BY <1>7 DEF TakeBySettlement
  <1>8. ASSUME NEW v \in Vendors, SettleVendor(u, v)
        PROVE  TypeOK'
    BY <1>8 DEF SettleVendor
  <1>9. CASE SettleFails(u)
    BY <1>9 DEF SettleFails
  <1>10. CASE Stall(u)
    <2>1. CASE try[u] < MaxStalled
      <3>1. try' = [try EXCEPT ![u] = try[u] + 1]
        BY <1>10, <2>1 DEF Stall
      <3>2. try[u] \in 0..MaxStalled
        OBVIOUS
      <3>3. try[u] + 1 \in 0..MaxStalled
        BY <2>1, <3>2
      <3>4. QED
        BY <1>10, <2>1, <3>1, <3>3, ZenonT(40) DEF Stall
    <2>2. CASE ~(try[u] < MaxStalled)
      BY <1>10, <2>2 DEF Stall
    <2>3. QED
      BY <2>1, <2>2
  <1>11. QED
    BY <1>1, <1>2, <1>3, <1>4, <1>5, <1>6, <1>7, <1>8, <1>9, <1>10
       DEF UpdateStep, JobStep

\* The steps of payouts keep the variables within their types.
LEMMA PayoutType ==
  ASSUME TypeOK, NEW c \in Calls,
         \/ CallStep(c) \/ PayoutBeginFails(c)
         \/ PayoutStepFails(c) \/ PayoutCrash(c)
  PROVE  TypeOK'
  <1> USE MarketplaceAssumption
      DEF TypeOK, orderVars, jobVars, PayoutStates, InTxn, Final, Goto
  <1>1. CASE PayoutFind(c)
    BY <1>1 DEF PayoutFind
  <1>2. CASE PayoutBegin(c) \/ PayoutBeginFails(c) \/ MarkSelect(c)
    <2>1. PICK label \in {"bridge", "marking", "failed"} : pc' = [pc EXCEPT ![c] = label]
      BY <1>2 DEF PayoutBegin, PayoutBeginFails, MarkSelect
    <2>2. UNCHANGED <<orderVars, jobVars, payout, claim, payLock, settled, paid>>
      BY <1>2 DEF PayoutBegin, PayoutBeginFails, MarkSelect
    <2>3. QED
      BY <2>1, <2>2, SMTT(30)
  <1>3. CASE Bridge(c)
    <2>1. paid' \in SUBSET Calls
      BY <1>3 DEF Bridge
    <2>2. QED
      BY <1>3, <2>1, SMTT(30) DEF Bridge
  <1>4. CASE SettleSelect(c)
    BY <1>4 DEF SettleSelect, Unsettled
  <1>5. CASE SettleUpdate(c)
    BY <1>5 DEF SettleUpdate
  <1>6. CASE SavePayout(c)
    <2>1. payLock' \in [Payouts -> Calls \cup {NONE}]
      BY <1>6 DEF SavePayout
    <2>2. pc' \in [Calls -> {"idle", "begin", "mark", "marking"} \cup InTxn \cup Final]
      BY <1>6 DEF SavePayout
    <2>3. QED
      BY <1>6, <2>1, <2>2 DEF SavePayout
  <1>7. CASE PayoutCommit(c)
    <2>1. claim[c] \X {c} \in SUBSET (Rows \X Calls)
      OBVIOUS
    <2>2. QED
      BY <1>7, <2>1 DEF PayoutCommit, EndTxn
  <1>8. CASE PayoutRollback(c)
    BY <1>8 DEF PayoutRollback, EndTxn
  <1>9. CASE MarkFailed(c)
    BY <1>9 DEF MarkFailed
  <1>10. CASE PayoutStepFails(c)
    BY <1>10 DEF PayoutStepFails, Updated
  <1>11. CASE PayoutCrash(c)
    BY <1>11 DEF PayoutCrash, EndTxn
  <1>12. QED
    BY <1>1, <1>2, <1>3, <1>4, <1>5, <1>6, <1>7, <1>8, <1>9, <1>10, <1>11 DEF CallStep

----------------------------------------------------------------------------
\* The settlement of a job: rows are only added, and the job's own run counts.
LEMMA JobInv ==
  ASSUME TypeOK, JobsRecorded, SettlementComplete, NEW u \in Updates,
         JobStep(u) \/ SettleFails(u) \/ Stall(u)
  PROVE  JobsRecorded' /\ SettlementComplete'
  <1> USE MarketplaceAssumption DEF TypeOK, JobsRecorded, SettlementComplete, orderVars
  <1>1. CASE TakeBySales(u)
    BY <1>1 DEF TakeBySales
  <1>2. CASE TakeBySettlement(u)
    BY <1>2 DEF TakeBySettlement
  <1>3. ASSUME NEW v \in Vendors, SettleVendor(u, v)
        PROVE  JobsRecorded' /\ SettlementComplete'
    <2>1. <<u, try[u], v>> \in rows' /\ rows \subseteq rows'
      BY <1>3 DEF SettleVendor
    <2>2. \A w \in VendorsOf[OrderOf[u]] : w \notin todo[u] \ {v} => <<u, try[u], w>> \in rows'
      BY <1>3, <2>1 DEF SettleVendor
    <2>3. JobsRecorded'
      BY <1>3, <2>1, <2>2 DEF SettleVendor
    <2>4. SettlementComplete'
      BY <1>3, <2>1, <2>2 DEF SettleVendor
    <2>5. QED
      BY <2>3, <2>4
  <1>4. CASE SettleFails(u)
    BY <1>4 DEF SettleFails
  <1>5. CASE Stall(u)
    <2>1. job'[u] \in {"waiting", "failed"} /\ rows' = rows
      BY <1>5 DEF Stall
    <2>2. \A j \in Updates \ {u} :
            job'[j] = job[j] /\ try'[j] = try[j] /\ worker'[j] = worker[j] /\ todo'[j] = todo[j]
      BY <1>5 DEF Stall
    <2>3. QED
      BY <2>1, <2>2
  <1>6. QED
    BY <1>1, <1>2, <1>3, <1>4, <1>5 DEF JobStep

\* Nothing else touches jobs, but for a new one that waits.
LEMMA JobFrame ==
  ASSUME TypeOK, JobsRecorded, SettlementComplete,
         \/ UNCHANGED jobVars
         \/ \E u \in Updates : UpdateStep(u) \/ UpdateFails(u)
  PROVE  JobsRecorded' /\ SettlementComplete'
  <1> USE DEF TypeOK, JobsRecorded, SettlementComplete, jobVars
  <1>1. CASE UNCHANGED jobVars
    BY <1>1
  <1>2. ASSUME NEW u \in Updates, UpdateStep(u) \/ UpdateFails(u)
        PROVE  JobsRecorded' /\ SettlementComplete'
    <2>1. CASE AddJob(u)
      BY <2>1 DEF AddJob
    <2>2. CASE ~AddJob(u)
      BY <1>1, <1>2, <2>2
         DEF UpdateStep, UpdateFind, CancelFind, SaveStatus, UpdateFails
    <2>3. QED
      BY <2>1, <2>2
  <1>3. QED
    BY <1>1, <1>2

----------------------------------------------------------------------------
\* What orders, jobs and new payout requests do leaves the payouts alone.
LEMMA PayFrame ==
  ASSUME PayInv, UNCHANGED payVars,
         \A p \in Payouts : payout'[p] = "PROCESSED" => payout[p] = "PROCESSED"
  PROVE  PayInv'
  BY DEF PayInv, PaidPastBridge, ClaimsOwned, ClaimsUnsettled, ClaimsApart, LocksHeld,
         SettledRevenueWasPaid, RevenueSettledOnce, ProcessedWasPaid, Updated, IsSettled,
         payVars

\* A call that only moves on, or is paid, disturbs nothing: it has claimed
\* nothing yet.
LEMMA PayMove ==
  ASSUME TypeOK, PayInv, NEW c \in Calls, NEW label,
         pc' = [pc EXCEPT ![c] = label],
         pc[c] \in {"idle", "begin", "bridge", "mark"},
         label \in {"begin", "failed", "bridge", "select", "rollback", "marking"},
         label = "select" => c \in paid',
         UNCHANGED <<payout, claim, payLock, settled>>,
         paid \subseteq paid'
  PROVE  PayInv'
  <1> USE MarketplaceAssumption DEF TypeOK
  <1>1. PaidPastBridge'
    BY DEF PayInv, PaidPastBridge
  <1>2. claim[c] = {}
    BY DEF PayInv, ClaimsOwned
  <1>3. ClaimsOwned'
    BY <1>2 DEF PayInv, ClaimsOwned
  <1>4. \A d \in Calls : Updated(d)' \subseteq Updated(d)
    BY <1>2 DEF Updated
  <1>5. ClaimsUnsettled' /\ ClaimsApart'
    BY <1>4, ZenonT(40) DEF PayInv, ClaimsUnsettled, ClaimsApart, IsSettled
  <1>6. LocksHeld' /\ SettledRevenueWasPaid' /\ RevenueSettledOnce' /\ ProcessedWasPaid'
    BY DEF PayInv, LocksHeld, SettledRevenueWasPaid, RevenueSettledOnce, ProcessedWasPaid
  <1>7. QED
    BY <1>1, <1>3, <1>5, <1>6 DEF PayInv

\* A transaction that ends, or fails, without a commit.
LEMMA PayDrop ==
  ASSUME TypeOK, PayInv, NEW c \in Calls, NEW label,
         pc' = [pc EXCEPT ![c] = label],
         label \in {"mark", "failed", "rollback"},
         NEW kept, kept = {} \/ (kept = Updated(c) /\ label = "rollback"),
         claim' = [claim EXCEPT ![c] = kept],
         \A p \in Payouts : payLock'[p] \in {payLock[p], NONE},
         \A p \in Payouts : payout'[p] \in {payout[p], "FAILED"},
         settled' = settled, paid' = paid
  PROVE  PayInv'
  <1> USE MarketplaceAssumption DEF TypeOK
  <1>1. PaidPastBridge'
    BY DEF PayInv, PaidPastBridge
  <1>2. ClaimsOwned'
    BY DEF PayInv, ClaimsOwned, Updated
  <1>3. \A d \in Calls : Updated(d)' \subseteq Updated(d)
    BY DEF Updated
  <1>4. ClaimsUnsettled' /\ ClaimsApart'
    BY <1>3, ZenonT(40) DEF PayInv, ClaimsUnsettled, ClaimsApart, IsSettled
  <1>5. LocksHeld'
    <2> SUFFICES ASSUME NEW p \in Payouts, NEW d \in Calls, payLock'[p] = d
                 PROVE  PayoutOf[d] = p /\ d \in paid
      BY DEF LocksHeld
    <2>1. payLock[p] = d
      OBVIOUS
    <2>2. QED
      BY <2>1 DEF PayInv, LocksHeld
  <1>6. SettledRevenueWasPaid' /\ RevenueSettledOnce'
    BY DEF PayInv, SettledRevenueWasPaid, RevenueSettledOnce
  <1>7. ProcessedWasPaid'
    BY DEF PayInv, ProcessedWasPaid
  <1>8. QED
    BY <1>1, <1>2, <1>4, <1>5, <1>6, <1>7 DEF PayInv

\* The two statements of the revenue UPDATE: what a call ends up with was
\* unsettled when nobody else held it.
LEMMA SettleInv ==
  ASSUME TypeOK, PayInv, NEW c \in Calls, SettleSelect(c) \/ SettleUpdate(c)
  PROVE  PayInv'
  <1> USE MarketplaceAssumption DEF TypeOK, Goto
  <1>1. PaidPastBridge'
    BY DEF PayInv, PaidPastBridge, SettleSelect, SettleUpdate
  <1>2. ClaimsOwned'
    <2>1. CASE SettleSelect(c)
      BY <2>1 DEF PayInv, ClaimsOwned, SettleSelect, Unsettled
    <2>2. CASE SettleUpdate(c)
      BY <2>2 DEF PayInv, ClaimsOwned, SettleUpdate
    <2>3. QED
      BY <2>1, <2>2
  <1>3. \A d \in Calls : d # c => Updated(d)' \subseteq Updated(d)
    BY DEF Updated, SettleSelect, SettleUpdate
  <1>4. \A x \in Updated(c)' : ~IsSettled(x) /\ \A d \in Calls : d # c => x \notin Updated(d)
    <2>1. CASE SettleSelect(c)
      BY <2>1 DEF SettleSelect, Updated
    <2>2. CASE SettleUpdate(c)
      <3>1. Updated(c)' = {x \in claim[c] : ~IsSettled(x)}
        BY <2>2 DEF SettleUpdate, Updated
      <3>2. QED
        BY <2>2, <3>1 DEF SettleUpdate
    <2>3. QED
      BY <2>1, <2>2
  <1>5. UNCHANGED settled
    BY DEF SettleSelect, SettleUpdate
  <1>6. ClaimsUnsettled' /\ ClaimsApart'
    <2>1. \A x : IsSettled(x)' = IsSettled(x)
      BY <1>5 DEF IsSettled
    <2>2. ClaimsUnsettled'
      BY <1>3, <1>4, <2>1 DEF PayInv, ClaimsUnsettled
    <2>3. \A d \in Calls : d # c => Updated(c)' \cap Updated(d)' = {}
      BY <1>3, <1>4
    <2>4. ClaimsApart'
      BY <1>3, <2>3 DEF PayInv, ClaimsApart
    <2>5. QED
      BY <2>2, <2>4
  <1>7. LocksHeld' /\ SettledRevenueWasPaid' /\ RevenueSettledOnce' /\ ProcessedWasPaid'
    BY DEF PayInv, LocksHeld, SettledRevenueWasPaid, RevenueSettledOnce, ProcessedWasPaid,
           SettleSelect, SettleUpdate
  <1>8. QED
    BY <1>1, <1>2, <1>6, <1>7 DEF PayInv

\* The payout request is locked by a call that has been paid.
LEMMA SavePayoutInv ==
  ASSUME TypeOK, PayInv, NEW c \in Calls, SavePayout(c)
  PROVE  PayInv'
  <1> USE MarketplaceAssumption DEF TypeOK, Goto, SavePayout
  <1>1. PaidPastBridge' /\ ClaimsOwned'
    BY DEF PayInv, PaidPastBridge, ClaimsOwned
  <1>2. \A d \in Calls : Updated(d)' \subseteq Updated(d)
    BY DEF Updated
  <1>3. ClaimsUnsettled' /\ ClaimsApart'
    BY <1>2, ZenonT(40) DEF PayInv, ClaimsUnsettled, ClaimsApart, IsSettled
  <1>4. LocksHeld'
    <2>1. c \in paid
      BY DEF PayInv, PaidPastBridge
    <2>2. \A p \in Payouts : payLock'[p] = payLock[p] \/ (p = PayoutOf[c] /\ payLock'[p] = c)
      OBVIOUS
    <2>3. QED
      BY <2>1, <2>2 DEF PayInv, LocksHeld
  <1>5. SettledRevenueWasPaid' /\ RevenueSettledOnce' /\ ProcessedWasPaid'
    BY DEF PayInv, SettledRevenueWasPaid, RevenueSettledOnce, ProcessedWasPaid
  <1>6. QED
    BY <1>1, <1>3, <1>4, <1>5 DEF PayInv

\* The commit settles what the call has updated, for the first time.
LEMMA PayoutCommitInv ==
  ASSUME TypeOK, PayInv, NEW c \in Calls, PayoutCommit(c)
  PROVE  PayInv'
  <1> USE MarketplaceAssumption DEF TypeOK, Goto, PayoutCommit, EndTxn
  <1>1. PaidPastBridge' /\ ClaimsOwned' /\ c \in paid
    BY DEF PayInv, PaidPastBridge, ClaimsOwned, Final
  <1>2. claim[c] = Updated(c)
    BY DEF Updated
  <1>3. \A d \in Calls : Updated(d)' = IF d = c THEN {} ELSE Updated(d)
    BY DEF Updated, Final
  <1>4. ClaimsApart'
    BY <1>3 DEF PayInv, ClaimsApart
  <1>5. \A x : IsSettled(x)' => IsSettled(x) \/ x \in Updated(c)
    BY <1>2 DEF IsSettled
  <1>6. ClaimsUnsettled'
    <2>1. \A d \in Calls : \A x \in Updated(d) : ~IsSettled(x)
      BY DEF PayInv, ClaimsUnsettled
    <2>2. \A d \in Calls \ {c} : Updated(d) \cap Updated(c) = {}
      BY DEF PayInv, ClaimsApart
    <2>3. QED
      <3> HIDE DEF TypeOK, Goto, PayoutCommit, EndTxn
      <3>1. ASSUME NEW d \in Calls, NEW x \in Updated(d)' PROVE ~IsSettled(x)'
        BY <1>3, <1>5, <2>1, <2>2
      <3>2. QED
        BY <3>1 DEF ClaimsUnsettled
  <1>7. LocksHeld'
    <2>1. payLock' = [p \in Payouts |-> IF payLock[p] = c THEN NONE ELSE payLock[p]]
      OBVIOUS
    <2>2. NONE \notin Calls /\ UNCHANGED paid
      OBVIOUS
    <2>3. \A p \in Payouts, d \in Calls : payLock'[p] = d => payLock[p] = d
      <3> HIDE MarketplaceAssumption DEF TypeOK, Goto, PayoutCommit, EndTxn
      <3>1. QED
        BY <2>1, <2>2
    <2>4. QED
      BY <2>2, <2>3 DEF PayInv, LocksHeld
  <1>8. SettledRevenueWasPaid'
    BY <1>1 DEF PayInv, SettledRevenueWasPaid, ClaimsOwned
  <1>9. RevenueSettledOnce'
    <2>1. \A x \in claim[c], d \in Calls : <<x, d>> \notin settled
      <3> HIDE DEF TypeOK, Goto, PayoutCommit, EndTxn
      <3>1. \A x \in Updated(c) : ~IsSettled(x)
        BY DEF PayInv, ClaimsUnsettled
      <3>2. QED
        BY <1>2, <3>1 DEF IsSettled
    <2>2. \A t \in settled : t[1] \notin claim[c]
      BY <2>1
    <2>3. settled' = settled \cup (claim[c] \X {c}) /\ RevenueSettledOnce
      BY DEF PayInv
    <2>4. \A t \in claim[c] \X {c} : t = <<t[1], c>> /\ t[1] \in claim[c]
      OBVIOUS
    <2>5. QED
      <3> HIDE DEF TypeOK, Goto, PayoutCommit, EndTxn
      <3>1. QED
        BY <2>2, <2>3, <2>4 DEF RevenueSettledOnce
  <1>10. ProcessedWasPaid'
    BY DEF PayInv, ProcessedWasPaid, LocksHeld
  <1>11. QED
    BY <1>1, <1>4, <1>6, <1>7, <1>8, <1>9, <1>10 DEF PayInv

\* The calls of processPayout keep payouts and revenue together.
LEMMA CallInv ==
  ASSUME TypeOK, PayInv, NEW c \in Calls,
         \/ CallStep(c) \/ PayoutBeginFails(c)
         \/ PayoutStepFails(c) \/ PayoutCrash(c)
  PROVE  PayInv'
  <1> USE DEF Goto
  <1>1. CASE PayoutFind(c) \/ PayoutBegin(c) \/ PayoutBeginFails(c) \/ MarkSelect(c)
    BY <1>1, PayMove DEF PayoutFind, PayoutBegin, PayoutBeginFails, MarkSelect
  <1>2. CASE Bridge(c)
    BY <1>2, PayMove DEF Bridge
  <1>3. CASE SettleSelect(c) \/ SettleUpdate(c)
    BY <1>3, SettleInv
  <1>4. CASE SavePayout(c)
    BY <1>4, SavePayoutInv
  <1>5. CASE PayoutCommit(c)
    BY <1>5, PayoutCommitInv
  <1>6. CASE PayoutRollback(c) \/ PayoutCrash(c)
    BY <1>6, PayDrop DEF PayoutRollback, PayoutCrash, EndTxn, TypeOK
  <1>7. CASE MarkFailed(c)
    <2>1. claim[c] = {}
      BY <1>7 DEF MarkFailed, PayInv, ClaimsOwned
    <2>2. claim' = [claim EXCEPT ![c] = {}]
      BY <1>7, <2>1 DEF MarkFailed, TypeOK
    <2>3. QED
      BY <1>7, <2>2, PayDrop DEF MarkFailed, TypeOK
  <1>8. CASE PayoutStepFails(c)
    BY <1>8, PayDrop DEF PayoutStepFails
  <1>9. QED
    BY <1>1, <1>2, <1>3, <1>4, <1>5, <1>6, <1>7, <1>8 DEF CallStep

----------------------------------------------------------------------------
\* Every step keeps the invariant.
LEMMA NextInv == IInv /\ [Next]_vars => IInv'
  <1> SUFFICES ASSUME IInv, [Next]_vars PROVE IInv'
    OBVIOUS
  <1>1. TypeOK /\ JobsRecorded /\ SettlementComplete /\ PayInv
    BY DEF IInv, PayInv
  <1>2. TypeOK' /\ JobsRecorded' /\ SettlementComplete' /\ PayInv' => IInv'
    BY DEF IInv, PayInv
  <1>3. ASSUME NEW u \in Updates, UpdateStep(u) \/ UpdateFails(u)
        PROVE  IInv'
    <2>1. UNCHANGED payVars /\ UNCHANGED payout
      BY <1>3 DEF UpdateStep, UpdateFind, CancelFind, SaveStatus, AddJob, UpdateFails
    <2>2. QED
      BY <1>1, <1>2, <1>3, <2>1, OrderJobType, JobFrame, PayFrame
  <1>4. ASSUME NEW j \in Updates, JobStep(j) \/ SettleFails(j) \/ Stall(j)
        PROVE  IInv'
    <2>1. UNCHANGED payVars /\ UNCHANGED payout
      BY <1>4 DEF JobStep, TakeBySales, TakeBySettlement, SettleVendor, SettleFails, Stall
    <2>2. QED
      BY <1>1, <1>2, <1>4, <2>1, OrderJobType, JobInv, PayFrame
  <1>5. ASSUME NEW p \in Payouts, PayoutRequestCheck(p) \/ PayoutRequestSave(p)
        PROVE  IInv'
    <2>1. TypeOK' /\ UNCHANGED jobVars /\ UNCHANGED payVars
      BY <1>1, <1>5 DEF PayoutRequestCheck, PayoutRequestSave, TypeOK, PayoutStates,
                        orderVars, jobVars, payVars
    <2>2. \A q \in Payouts : payout'[q] = "PROCESSED" => payout[q] = "PROCESSED"
      BY <1>1, <1>5 DEF PayoutRequestCheck, PayoutRequestSave, TypeOK
    <2>3. QED
      BY <1>1, <1>2, <2>1, <2>2, JobFrame, PayFrame
  <1>6. ASSUME NEW c \in Calls,
               \/ CallStep(c) \/ PayoutBeginFails(c)
               \/ PayoutStepFails(c) \/ PayoutCrash(c)
        PROVE  IInv'
    <2>1. UNCHANGED jobVars
      BY <1>6 DEF CallStep, PayoutFind, PayoutBegin, PayoutBeginFails, Bridge, SettleSelect,
                  SettleUpdate, SavePayout, PayoutCommit, PayoutRollback, MarkSelect,
                  MarkFailed, PayoutStepFails, PayoutCrash
    <2>2. QED
      BY <1>1, <1>2, <1>6, <2>1, PayoutType, JobFrame, CallInv
  <1>7. CASE UNCHANGED vars
    <2>1. TypeOK' /\ UNCHANGED jobVars /\ UNCHANGED payVars /\ UNCHANGED payout
      BY <1>1, <1>7 DEF vars, TypeOK, orderVars, jobVars, payVars
    <2>2. QED
      BY <1>1, <1>2, <2>1, JobFrame, PayFrame
  <1>8. QED
    BY <1>3, <1>4, <1>5, <1>6, <1>7 DEF Next

THEOREM Invariance == Spec => []IInv
  BY InitInv, NextInv, PTL DEF Spec

----------------------------------------------------------------------------
(* The properties *)

\* The variables keep their types.
THEOREM TypeCorrect == Spec => []TypeOK
  <1>1. IInv => TypeOK
    BY DEF IInv
  <1>2. QED
    BY <1>1, Invariance, PTL

\* A job that settleOrder has completed has a row for every vendor.
THEOREM SettlementsComplete == Spec => []SettlementComplete
  <1>1. IInv => SettlementComplete
    BY DEF IInv
  <1>2. QED
    BY <1>1, Invariance, PTL

\* Revenue is settled only by a payout of its vendor that was paid.
THEOREM SettledRevenueIsPaid == Spec => []SettledRevenueWasPaid
  <1>1. IInv => SettledRevenueWasPaid
    BY DEF IInv, PayInv
  <1>2. QED
    BY <1>1, Invariance, PTL

\* No revenue goes into two payouts, however many calls process payouts.
THEOREM RevenueIsSettledOnce == Spec => []RevenueSettledOnce
  <1>1. IInv => RevenueSettledOnce
    BY DEF IInv, PayInv
  <1>2. QED
    BY <1>1, Invariance, PTL

\* PROCESSED means that the gateway has paid.
THEOREM ProcessedIsPaid == Spec => []ProcessedWasPaid
  <1>1. IInv => ProcessedWasPaid
    BY DEF IInv, PayInv
  <1>2. QED
    BY <1>1, Invariance, PTL
=============================================================================
