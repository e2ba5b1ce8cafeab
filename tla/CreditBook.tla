----------------------------- MODULE CreditBook -----------------------------
(***************************************************************************)
(* What the wallet promises, with no locks, transactions or failures: a    *)
(* book of the credits that have been applied and of the gift cards that   *)
(* have been used up.  A credit is applied at most once and is never lost; *)
(* a card is used up in the very step that credits its value.              *)
(***************************************************************************)
CONSTANTS
  Credits,   \* requests that put money into a wallet
  Cards      \* gift cards

VARIABLES
  credited,  \* the credits applied so far
  redeemed   \* the cards used up so far

bookVars == <<credited, redeemed>>

BookInit == credited = {} /\ redeemed = {}

\* A store credit (a refund, an adjustment) is applied.
Credit(r) ==
  /\ r \notin credited
  /\ credited' = credited \cup {r}
  /\ UNCHANGED redeemed

\* A card's value is credited, and in the same step the card is used up.
Redeem(r, c) ==
  /\ r \notin credited
  /\ credited' = credited \cup {r}
  /\ redeemed' = redeemed \cup {c}

BookNext == \E r \in Credits : Credit(r) \/ \E c \in Cards : Redeem(r, c)

BookSpec == BookInit /\ [][BookNext]_bookVars
=============================================================================
