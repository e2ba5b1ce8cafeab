------------------------------ MODULE MCWallet ------------------------------
(***************************************************************************)
(* Two redemptions of one card by two users, and two store credits that    *)
(* meet one of them in the same user's wallet; the other user asks for the *)
(* balance meanwhile.                                                      *)
(***************************************************************************)
EXTENDS Wallet, TLC

CONSTANTS alice, bob, g1, redeem1, redeem2, credit1, credit2, balance1

MCUsers == {alice, bob}
MCCards == {g1}
MCRequests == {redeem1, redeem2, credit1, credit2, balance1}
MCOp == redeem1 :> "redeem" @@ redeem2 :> "redeem" @@ credit1 :> "credit"
        @@ credit2 :> "credit" @@ balance1 :> "balance"
MCUserOf == redeem1 :> alice @@ redeem2 :> bob @@ credit1 :> alice
            @@ credit2 :> alice @@ balance1 :> bob
MCCardOf == [r \in MCRequests |-> g1]

\* The two credits differ in nothing but their names.
MCSymmetry == Permutations({credit1, credit2})
=============================================================================
