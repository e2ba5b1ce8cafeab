------------------------------ MODULE MCRefund ------------------------------
(***************************************************************************)
(* Two refunds of one order, each by any method, and an update of its      *)
(* status.                                                                 *)
(***************************************************************************)
EXTENDS Refund, TLC

CONSTANTS alice, g1, o1, refund1, refund2, update1

MCUsers == {alice}
MCCards == {g1}
MCOrders == {o1}
MCRefunds == {refund1, refund2}
MCRequests == MCRefunds
MCUpdates == {update1}
MCOp == [r \in MCRequests |-> "credit"]
MCUserOf == [r \in MCRequests |-> alice]
MCCardOf == [r \in MCRequests |-> g1]
MCOrderOf == [q \in MCRefunds \cup MCUpdates |-> o1]
=============================================================================
