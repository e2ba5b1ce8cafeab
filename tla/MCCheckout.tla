----------------------------- MODULE MCCheckout -----------------------------
(***************************************************************************)
(* A cart of two lines from two warehouses: two checkouts, one of them     *)
(* paid outside, that race with additions to the cart, and requests of     *)
(* every other method.                                                     *)
(***************************************************************************)
EXTENDS Checkout, TLC

CONSTANTS apple, book, w1, w2, c1, c2, c3, c4, c5

MCLines == {apple, book}
MCWarehouses == {w1, w2}
MCWarehouseOf == apple :> w1 @@ book :> w2
MCPrice == apple :> 1 @@ book :> 3
MCRequests == {c1, c2, c3, c4, c5}
Plan(a, b, c, d, e) == c1 :> a @@ c2 :> b @@ c3 :> c @@ c4 :> d @@ c5 :> e
MCPlans == {
  Plan("add", "add", "get", "checkout", "checkout"),
  Plan("add", "add", "remove", "checkout", "get"),
  Plan("add", "add", "update", "clear", "get")}
MCLineOf == [r \in MCRequests |-> IF r = c1 THEN apple ELSE book]
MCQty == [r \in MCRequests |-> IF r = c3 THEN 2 ELSE 1]
MCExternal == {c4}
=============================================================================
