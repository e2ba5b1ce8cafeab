---------------------------- MODULE MCMarketplace ----------------------------
(***************************************************************************)
(* Two orders that share a vendor, one of them with two vendors,           *)
(* a status update of each, and a payout request with two calls for it.    *)
(***************************************************************************)
EXTENDS Marketplace, TLC

CONSTANTS o1, o2, ann, bob, update1, update2, p1, call1, call2

MCOrders == {o1, o2}
MCVendors == {ann, bob}
MCVendorsOf == o1 :> {ann, bob} @@ o2 :> {ann}
MCUpdates == {update1, update2}
MCOrderOf == update1 :> o1 @@ update2 :> o2
MCPayouts == {p1}
MCCalls == {call1, call2}
MCWorth == [o \in MCOrders |-> [v \in MCVendors |-> 1]]
MCVendorOf == p1 :> ann
MCAmount == p1 :> 2
MCPayoutOf == [c \in MCCalls |-> p1]
=============================================================================
