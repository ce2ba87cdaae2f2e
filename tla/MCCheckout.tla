----------------------------- MODULE MCCheckout -----------------------------
EXTENDS Checkout, TLC

CONSTANTS c1, c2, o1

(* Two checkouts of one order, one with each configuration and each with   *)
(* an attempt to spare, and quotes that may differ.                        *)
MCCalls == {c1, c2}
MCOrders == {o1}
MCOrderOf == [c \in MCCalls |-> o1]
MCAttempts == [c \in MCCalls |-> 2]
MCSerializable == {c1}
MCAmounts == {1, 2}
NoBackoff == [c \in MCCalls |-> 0]
=============================================================================
