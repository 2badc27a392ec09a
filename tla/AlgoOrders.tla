----------------------------- MODULE AlgoOrders -----------------------------
(***************************************************************************)
(* What algoexecutionservice.hpp promises the services behind it, whatever *)
(* the market does: orders come one at a time, the first is a BID and the  *)
(* sides strictly alternate, and every order is a fully visible market     *)
(* order that is nobody's child.                                           *)
(***************************************************************************)
EXTENDS Integers, Sequences

CONSTANT ExecutionOrder   \* any order the service can send

VARIABLE orders           \* the orders handed to the listeners, oldest first

SideOfTurn(n) == IF n % 2 = 0 THEN "BID" ELSE "OFFER"

AlgoOrdersInit == orders = <<>>

SendOrder(o) ==
  /\ o.side = SideOfTurn(Len(orders))
  /\ o.hiddenQuantity = 0
  /\ orders' = Append(orders, o)

AlgoOrdersNext == \E o \in ExecutionOrder : SendOrder(o)

AlgoOrdersSpec == AlgoOrdersInit /\ [][AlgoOrdersNext]_orders

=============================================================================
