--------------------------- MODULE ExecutionFlow ----------------------------
(***************************************************************************)
(* The algo execution service feeding the services behind it               *)
(* (main.cpp:58-59).  Of the algo execution service only what AlgoOrders   *)
(* promises is used: the module AlgoExecution implements it.  Both keep a  *)
(* counter of their own, the algo execution service to choose the side of  *)
(* an order and the trade booking listener to choose the book of a trade,  *)
(* and both start from zero in every run of the program.                   *)
(***************************************************************************)
EXTENDS Booking

Algo == INSTANCE AlgoOrders WITH orders <- executed

\* The order is sent and the first handler behind the service takes it.
AlgoExecutes(o) == Algo!SendOrder(o) /\ ExecuteOrder(o)

FlowNext == OtherStep \/ \E o \in ExecutionOrder : AlgoExecutes(o)

FlowSpec == BookingInit /\ [][FlowNext]_bookingVars /\ WF_bookingVars(Handler)

-----------------------------------------------------------------------------
\* The i-th trade that this run booked for an execution.
AlgoTrade(i) == booked[Len(booked) - tradeCount + i].trade

(***************************************************************************)
(* The two counters, taken modulo 2 and modulo 3 in two services, never    *)
(* drift apart: algo trades go to the three books in turn, and the trade   *)
(* that follows another in the same book is on the opposite side.  So no   *)
(* book accumulates algo trades of one side, whatever the market does.     *)
(***************************************************************************)
BooksAlternate ==
  \A i, j \in 1 .. tradeCount :
    /\ j \in {i + 1, i + 2} => AlgoTrade(i).book # AlgoTrade(j).book
    /\ j = i + 3 =>
         /\ AlgoTrade(i).book = AlgoTrade(j).book
         /\ AlgoTrade(i).side # AlgoTrade(j).side

=============================================================================
