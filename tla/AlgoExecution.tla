--------------------------- MODULE AlgoExecution ----------------------------
(***************************************************************************)
(* The algo execution service (algoexecutionservice.hpp), composed with    *)
(* the market data service that drives it.                                 *)
(*                                                                         *)
(* The service is the only listener of the market data service             *)
(* (main.cpp:57), and it is called synchronously: the step that publishes  *)
(* a book is also the step that decides on an order and hands it to the    *)
(* service's own listeners.                                                *)
(***************************************************************************)
EXTENDS MarketData

CONSTANTS
  Spread,   \* the spread field: 1/128 is 2 in units of 1/256
  Ids       \* what GenerateId may return

ASSUME SpreadAssumption == Spread \in Int

VARIABLES
  algoExecutions,  \* the service's executions, keyed on product
  algoCount,       \* count: orders sent so far
  orders           \* the orders handed to the listeners, oldest first

algoVars == <<algoExecutions, algoCount, orders>>
vars == <<marketDataVars, algoVars>>

OrderTypes == {"FOK", "IOC", "MARKET", "LIMIT", "STOP"}

QuotePrices == Prices \cup {o.price : o \in Indeterminate}
QuoteQuantities == Quantities \cup {o.quantity : o \in Indeterminate}

ExecutionOrder ==
  [product : KnownCusips, side : Sides, orderId : Ids, orderType : OrderTypes,
   price : QuotePrices, visibleQuantity : QuoteQuantities, hiddenQuantity : {0},
   parentOrderId : {""}, isChildOrder : BOOLEAN]

-----------------------------------------------------------------------------
AlgoInit ==
  /\ MarketDataInit
  /\ algoExecutions = EmptyMap
  /\ algoCount = 0
  /\ orders = <<>>

\* Mutant: the distance of the two quotes, whichever is ahead.
CrossesAbsolute(bid, offer) ==
  offer.price - bid.price <= Spread /\ bid.price - offer.price <= Spread

\* The market is tight enough to cross.
Crosses(bid, offer) == offer.price - bid.price <= Spread

\* Mutant: the order lifts the quote of the other side.
QuoteTakenOpposite(bid, offer) == IF algoCount % 2 = 0 THEN offer ELSE bid

\* Even turns take the best bid, odd turns the best offer.
QuoteTaken(bid, offer) == IF algoCount % 2 = 0 THEN bid ELSE offer

\* Mutant: the turn is read after count++.
TurnAfterIncrement == IF (algoCount + 1) % 2 = 0 THEN BID ELSE OFFER

Turn == IF algoCount % 2 = 0 THEN BID ELSE OFFER

\* Mutant: the quantity is hidden as well as visible.
OrderOnHidden(product, quote, id) ==
  [product |-> product, side |-> Turn, orderId |-> id, orderType |-> "MARKET",
   price |-> quote.price, visibleQuantity |-> quote.quantity,
   hiddenQuantity |-> quote.quantity, parentOrderId |-> "", isChildOrder |-> FALSE]

OrderOn(product, quote, id) ==
  [product |-> product, side |-> Turn, orderId |-> id, orderType |-> "MARKET",
   price |-> quote.price, visibleQuantity |-> quote.quantity,
   hiddenQuantity |-> 0, parentOrderId |-> "", isChildOrder |-> FALSE]

(***************************************************************************)
(* AlgoExecuteOrder, called with each book published.  The id is drawn     *)
(* before the spread is looked at.                                         *)
(***************************************************************************)
AlgoExecuteOrder(book) ==
  \E bid \in BestBid(book.bidStack), offer \in BestOffer(book.offerStack) :
    IF Crosses(bid, offer)
    THEN \E id \in Ids :
           LET order == OrderOn(book.product, QuoteTaken(bid, offer), id)
           IN  /\ algoCount' = algoCount + 1
               /\ algoExecutions' = Put(algoExecutions, book.product, order)
               /\ orders' = Append(orders, order)
    ELSE UNCHANGED algoVars

PublishAndExecute(line) ==
  /\ PublishBook(line)
  /\ AlgoExecuteOrder(ClosedBook(line))

\* The steps of Subscribe that call no listener.
OtherStep ==
  /\ \/ \E line \in Line : BufferLine(line) \/ UnknownCusip(line)
     \/ MalformedLine
     \/ EndOfFile
     \/ Stopped
  /\ UNCHANGED algoVars

AlgoNext ==
  \/ \E line \in Line : PublishAndExecute(line)
  \/ OtherStep

AlgoSpec == AlgoInit /\ [][AlgoNext]_vars

-----------------------------------------------------------------------------
\* Types; in particular no order sent or stored has a hidden quantity, and its
\* price is one that some quote, assigned or not, had.
AlgoTypeOK ==
  /\ MarketDataTypeOK
  /\ IsMap(algoExecutions, KnownCusips, ExecutionOrder)
  /\ algoCount \in Nat
  /\ orders \in Seq(ExecutionOrder)

\* Some bid and some offer of a book are within the spread.
Tight(book) ==
  \E i \in DOMAIN book.bidStack, j \in DOMAIN book.offerStack :
    book.offerStack[j].price - book.bidStack[i].price <= Spread

Publishes == PidOrderBooksMap' # PidOrderBooksMap

(***************************************************************************)
(* Once the book of any product is tight, every later book of every        *)
(* product is executed on.  AlgoExecuteOrder looks only at the book it is  *)
(* given, but the stacks behind all the books are shared and never         *)
(* emptied, so a quote that crossed once crosses for ever.                 *)
(***************************************************************************)
TightBookLatches ==
  [][(Publishes /\ \E p \in DOMAIN PidOrderBooksMap : Tight(PidOrderBooksMap[p]))
       => algoCount' = algoCount + 1]_vars

\* The feed's first window has orders on both sides, as the data files have.
FirstWindowTwoSided ==
  /\ \E i \in 1 .. Window : i <= Len(feed) /\ feed[i].side = BID
  /\ \E i \in 1 .. Window : i <= Len(feed) /\ feed[i].side = OFFER

\* The quotes an order on this side of the book may take.
BestOfSide(book, side) ==
  IF side = BID THEN BestBid(book.bidStack) ELSE BestOffer(book.offerStack)

(***************************************************************************)
(* The execution the service stores for a product is on the best quote of  *)
(* the book the market data service stores for it, with that quote's       *)
(* quantity: no book is published without replacing the execution made on  *)
(* an earlier one.  Two services' maps are compared; the claim needs the   *)
(* first window to be two-sided, because an indeterminate quote may cross  *)
(* where the market does not.                                              *)
(***************************************************************************)
ExecutionIsOnStoredBook ==
  FirstWindowTwoSided =>
    \A p \in DOMAIN algoExecutions :
      /\ p \in DOMAIN PidOrderBooksMap
      /\ \E q \in BestOfSide(PidOrderBooksMap[p], algoExecutions[p].side) :
           /\ algoExecutions[p].price = q.price
           /\ algoExecutions[p].visibleQuantity = q.quantity

(***************************************************************************)
(* The service implements AlgoOrders: one order at a time, sides           *)
(* alternating from BID across all products, through every interleaving of *)
(* products, one-sided books and aborted runs.                             *)
(***************************************************************************)
Abstract == INSTANCE AlgoOrders
ImplementsAlgoOrders == Abstract!AlgoOrdersSpec

=============================================================================
