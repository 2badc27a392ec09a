----------------------------- MODULE MarketData -----------------------------
(***************************************************************************)
(* The market data service and its connector (marketdataservice.hpp).      *)
(*                                                                         *)
(* MarketDataConnector::Subscribe reads one order per line into two local  *)
(* stacks.  Every 2 * bookDepth lines it builds an order book from the two *)
(* stacks, for the product named on the line that completed the window,    *)
(* and hands it to MarketDataService::OnMessage.  The stacks are declared  *)
(* before the loop and nothing empties them.                               *)
(*                                                                         *)
(* One action is one iteration of the loop, with everything it calls.      *)
(* Prices are integers: on the wire they are multiples of 1/256.           *)
(***************************************************************************)
EXTENDS Integers, Sequences, Maps

CONSTANTS
  Cusips,         \* identifiers a line may carry
  KnownCusips,    \* the keys of bondCreatorMap
  Prices,
  Quantities,
  Indeterminate,  \* what an Order object nobody assigned may read as
  bookDepth,
  MaxLines        \* bound: lines in the file

BID   == "BID"
OFFER == "OFFER"
Sides == {BID, OFFER}

\* A line of the file, and the Order it is parsed into, which keeps no CUSIP.
Line  == [cusip : Cusips, price : Prices, quantity : Quantities, side : Sides]
Order == [price : Prices, quantity : Quantities, side : Sides]

OrderOf(line) ==
  [price |-> line.price, quantity |-> line.quantity, side |-> line.side]

OrderBook ==
  [product : KnownCusips, bidStack : Seq(Order), offerStack : Seq(Order)]

ASSUME CusipAssumption == KnownCusips \subseteq Cusips
ASSUME PriceAssumption == Prices \subseteq Int /\ Quantities \subseteq Int
ASSUME DepthAssumption == bookDepth \in Nat \ {0}
ASSUME IndeterminateAssumption ==
  Indeterminate \subseteq [price : Int, quantity : Int, side : Sides]

VARIABLES
  status,            \* "reading", "done" at end of file, "terminated" by an exception
  lineCount,         \* count in Subscribe
  bidStack,          \* the two vectors in Subscribe
  offerStack,
  PidOrderBooksMap,  \* the service's books, keyed on product
  feed               \* history, read by properties only: the lines read so far

marketDataVars ==
  <<status, lineCount, bidStack, offerStack, PidOrderBooksMap, feed>>

-----------------------------------------------------------------------------
(***************************************************************************)
(* OrderBook::GetBidOffer.  Each loop keeps the first order with a         *)
(* strictly better price.  On an empty stack the Order it returns was      *)
(* default-initialised: its fields are indeterminate.                      *)
(***************************************************************************)
IsBestBid(stack, i) ==
  /\ \A j \in DOMAIN stack : stack[j].price <= stack[i].price
  /\ \A j \in DOMAIN stack : j < i => stack[j].price < stack[i].price

IsBestOffer(stack, i) ==
  /\ \A j \in DOMAIN stack : stack[j].price >= stack[i].price
  /\ \A j \in DOMAIN stack : j < i => stack[j].price > stack[i].price

BestBid(stack) ==
  IF stack = <<>> THEN Indeterminate
  ELSE {stack[i] : i \in {j \in DOMAIN stack : IsBestBid(stack, j)}}

BestOffer(stack) ==
  IF stack = <<>> THEN Indeterminate
  ELSE {stack[i] : i \in {j \in DOMAIN stack : IsBestOffer(stack, j)}}

(***************************************************************************)
(* The same two loops as they run: best[i] is the index of bestBidOrder    *)
(* (bestOfferOrder) after i iterations, 0 while it is not assigned.        *)
(***************************************************************************)
Scan(stack, Better(_, _)) ==
  LET best[i \in 0 .. Len(stack)] ==
        IF i = 0 THEN 0
        ELSE IF best[i-1] = 0 \/ Better(stack[i].price, stack[best[i-1]].price)
             THEN i
             ELSE best[i-1]
  IN  best[Len(stack)]

\* Mutant: an order at the best price seen so far replaces it.
ScanBidsLast(stack) == Scan(stack, LAMBDA p, q : p >= q)

ScanBids(stack) == Scan(stack, LAMBDA p, q : p > q)

ScanOffers(stack) == Scan(stack, LAMBDA p, q : p < q)

-----------------------------------------------------------------------------
MarketDataInit ==
  /\ status = "reading"
  /\ lineCount = 0
  /\ bidStack = <<>>
  /\ offerStack = <<>>
  /\ PidOrderBooksMap = EmptyMap
  /\ feed = <<>>

\* A line is parsed into an order, pushed on the stack of its side, counted.
Push(line) ==
  /\ status = "reading"
  /\ lineCount < MaxLines
  /\ lineCount' = lineCount + 1
  /\ IF line.side = BID
     THEN bidStack' = Append(bidStack, OrderOf(line)) /\ UNCHANGED offerStack
     ELSE offerStack' = Append(offerStack, OrderOf(line)) /\ UNCHANGED bidStack
  /\ feed' = Append(feed, line)

Window == 2 * bookDepth

\* The line about to be read completes a window.
WindowCloses == (lineCount + 1) % Window = 0

BufferLine(line) ==
  /\ ~ WindowCloses
  /\ Push(line)
  /\ UNCHANGED <<status, PidOrderBooksMap>>

\* Mutant: the book is built before the closing order is pushed.
ClosedBookEarly(line) ==
  [product |-> line.cusip, bidStack |-> bidStack, offerStack |-> offerStack]

\* The book built when the window closes: the stacks are those after Push.
ClosedBook(line) ==
  [product |-> line.cusip, bidStack |-> bidStack', offerStack |-> offerStack']

\* The window closes, and MarketDataService::OnMessage stores the book.
PublishBook(line) ==
  /\ WindowCloses
  /\ line.cusip \in KnownCusips
  /\ Push(line)
  /\ PidOrderBooksMap' = Put(PidOrderBooksMap, line.cusip, ClosedBook(line))
  /\ UNCHANGED status

\* GetBond throws on an unknown CUSIP and nothing catches.  It is asked only
\* about the line that closes a window: no other line's CUSIP is looked at.
UnknownCusip(line) ==
  /\ WindowCloses
  /\ line.cusip \notin KnownCusips
  /\ Push(line)
  /\ status' = "terminated"
  /\ UNCHANGED PidOrderBooksMap

\* ConvertPrice or stol throws on a cell it cannot parse, before the push.
MalformedLine ==
  /\ status = "reading"
  /\ lineCount < MaxLines
  /\ status' = "terminated"
  /\ UNCHANGED <<lineCount, bidStack, offerStack, PidOrderBooksMap, feed>>

\* Orders of a window that is not complete stay in the stacks, unpublished.
EndOfFile ==
  /\ status = "reading"
  /\ status' = "done"
  /\ UNCHANGED <<lineCount, bidStack, offerStack, PidOrderBooksMap, feed>>

Stopped ==
  /\ status # "reading"
  /\ UNCHANGED marketDataVars

ReadLine(line) == BufferLine(line) \/ PublishBook(line) \/ UnknownCusip(line)

MarketDataNext ==
  \/ \E line \in Line : ReadLine(line)
  \/ MalformedLine
  \/ EndOfFile
  \/ Stopped

MarketDataSpec == MarketDataInit /\ [][MarketDataNext]_marketDataVars

(***************************************************************************)
(* The same program on a feed like data/marketdata.txt: every window of    *)
(* 2 * bookDepth lines is about one product.                               *)
(***************************************************************************)
SameProductAsWindow(line) ==
  LET position == lineCount % Window
  IN  position # 0 => line.cusip = feed[lineCount - position + 1].cusip

AlignedNext ==
  \/ \E line \in Line : SameProductAsWindow(line) /\ ReadLine(line)
  \/ EndOfFile
  \/ Stopped

AlignedSpec == MarketDataInit /\ [][AlignedNext]_marketDataVars

-----------------------------------------------------------------------------
\* Types; in particular no book is kept for a product GetBond does not know,
\* although every CUSIP of the feed may be in the stacks.
MarketDataTypeOK ==
  /\ status \in {"reading", "done", "terminated"}
  /\ lineCount \in Nat
  /\ bidStack \in Seq(Order)
  /\ offerStack \in Seq(Order)
  /\ IsMap(PidOrderBooksMap, KnownCusips, OrderBook)
  /\ feed \in Seq(Line)

\* The orders of one side among the first n lines of the feed.
SideOfFeed(n, side) ==
  LET ofFirst[k \in 0 .. n] ==
        IF k = 0 THEN <<>>
        ELSE IF feed[k].side = side THEN Append(ofFirst[k-1], OrderOf(feed[k]))
             ELSE ofFirst[k-1]
  IN  ofFirst[n]

\* The lines that closed a window for product p.
Closings(p) == {n \in 1 .. lineCount : n % Window = 0 /\ feed[n].cusip = p}

(***************************************************************************)
(* The book stored for a product holds the whole feed, both sides in       *)
(* arrival order, up to and including the last line that closed a window   *)
(* for that product, and no product is without a book once a window closed *)
(* on it: OnMessage loses no window and publishes none early.              *)
(***************************************************************************)
BookIsFeedUpToLastClosing ==
  \A p \in KnownCusips :
    /\ p \in DOMAIN PidOrderBooksMap <=> Closings(p) # {}
    /\ p \in DOMAIN PidOrderBooksMap =>
         \E n \in Closings(p) :
           /\ \A m \in Closings(p) : m <= n
           /\ PidOrderBooksMap[p] = [product    |-> p,
                                     bidStack   |-> SideOfFeed(n, BID),
                                     offerStack |-> SideOfFeed(n, OFFER)]

(***************************************************************************)
(* GetBidOffer respects price, then time: the order its two loops end on   *)
(* is unbeaten in price and was the first to arrive at that price.         *)
(***************************************************************************)
BestHasPriceTimePriority ==
  \A p \in DOMAIN PidOrderBooksMap :
    LET book == PidOrderBooksMap[p]
    IN  /\ book.bidStack # <<>> =>
             BestBid(book.bidStack) = {book.bidStack[ScanBids(book.bidStack)]}
        /\ book.offerStack # <<>> =>
             BestOffer(book.offerStack) = {book.offerStack[ScanOffers(book.offerStack)]}

(***************************************************************************)
(* "Market Data Service which distributes market data / Keyed on product   *)
(* identifier" (marketdataservice.hpp:125-126): a product's book has no    *)
(* more orders than the feed has lines for that product.                   *)
(***************************************************************************)
BookHoldsOnlyItsProduct ==
  \A p \in DOMAIN PidOrderBooksMap :
    Len(PidOrderBooksMap[p].bidStack) + Len(PidOrderBooksMap[p].offerStack)
      <= Len(SelectSeq(feed, LAMBDA l : l.cusip = p))

=============================================================================
