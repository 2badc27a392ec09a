------------------------ MODULE AlgoExecution_proofs ------------------------
(***************************************************************************)
(* Theorems about AlgoExecution, for every set of products, prices and     *)
(* quantities, every book depth, every spread and every bound.             *)
(***************************************************************************)
EXTENDS AlgoExecution, SequenceTheorems, Induction_proofs

-----------------------------------------------------------------------------
(* Helpers. *)

\* Writing a key of a map keeps the map's type.
LEMMA PutIsMap ==
  ASSUME NEW K, NEW V, NEW map, IsMap(map, K, V), NEW k \in K, NEW v \in V
  PROVE  IsMap(Put(map, k, v), K, V)
BY DEF IsMap, Put

\* A window closes on a positive multiple of its length.
LEMMA ClosingPosition ==
  ASSUME NEW n \in Nat \ {0}, NEW w \in Nat \ {0}, n % w = 0
  PROVE  w <= n
BY SMT

\* A line of the feed is parsed into an order.
LEMMA OrderOfType == ASSUME NEW line \in Line PROVE OrderOf(line) \in Order
BY DEF OrderOf, Line, Order

\* An order, assigned or not, has a price and a quantity an execution can have.
LEMMA QuoteType ==
  ASSUME NEW q \in Order \cup Indeterminate
  PROVE  /\ q.price \in QuotePrices /\ q.price \in Int
         /\ q.quantity \in QuoteQuantities
<1>1. CASE q \in Order
  BY <1>1, PriceAssumption DEF Order, QuotePrices, QuoteQuantities
<1>2. CASE q \in Indeterminate
  <2>1. q \in [price : Int, quantity : Int, side : Sides]
    BY <1>2, IndeterminateAssumption
  <2>2. q.price \in {o.price : o \in Indeterminate}
    BY <1>2
  <2>3. q.quantity \in {o.quantity : o \in Indeterminate}
    BY <1>2
  <2> QED
    BY <2>1, <2>2, <2>3 DEF QuotePrices, QuoteQuantities
<1> QED
  BY <1>1, <1>2

\* What GetBidOffer returns for the bids: an unbeaten order of the stack, or,
\* when the stack is empty, an order nobody assigned.
LEMMA BestBidIsBest ==
  ASSUME NEW stack \in Seq(Order), NEW q \in BestBid(stack)
  PROVE  /\ q \in Order \cup Indeterminate
         /\ \A j \in 1 .. Len(stack) : stack[j].price <= q.price
         /\ stack # <<>> => \E i \in 1 .. Len(stack) : q = stack[i]
<1>1. CASE stack = <<>>
  BY <1>1 DEF BestBid
<1>2. CASE stack # <<>>
  <2>1. q \in {stack[i] : i \in {j \in DOMAIN stack : IsBestBid(stack, j)}}
    BY <1>2 DEF BestBid
  <2>2. PICK i \in DOMAIN stack : IsBestBid(stack, i) /\ q = stack[i]
    BY <2>1
  <2> QED
    BY <2>2 DEF IsBestBid
<1> QED
  BY <1>1, <1>2

LEMMA BestOfferIsBest ==
  ASSUME NEW stack \in Seq(Order), NEW q \in BestOffer(stack)
  PROVE  /\ q \in Order \cup Indeterminate
         /\ \A j \in 1 .. Len(stack) : stack[j].price >= q.price
         /\ stack # <<>> => \E i \in 1 .. Len(stack) : q = stack[i]
<1>1. CASE stack = <<>>
  BY <1>1 DEF BestOffer
<1>2. CASE stack # <<>>
  <2>1. q \in {stack[i] : i \in {j \in DOMAIN stack : IsBestOffer(stack, j)}}
    BY <1>2 DEF BestOffer
  <2>2. PICK i \in DOMAIN stack : IsBestOffer(stack, i) /\ q = stack[i]
    BY <2>1
  <2> QED
    BY <2>2 DEF IsBestOffer
<1> QED
  BY <1>1, <1>2

\* The order AlgoExecuteOrder builds is one the service can send.
LEMMA OrderOnType ==
  ASSUME NEW product \in KnownCusips, NEW id \in Ids, NEW quote,
         quote.price \in QuotePrices, quote.quantity \in QuoteQuantities
  PROVE  OrderOn(product, quote, id) \in ExecutionOrder
BY DEF OrderOn, ExecutionOrder, Turn, Sides, BID, OFFER, OrderTypes

-----------------------------------------------------------------------------
(* Type correctness. *)

\* t extends s.
Extends(s, t) == Len(s) <= Len(t) /\ \A i \in 1 .. Len(s) : t[i] = s[i]

\* One iteration of Subscribe adds to one stack and takes nothing away.
LEMMA PushFacts ==
  ASSUME MarketDataTypeOK, NEW line \in Line, Push(line)
  PROVE  /\ lineCount' \in Nat /\ feed' \in Seq(Line)
         /\ bidStack' \in Seq(Order) /\ offerStack' \in Seq(Order)
         /\ Extends(bidStack, bidStack') /\ Extends(offerStack, offerStack')
         /\ ClosedBook(line).bidStack = bidStack'
         /\ ClosedBook(line).offerStack = offerStack'
         /\ ClosedBook(line).product = line.cusip
<1>1. lineCount' \in Nat /\ feed' \in Seq(Line)
  BY DEF Push, MarketDataTypeOK
<1>2. OrderOf(line) \in Order
  BY OrderOfType
<1>3. CASE line.side = BID
  <2>1. bidStack' = Append(bidStack, OrderOf(line)) /\ offerStack' = offerStack
    BY <1>3 DEF Push
  <2>2. bidStack \in Seq(Order) /\ offerStack \in Seq(Order)
    BY DEF MarketDataTypeOK
  <2>3. bidStack' \in Seq(Order) /\ Extends(bidStack, bidStack')
    BY <1>2, <2>1, <2>2, AppendProperties DEF Extends
  <2>4. offerStack' \in Seq(Order) /\ Extends(offerStack, offerStack')
    BY <2>1, <2>2 DEF Extends
  <2> QED
    BY <1>1, <2>3, <2>4 DEF ClosedBook
<1>4. CASE line.side # BID
  <2>1. offerStack' = Append(offerStack, OrderOf(line)) /\ bidStack' = bidStack
    BY <1>4 DEF Push
  <2>2. offerStack \in Seq(Order) /\ bidStack \in Seq(Order)
    BY DEF MarketDataTypeOK
  <2>3. offerStack' \in Seq(Order) /\ Extends(offerStack, offerStack')
    BY <1>2, <2>1, <2>2, AppendProperties DEF Extends
  <2>4. bidStack' \in Seq(Order) /\ Extends(bidStack, bidStack')
    BY <2>1, <2>2 DEF Extends
  <2> QED
    BY <1>1, <2>3, <2>4 DEF ClosedBook
<1> QED
  BY <1>3, <1>4

LEMMA PublishBookType ==
  ASSUME MarketDataTypeOK, NEW line \in Line, PublishBook(line)
  PROVE  MarketDataTypeOK'
<1>1. line.cusip \in KnownCusips /\ Push(line)
  BY DEF PublishBook
<1>2. ClosedBook(line) \in OrderBook
  BY <1>1, PushFacts DEF ClosedBook, OrderBook
<1>3. IsMap(PidOrderBooksMap', KnownCusips, OrderBook)
  BY <1>1, <1>2, PutIsMap DEF PublishBook, MarketDataTypeOK
<1>4. status' = status
  BY DEF PublishBook
<1> QED
  BY <1>1, <1>3, <1>4, PushFacts DEF MarketDataTypeOK

LEMMA OtherStepType ==
  ASSUME MarketDataTypeOK, OtherStep
  PROVE  MarketDataTypeOK'
<1>1. CASE \E line \in Line : BufferLine(line) \/ UnknownCusip(line)
  <2>1. PICK line \in Line : BufferLine(line) \/ UnknownCusip(line)
    BY <1>1
  <2>2. Push(line) /\ PidOrderBooksMap' = PidOrderBooksMap
    BY <2>1 DEF BufferLine, UnknownCusip
  <2>3. status' \in {"reading", "done", "terminated"}
    BY <2>1 DEF BufferLine, UnknownCusip, MarketDataTypeOK
  <2> QED
    BY <2>2, <2>3, PushFacts DEF MarketDataTypeOK
<1>2. CASE MalformedLine \/ EndOfFile
  BY <1>2 DEF MalformedLine, EndOfFile, MarketDataTypeOK
<1>3. CASE Stopped
  BY <1>3 DEF Stopped, marketDataVars, MarketDataTypeOK
<1> QED
  BY <1>1, <1>2, <1>3 DEF OtherStep

\* The two outcomes of AlgoExecuteOrder, with the types of what it writes.
LEMMA ExecuteFacts ==
  ASSUME AlgoTypeOK, NEW line \in Line, PublishAndExecute(line)
  PROVE  \E bid \in BestBid(bidStack'), offer \in BestOffer(offerStack') :
           \/ /\ offer.price - bid.price <= Spread
              /\ \E id \in Ids :
                   LET order == OrderOn(line.cusip, QuoteTaken(bid, offer), id)
                   IN  /\ order \in ExecutionOrder
                       /\ algoCount' = algoCount + 1
                       /\ algoExecutions' = Put(algoExecutions, line.cusip, order)
                       /\ orders' = Append(orders, order)
           \/ /\ ~ (offer.price - bid.price <= Spread)
              /\ UNCHANGED algoVars
<1>1. line.cusip \in KnownCusips /\ Push(line) /\ MarketDataTypeOK
  BY DEF PublishAndExecute, PublishBook, AlgoTypeOK
<1>2. PICK bid \in BestBid(bidStack'), offer \in BestOffer(offerStack') :
        IF Crosses(bid, offer)
        THEN \E id \in Ids :
               LET order == OrderOn(line.cusip, QuoteTaken(bid, offer), id)
               IN  /\ algoCount' = algoCount + 1
                   /\ algoExecutions' = Put(algoExecutions, line.cusip, order)
                   /\ orders' = Append(orders, order)
        ELSE UNCHANGED algoVars
  BY <1>1, PushFacts DEF PublishAndExecute, AlgoExecuteOrder
<1>3. bid \in Order \cup Indeterminate /\ offer \in Order \cup Indeterminate
  BY <1>1, PushFacts, BestBidIsBest, BestOfferIsBest
<1>4. /\ QuoteTaken(bid, offer).price \in QuotePrices
      /\ QuoteTaken(bid, offer).quantity \in QuoteQuantities
  BY <1>3, QuoteType DEF QuoteTaken
<1>5. \A id \in Ids :
        OrderOn(line.cusip, QuoteTaken(bid, offer), id) \in ExecutionOrder
  BY <1>1, <1>4, OrderOnType
<1> QED
  BY <1>2, <1>5 DEF Crosses

LEMMA AlgoTypeStep ==
  ASSUME AlgoTypeOK, [AlgoNext]_vars
  PROVE  AlgoTypeOK'
<1>1. ASSUME NEW line \in Line, PublishAndExecute(line)
      PROVE  AlgoTypeOK'
  <2>1. MarketDataTypeOK'
    BY <1>1, PublishBookType DEF PublishAndExecute, AlgoTypeOK
  <2>2. line.cusip \in KnownCusips
    BY <1>1 DEF PublishAndExecute, PublishBook
  <2>3. CASE UNCHANGED algoVars
    BY <2>1, <2>3 DEF algoVars, AlgoTypeOK
  <2>4. CASE \E order \in ExecutionOrder :
               /\ algoCount' = algoCount + 1
               /\ algoExecutions' = Put(algoExecutions, line.cusip, order)
               /\ orders' = Append(orders, order)
    BY <2>1, <2>2, <2>4, PutIsMap, AppendProperties DEF AlgoTypeOK
  <2> QED
    BY <1>1, <2>3, <2>4, ExecuteFacts
<1>2. CASE OtherStep
  BY <1>2, OtherStepType DEF OtherStep, algoVars, AlgoTypeOK
<1>3. CASE UNCHANGED vars
  BY <1>3 DEF vars, marketDataVars, algoVars, AlgoTypeOK, MarketDataTypeOK
<1> QED
  BY <1>1, <1>2, <1>3 DEF AlgoNext

(***************************************************************************)
(* Every variable of the market data and algo execution services keeps its *)
(* type; in particular a stored execution is always on a product           *)
(* bondCreatorMap knows, at a price some quote had.                        *)
(***************************************************************************)
THEOREM AlgoTypeCorrect == AlgoSpec => []AlgoTypeOK
<1>1. AlgoInit => AlgoTypeOK
  BY DEF AlgoInit, MarketDataInit, AlgoTypeOK, MarketDataTypeOK, IsMap, EmptyMap
<1>2. AlgoTypeOK /\ [AlgoNext]_vars => AlgoTypeOK'
  BY AlgoTypeStep
<1> QED
  BY <1>1, <1>2, PTL DEF AlgoSpec

-----------------------------------------------------------------------------
(***************************************************************************)
(* The inductive invariant.  Its heart is that every stored book is a      *)
(* prefix of the stacks of Subscribe, whatever its product: that is what   *)
(* makes a quote that crossed in one book cross in all the later ones.     *)
(***************************************************************************)
BooksArePrefixes ==
  \A p \in DOMAIN PidOrderBooksMap :
    /\ Extends(PidOrderBooksMap[p].bidStack, bidStack)
    /\ Extends(PidOrderBooksMap[p].offerStack, offerStack)

\* The two counters count what they say, and a book takes a whole window.
Counters ==
  /\ lineCount = Len(feed)
  /\ algoCount = Len(orders)
  /\ DOMAIN PidOrderBooksMap # {} => Window <= Len(feed)

\* A line read is in the stack of its side.
LinesAreStacked ==
  /\ (\E i \in 1 .. Len(feed) : feed[i].side = BID) => Len(bidStack) > 0
  /\ (\E i \in 1 .. Len(feed) : feed[i].side = OFFER) => Len(offerStack) > 0

\* An execution is made on a book that was stored first.
ExecutionsHaveBooks == DOMAIN algoExecutions \subseteq DOMAIN PidOrderBooksMap

\* The book an execution was made on crossed.
ExecutedBooksAreTight ==
  FirstWindowTwoSided =>
    \A p \in DOMAIN algoExecutions : Tight(PidOrderBooksMap[p])

AlgoInv ==
  /\ AlgoTypeOK
  /\ BooksArePrefixes
  /\ Counters
  /\ LinesAreStacked
  /\ ExecutionsHaveBooks
  /\ ExecutedBooksAreTight
  /\ ExecutionIsOnStoredBook

-----------------------------------------------------------------------------
(* Tightness of two stacks, and how it relates to the best quotes. *)

StacksTight(bids, offers) ==
  \E i \in 1 .. Len(bids), j \in 1 .. Len(offers) :
    offers[j].price - bids[i].price <= Spread

LEMMA OrderPrices ==
  ASSUME NEW stack \in Seq(Order), NEW i \in 1 .. Len(stack)
  PROVE  stack[i].price \in Int
<1>1. stack[i] \in Order
  OBVIOUS
<1> QED
  BY <1>1, PriceAssumption DEF Order

\* A stack that grows keeps the pair that crossed.
LEMMA TightnessSurvivesGrowth ==
  ASSUME NEW bids \in Seq(Order), NEW offers \in Seq(Order),
         NEW bids2 \in Seq(Order), NEW offers2 \in Seq(Order),
         Extends(bids, bids2), Extends(offers, offers2),
         StacksTight(bids, offers)
  PROVE  StacksTight(bids2, offers2)
BY DEF Extends, StacksTight

\* If any pair crosses, the pair of best quotes does.
LEMMA TightStacksCross ==
  ASSUME NEW bids \in Seq(Order), NEW offers \in Seq(Order),
         StacksTight(bids, offers),
         NEW bid \in BestBid(bids), NEW offer \in BestOffer(offers)
  PROVE  offer.price - bid.price <= Spread
<1>1. PICK i \in 1 .. Len(bids), j \in 1 .. Len(offers) :
        offers[j].price - bids[i].price <= Spread
  BY DEF StacksTight
<1>2. bids[i].price <= bid.price /\ offers[j].price >= offer.price
  BY BestBidIsBest, BestOfferIsBest
<1>3. /\ bids[i].price \in Int /\ offers[j].price \in Int
      /\ bid.price \in Int /\ offer.price \in Int
  BY OrderPrices, BestBidIsBest, BestOfferIsBest, QuoteType
<1> QED
  BY <1>1, <1>2, <1>3, SpreadAssumption

\* On two stacks with orders, the best quotes are a pair of their orders.
LEMMA CrossingStacksAreTight ==
  ASSUME NEW bids \in Seq(Order), NEW offers \in Seq(Order),
         Len(bids) > 0, Len(offers) > 0,
         NEW bid \in BestBid(bids), NEW offer \in BestOffer(offers),
         offer.price - bid.price <= Spread
  PROVE  StacksTight(bids, offers)
<1>1. bids # <<>> /\ offers # <<>>
  OBVIOUS
<1>2. PICK i \in 1 .. Len(bids) : bid = bids[i]
  BY <1>1, BestBidIsBest
<1>3. PICK j \in 1 .. Len(offers) : offer = offers[j]
  BY <1>1, BestOfferIsBest
<1> QED
  BY <1>2, <1>3 DEF StacksTight

LEMMA TightIsStacksTight ==
  ASSUME NEW book \in OrderBook
  PROVE  Tight(book) <=> StacksTight(book.bidStack, book.offerStack)
<1>1. /\ DOMAIN book.bidStack = 1 .. Len(book.bidStack)
      /\ DOMAIN book.offerStack = 1 .. Len(book.offerStack)
  BY DEF OrderBook
<1> QED
  BY <1>1 DEF Tight, StacksTight

\* A stored book is an order book, and it fits in the stacks.
LEMMA StoredBook ==
  ASSUME MarketDataTypeOK, BooksArePrefixes, NEW p \in DOMAIN PidOrderBooksMap
  PROVE  /\ PidOrderBooksMap[p] \in OrderBook
         /\ PidOrderBooksMap[p].bidStack \in Seq(Order)
         /\ PidOrderBooksMap[p].offerStack \in Seq(Order)
         /\ Extends(PidOrderBooksMap[p].bidStack, bidStack)
         /\ Extends(PidOrderBooksMap[p].offerStack, offerStack)
<1>1. PidOrderBooksMap[p] \in OrderBook
  BY DEF MarketDataTypeOK, IsMap
<1> QED
  BY <1>1 DEF OrderBook, BooksArePrefixes

LEMMA ExtendsTransitive ==
  ASSUME NEW S, NEW s \in Seq(S), NEW t \in Seq(S), NEW u \in Seq(S),
         Extends(s, t), Extends(t, u)
  PROVE  Extends(s, u)
BY DEF Extends

\* After the step that publishes a book, a book that was tight before makes
\* the new stacks tight.
LEMMA TightBookTightensStacks ==
  ASSUME AlgoTypeOK, BooksArePrefixes, NEW line \in Line, Push(line),
         NEW p \in DOMAIN PidOrderBooksMap, Tight(PidOrderBooksMap[p])
  PROVE  StacksTight(bidStack', offerStack')
<1> DEFINE book == PidOrderBooksMap[p]
<1>1. MarketDataTypeOK /\ bidStack \in Seq(Order) /\ offerStack \in Seq(Order)
  BY DEF AlgoTypeOK, MarketDataTypeOK
<1>2. /\ StacksTight(book.bidStack, book.offerStack)
      /\ book.bidStack \in Seq(Order) /\ book.offerStack \in Seq(Order)
      /\ Extends(book.bidStack, bidStack) /\ Extends(book.offerStack, offerStack)
  BY <1>1, StoredBook, TightIsStacksTight
<1>3. /\ bidStack' \in Seq(Order) /\ offerStack' \in Seq(Order)
      /\ Extends(bidStack, bidStack') /\ Extends(offerStack, offerStack')
  BY <1>1, PushFacts
<1>4. StacksTight(bidStack, offerStack)
  BY <1>1, <1>2, TightnessSurvivesGrowth
<1> QED
  BY <1>1, <1>3, <1>4, TightnessSurvivesGrowth

-----------------------------------------------------------------------------
(* The invariant is inductive. *)

\* A step that pushes a line, whatever else it does.
LEMMA PushKeepsLinesStacked ==
  ASSUME AlgoInv, NEW line \in Line, Push(line)
  PROVE  /\ LinesAreStacked'
         /\ lineCount' = Len(feed')
         /\ Len(feed') = Len(feed) + 1
         /\ \A i \in 1 .. Len(feed) : feed'[i] = feed[i]
<1>1. /\ feed \in Seq(Line) /\ bidStack \in Seq(Order) /\ offerStack \in Seq(Order)
      /\ MarketDataTypeOK /\ lineCount = Len(feed)
  BY DEF AlgoInv, AlgoTypeOK, MarketDataTypeOK, Counters
<1>2. feed' = Append(feed, line) /\ lineCount' = lineCount + 1
  BY DEF Push
<1>3. /\ Len(feed') = Len(feed) + 1 /\ feed'[Len(feed) + 1] = line
      /\ \A i \in 1 .. Len(feed) : feed'[i] = feed[i]
  BY <1>1, <1>2, AppendProperties
<1>4. /\ Len(bidStack') >= Len(bidStack) /\ Len(offerStack') >= Len(offerStack)
      /\ Len(bidStack) \in Nat /\ Len(offerStack) \in Nat
      /\ Len(bidStack') \in Nat /\ Len(offerStack') \in Nat
  BY <1>1, PushFacts DEF Extends
<1>5. line.side = BID => Len(bidStack') > 0
  <2> SUFFICES ASSUME line.side = BID PROVE Len(bidStack') > 0
    OBVIOUS
  <2>1. bidStack' = Append(bidStack, OrderOf(line))
    BY DEF Push
  <2> QED
    BY <1>1, <2>1, OrderOfType, AppendProperties
<1>6. line.side = OFFER => Len(offerStack') > 0
  <2> SUFFICES ASSUME line.side = OFFER PROVE Len(offerStack') > 0
    OBVIOUS
  <2>1. offerStack' = Append(offerStack, OrderOf(line))
    BY DEF Push, BID, OFFER
  <2> QED
    BY <1>1, <2>1, OrderOfType, AppendProperties
<1>7. ASSUME NEW i \in 1 .. Len(feed'), i # Len(feed) + 1
      PROVE  i \in 1 .. Len(feed) /\ feed'[i] = feed[i]
  <2>1. Len(feed) \in Nat /\ i \in 1 .. Len(feed) + 1
    BY <1>1, <1>3, <1>7
  <2>2. i \in 1 .. Len(feed)
    BY <2>1, <1>7
  <2> QED
    BY <2>2, <1>3
<1>8. (\E i \in 1 .. Len(feed') : feed'[i].side = BID) => Len(bidStack') > 0
  BY <1>3, <1>4, <1>5, <1>7 DEF AlgoInv, LinesAreStacked
<1>9. (\E i \in 1 .. Len(feed') : feed'[i].side = OFFER) => Len(offerStack') > 0
  BY <1>3, <1>4, <1>6, <1>7 DEF AlgoInv, LinesAreStacked
<1> QED
  BY <1>1, <1>2, <1>3, <1>8, <1>9 DEF LinesAreStacked

\* Once a whole window is read, later lines do not change its sides.
LEMMA FirstWindowIsFixed ==
  ASSUME AlgoInv, NEW line \in Line, Push(line), Window <= Len(feed),
         FirstWindowTwoSided'
  PROVE  FirstWindowTwoSided
<1>1. feed \in Seq(Line) /\ Window \in Nat
  BY DepthAssumption DEF AlgoInv, AlgoTypeOK, MarketDataTypeOK, Window
<1>2. ASSUME NEW i \in 1 .. Window PROVE i <= Len(feed) /\ feed'[i] = feed[i]
  BY <1>1, PushKeepsLinesStacked
<1> QED
  BY <1>2 DEF FirstWindowTwoSided

\* A window that closes makes the feed at least one window long.
LEMMA ClosingFeed ==
  ASSUME AlgoInv, NEW line \in Line, PublishBook(line)
  PROVE  /\ Window <= Len(feed')
         /\ FirstWindowTwoSided' => Len(bidStack') > 0 /\ Len(offerStack') > 0
<1>1. Push(line) /\ (lineCount + 1) % Window = 0
  BY DEF PublishBook, WindowCloses
<1>2. lineCount \in Nat /\ Window \in Nat \ {0}
  BY DepthAssumption DEF AlgoInv, AlgoTypeOK, MarketDataTypeOK, Window
<1>3. Window <= lineCount + 1
  BY <1>1, <1>2, ClosingPosition
<1>4. LinesAreStacked' /\ Len(feed') = lineCount + 1
  BY <1>1, PushKeepsLinesStacked DEF AlgoInv, Counters
<1>5. ASSUME NEW i \in 1 .. Window PROVE i \in 1 .. Len(feed')
  BY <1>2, <1>3, <1>4
<1> QED
  BY <1>3, <1>4, <1>5 DEF FirstWindowTwoSided, LinesAreStacked

LEMMA PublishKeepsPrefixes ==
  ASSUME AlgoInv, NEW line \in Line, PublishBook(line)
  PROVE  /\ BooksArePrefixes'
         /\ DOMAIN PidOrderBooksMap' = DOMAIN PidOrderBooksMap \cup {line.cusip}
         /\ PidOrderBooksMap'[line.cusip] = ClosedBook(line)
         /\ \A p \in DOMAIN PidOrderBooksMap \ {line.cusip} :
              PidOrderBooksMap'[p] = PidOrderBooksMap[p]
<1>1. /\ Push(line)
      /\ PidOrderBooksMap' = Put(PidOrderBooksMap, line.cusip, ClosedBook(line))
  BY DEF PublishBook
<1>2. /\ DOMAIN PidOrderBooksMap' = DOMAIN PidOrderBooksMap \cup {line.cusip}
      /\ PidOrderBooksMap'[line.cusip] = ClosedBook(line)
      /\ \A p \in DOMAIN PidOrderBooksMap \ {line.cusip} :
           PidOrderBooksMap'[p] = PidOrderBooksMap[p]
  BY <1>1 DEF Put
<1>3. MarketDataTypeOK /\ BooksArePrefixes
  BY DEF AlgoInv, AlgoTypeOK
<1>4. /\ bidStack \in Seq(Order) /\ offerStack \in Seq(Order)
      /\ bidStack' \in Seq(Order) /\ offerStack' \in Seq(Order)
      /\ Extends(bidStack, bidStack') /\ Extends(offerStack, offerStack')
      /\ ClosedBook(line).bidStack = bidStack'
      /\ ClosedBook(line).offerStack = offerStack'
  BY <1>1, <1>3, PushFacts DEF MarketDataTypeOK
<1>5. /\ Extends(PidOrderBooksMap'[line.cusip].bidStack, bidStack')
      /\ Extends(PidOrderBooksMap'[line.cusip].offerStack, offerStack')
  BY <1>2, <1>4 DEF Extends
<1>6. ASSUME NEW p \in DOMAIN PidOrderBooksMap \ {line.cusip}
      PROVE  /\ Extends(PidOrderBooksMap'[p].bidStack, bidStack')
             /\ Extends(PidOrderBooksMap'[p].offerStack, offerStack')
  BY <1>2, <1>3, <1>4, StoredBook, ExtendsTransitive
<1> QED
  BY <1>2, <1>5, <1>6 DEF BooksArePrefixes

\* The executions stored before the step were made on books that are tight.
LEMMA EarlierExecutionTightens ==
  ASSUME AlgoInv, NEW line \in Line, PublishBook(line), FirstWindowTwoSided',
         NEW p \in DOMAIN algoExecutions
  PROVE  /\ FirstWindowTwoSided
         /\ p \in DOMAIN PidOrderBooksMap
         /\ Tight(PidOrderBooksMap[p])
         /\ StacksTight(bidStack', offerStack')
<1>1. Push(line)
  BY DEF PublishBook
<1>2. p \in DOMAIN PidOrderBooksMap /\ FirstWindowTwoSided
  <2>1. CASE Window <= Len(feed)
    BY <1>1, <2>1, FirstWindowIsFixed DEF AlgoInv, ExecutionsHaveBooks
  <2>2. CASE ~ (Window <= Len(feed))
    BY <2>2 DEF AlgoInv, Counters, ExecutionsHaveBooks
  <2> QED
    BY <2>1, <2>2
<1>3. Tight(PidOrderBooksMap[p])
  BY <1>2 DEF AlgoInv, ExecutedBooksAreTight
<1> QED
  BY <1>1, <1>2, <1>3, TightBookTightensStacks DEF AlgoInv

\* The order made on a book takes the best quote of its side.
LEMMA OrderTakesBest ==
  ASSUME NEW bid \in BestBid(bidStack'), NEW offer \in BestOffer(offerStack'),
         NEW line \in Line, NEW id
  PROVE  LET order == OrderOn(line.cusip, QuoteTaken(bid, offer), id)
         IN  \E q \in BestOfSide(ClosedBook(line), order.side) :
               order.price = q.price /\ order.visibleQuantity = q.quantity
BY DEF OrderOn, QuoteTaken, BestOfSide, ClosedBook, Turn, BID, OFFER

LEMMA PublishKeepsAlgoInv ==
  ASSUME AlgoInv, NEW line \in Line, PublishAndExecute(line)
  PROVE  AlgoInv'
<1>1. /\ PublishBook(line) /\ Push(line) /\ line.cusip \in KnownCusips
      /\ AlgoTypeOK /\ MarketDataTypeOK
  BY DEF PublishAndExecute, PublishBook, AlgoInv, AlgoTypeOK
<1>2. AlgoTypeOK'
  BY <1>1, AlgoTypeStep DEF AlgoNext
<1>3. BooksArePrefixes'
  BY <1>1, PublishKeepsPrefixes
<1>4. LinesAreStacked' /\ lineCount' = Len(feed') /\ Window <= Len(feed')
  BY <1>1, PushKeepsLinesStacked, ClosingFeed
<1>5. PICK bid \in BestBid(bidStack'), offer \in BestOffer(offerStack') :
        \/ /\ offer.price - bid.price <= Spread
           /\ \E id \in Ids :
                LET order == OrderOn(line.cusip, QuoteTaken(bid, offer), id)
                IN  /\ order \in ExecutionOrder
                    /\ algoCount' = algoCount + 1
                    /\ algoExecutions' = Put(algoExecutions, line.cusip, order)
                    /\ orders' = Append(orders, order)
        \/ /\ ~ (offer.price - bid.price <= Spread)
           /\ UNCHANGED algoVars
  BY <1>1, ExecuteFacts
<1> DEFINE newBook == ClosedBook(line)
<1>6. /\ newBook \in OrderBook
      /\ newBook.bidStack = bidStack' /\ newBook.offerStack = offerStack'
      /\ bidStack' \in Seq(Order) /\ offerStack' \in Seq(Order)
  BY <1>1, PushFacts DEF ClosedBook, OrderBook
<1>7. CASE /\ offer.price - bid.price <= Spread
           /\ \E id \in Ids :
                LET order == OrderOn(line.cusip, QuoteTaken(bid, offer), id)
                IN  /\ order \in ExecutionOrder
                    /\ algoCount' = algoCount + 1
                    /\ algoExecutions' = Put(algoExecutions, line.cusip, order)
                    /\ orders' = Append(orders, order)
  <2>1. PICK id \in Ids :
          LET order == OrderOn(line.cusip, QuoteTaken(bid, offer), id)
          IN  /\ order \in ExecutionOrder
              /\ algoCount' = algoCount + 1
              /\ algoExecutions' = Put(algoExecutions, line.cusip, order)
              /\ orders' = Append(orders, order)
    BY <1>7
  <2> DEFINE newOrder == OrderOn(line.cusip, QuoteTaken(bid, offer), id)
  <2>2. Counters'
    <3>1. orders \in Seq(ExecutionOrder) /\ algoCount = Len(orders)
      BY <1>1 DEF AlgoTypeOK, AlgoInv, Counters
    <3>2. algoCount' = Len(orders')
      BY <2>1, <3>1, AppendProperties
    <3> QED
      BY <1>4, <3>2 DEF Counters, Window
  <2>3. /\ DOMAIN algoExecutions' = DOMAIN algoExecutions \cup {line.cusip}
        /\ algoExecutions'[line.cusip] = newOrder
        /\ \A p \in DOMAIN algoExecutions \ {line.cusip} :
             algoExecutions'[p] = algoExecutions[p]
    BY <2>1 DEF Put
  <2>4. ExecutionsHaveBooks'
    BY <1>1, <2>3, PublishKeepsPrefixes DEF AlgoInv, ExecutionsHaveBooks
  <2>5. ExecutedBooksAreTight'
    <3> SUFFICES ASSUME FirstWindowTwoSided', NEW p \in DOMAIN algoExecutions'
                 PROVE  Tight(PidOrderBooksMap'[p])
      BY DEF ExecutedBooksAreTight, Tight
    <3>1. CASE p = line.cusip
      <4>1. StacksTight(bidStack', offerStack')
        BY <1>1, <1>6, <1>7, ClosingFeed, CrossingStacksAreTight
      <4>2. Tight(newBook)
        BY <1>6, <4>1, TightIsStacksTight
      <4> QED
        BY <1>1, <3>1, <4>2, PublishKeepsPrefixes
    <3>2. CASE p # line.cusip
      BY <1>1, <2>3, <3>2, EarlierExecutionTightens, PublishKeepsPrefixes
    <3> QED
      BY <3>1, <3>2
  <2>6. ExecutionIsOnStoredBook'
    <3> SUFFICES ASSUME FirstWindowTwoSided', NEW p \in DOMAIN algoExecutions'
                 PROVE  /\ p \in DOMAIN PidOrderBooksMap'
                        /\ \E q \in BestOfSide(PidOrderBooksMap'[p], algoExecutions'[p].side) :
                             /\ algoExecutions'[p].price = q.price
                             /\ algoExecutions'[p].visibleQuantity = q.quantity
      BY DEF ExecutionIsOnStoredBook, BestOfSide
    <3>1. CASE p = line.cusip
      <4>1. \E q \in BestOfSide(newBook, newOrder.side) :
              newOrder.price = q.price /\ newOrder.visibleQuantity = q.quantity
        BY OrderTakesBest
      <4>2. /\ p \in DOMAIN PidOrderBooksMap' /\ PidOrderBooksMap'[p] = newBook
            /\ algoExecutions'[p] = newOrder
        BY <1>1, <2>3, <3>1, PublishKeepsPrefixes
      <4> HIDE DEF newBook, newOrder
      <4> QED
        BY <4>1, <4>2
    <3>2. CASE p # line.cusip
      <4>1. /\ p \in DOMAIN algoExecutions /\ FirstWindowTwoSided
            /\ p \in DOMAIN PidOrderBooksMap
            /\ algoExecutions'[p] = algoExecutions[p]
            /\ PidOrderBooksMap'[p] = PidOrderBooksMap[p]
            /\ p \in DOMAIN PidOrderBooksMap'
        BY <1>1, <2>3, <3>2, EarlierExecutionTightens, PublishKeepsPrefixes
      <4> QED
        BY <4>1 DEF AlgoInv, ExecutionIsOnStoredBook
    <3> QED
      BY <3>1, <3>2
  <2> QED
    BY <1>2, <1>3, <1>4, <2>2, <2>4, <2>5, <2>6 DEF AlgoInv
<1>8. CASE ~ (offer.price - bid.price <= Spread) /\ UNCHANGED algoVars
  <2>1. Counters'
    BY <1>4, <1>8 DEF AlgoInv, Counters, algoVars, Window
  <2>2. FirstWindowTwoSided' => DOMAIN algoExecutions' = {}
    <3> SUFFICES ASSUME FirstWindowTwoSided', NEW p \in DOMAIN algoExecutions
                 PROVE  FALSE
      BY <1>8 DEF algoVars
    <3>1. StacksTight(bidStack', offerStack')
      BY <1>1, EarlierExecutionTightens
    <3> QED
      BY <1>6, <1>8, <3>1, TightStacksCross
  <2>3. ExecutionsHaveBooks'
    BY <1>1, <1>8, PublishKeepsPrefixes DEF AlgoInv, ExecutionsHaveBooks, algoVars
  <2>4. ExecutedBooksAreTight' /\ ExecutionIsOnStoredBook'
    BY <2>2 DEF ExecutedBooksAreTight, ExecutionIsOnStoredBook
  <2> QED
    BY <1>2, <1>3, <1>4, <2>1, <2>3, <2>4 DEF AlgoInv
<1> QED
  BY <1>5, <1>7, <1>8

LEMMA OtherStepKeepsAlgoInv ==
  ASSUME AlgoInv, OtherStep
  PROVE  AlgoInv'
<1>1. AlgoTypeOK /\ AlgoTypeOK' /\ MarketDataTypeOK
  BY AlgoTypeStep DEF AlgoInv, AlgoTypeOK, AlgoNext
<1>2. CASE \E line \in Line : BufferLine(line) \/ UnknownCusip(line)
  <2>1. PICK line \in Line : BufferLine(line) \/ UnknownCusip(line)
    BY <1>2
  <2>2. /\ Push(line) /\ PidOrderBooksMap' = PidOrderBooksMap
        /\ UNCHANGED algoVars
    BY <2>1 DEF BufferLine, UnknownCusip, OtherStep
  <2>3. LinesAreStacked' /\ lineCount' = Len(feed') /\ Len(feed') = Len(feed) + 1
    BY <2>2, PushKeepsLinesStacked
  <2>4. Counters'
    <3>1. Window \in Nat /\ Len(feed) \in Nat
      BY <1>1, DepthAssumption DEF Window, MarketDataTypeOK
    <3> QED
      BY <2>2, <2>3, <3>1 DEF AlgoInv, Counters, algoVars, Window
  <2>5. BooksArePrefixes'
    <3> SUFFICES ASSUME NEW p \in DOMAIN PidOrderBooksMap
                 PROVE  /\ Extends(PidOrderBooksMap[p].bidStack, bidStack')
                        /\ Extends(PidOrderBooksMap[p].offerStack, offerStack')
      BY <2>2 DEF BooksArePrefixes
    <3>1. /\ bidStack \in Seq(Order) /\ offerStack \in Seq(Order)
          /\ BooksArePrefixes
      BY <1>1 DEF MarketDataTypeOK, AlgoInv
    <3> QED
      BY <1>1, <2>2, <3>1, StoredBook, PushFacts, ExtendsTransitive
  <2>6. ExecutionsHaveBooks'
    BY <2>2 DEF AlgoInv, ExecutionsHaveBooks, algoVars
  <2>7. FirstWindowTwoSided' /\ DOMAIN algoExecutions # {} => FirstWindowTwoSided
    BY <2>2, FirstWindowIsFixed DEF AlgoInv, ExecutionsHaveBooks, Counters
  <2>8. ExecutedBooksAreTight'
    BY <2>2, <2>7 DEF AlgoInv, ExecutedBooksAreTight, Tight, algoVars
  <2>9. ExecutionIsOnStoredBook'
    BY <2>2, <2>7 DEF AlgoInv, ExecutionIsOnStoredBook, BestOfSide, algoVars
  <2> QED
    BY <1>1, <2>3, <2>4, <2>5, <2>6, <2>8, <2>9 DEF AlgoInv
<1>3. CASE MalformedLine \/ EndOfFile \/ Stopped
  <2>1. UNCHANGED <<lineCount, bidStack, offerStack, PidOrderBooksMap, feed, algoVars>>
    BY <1>3 DEF MalformedLine, EndOfFile, Stopped, OtherStep, marketDataVars
  <2> QED
    BY <1>1, <2>1 DEF AlgoInv, BooksArePrefixes, Counters, LinesAreStacked,
       ExecutionsHaveBooks, ExecutedBooksAreTight, ExecutionIsOnStoredBook,
       FirstWindowTwoSided, Tight, BestOfSide, Window, algoVars
<1> QED
  BY <1>2, <1>3 DEF OtherStep

LEMMA AlgoInvInit == AlgoInit => AlgoInv
<1>1. AlgoInit => AlgoTypeOK
  BY DEF AlgoInit, MarketDataInit, AlgoTypeOK, MarketDataTypeOK, IsMap, EmptyMap
<1> QED
  BY <1>1 DEF AlgoInit, MarketDataInit, AlgoInv, BooksArePrefixes, Counters,
     LinesAreStacked, ExecutionsHaveBooks, ExecutedBooksAreTight,
     ExecutionIsOnStoredBook, EmptyMap

LEMMA AlgoInvStep == AlgoInv /\ [AlgoNext]_vars => AlgoInv'
<1> SUFFICES ASSUME AlgoInv, [AlgoNext]_vars PROVE AlgoInv'
  OBVIOUS
<1>1. CASE UNCHANGED vars
  <2>1. AlgoTypeOK'
    BY AlgoTypeStep DEF AlgoInv
  <2> QED
    BY <1>1, <2>1 DEF AlgoInv, BooksArePrefixes, Counters, LinesAreStacked,
       ExecutionsHaveBooks, ExecutedBooksAreTight, ExecutionIsOnStoredBook,
       FirstWindowTwoSided, Tight, BestOfSide, Window, vars, marketDataVars, algoVars
<1>2. CASE AlgoNext
  BY <1>2, PublishKeepsAlgoInv, OtherStepKeepsAlgoInv DEF AlgoNext
<1> QED
  BY <1>1, <1>2

LEMMA AlgoInvariant == AlgoSpec => []AlgoInv
BY AlgoInvInit, AlgoInvStep, PTL DEF AlgoSpec

-----------------------------------------------------------------------------
(***************************************************************************)
(* The execution the algo execution service stores for a product is always *)
(* on the best quote of the book the market data service stores for it.    *)
(***************************************************************************)
THEOREM ExecutionNeverStale == AlgoSpec => []ExecutionIsOnStoredBook
BY AlgoInvariant, PTL DEF AlgoInv

(***************************************************************************)
(* After the book of any product was tight once, AlgoExecuteOrder executes *)
(* on every book it is given, of every product, for ever.                  *)
(***************************************************************************)
THEOREM TightnessLatches == AlgoSpec => TightBookLatches
<1>1. ASSUME AlgoInv, [AlgoNext]_vars, Publishes,
             NEW p \in DOMAIN PidOrderBooksMap, Tight(PidOrderBooksMap[p])
      PROVE  algoCount' = algoCount + 1
  <2>1. PICK line \in Line : PublishAndExecute(line)
    BY <1>1 DEF AlgoNext, OtherStep, BufferLine, UnknownCusip, MalformedLine,
       EndOfFile, Stopped, Publishes, vars, marketDataVars
  <2>2. AlgoTypeOK /\ BooksArePrefixes /\ Push(line) /\ MarketDataTypeOK
    BY <1>1, <2>1 DEF AlgoInv, AlgoTypeOK, PublishAndExecute, PublishBook
  <2>3. bidStack' \in Seq(Order) /\ offerStack' \in Seq(Order)
    BY <2>2, PushFacts
  <2>4. StacksTight(bidStack', offerStack')
    BY <1>1, <2>2, TightBookTightensStacks
  <2> QED
    BY <2>1, <2>2, <2>3, <2>4, ExecuteFacts, TightStacksCross
<1>2. AlgoInv /\ [AlgoNext]_vars =>
        [(Publishes /\ \E p \in DOMAIN PidOrderBooksMap : Tight(PidOrderBooksMap[p]))
           => algoCount' = algoCount + 1]_vars
  BY <1>1
<1> QED
  BY <1>2, AlgoInvariant, PTL DEF AlgoSpec, TightBookLatches

(***************************************************************************)
(* The service implements AlgoOrders: whatever the market does, orders     *)
(* leave one at a time and their sides alternate from BID.                 *)
(***************************************************************************)
THEOREM AlgoExecutionImplementsAlgoOrders == AlgoSpec => ImplementsAlgoOrders
<1>1. AlgoInit => Abstract!AlgoOrdersInit
  BY DEF AlgoInit, Abstract!AlgoOrdersInit
<1>2. AlgoInv /\ [AlgoNext]_vars => [Abstract!AlgoOrdersNext]_orders
  <2> SUFFICES ASSUME AlgoInv, [AlgoNext]_vars, orders' # orders
               PROVE  Abstract!AlgoOrdersNext
    OBVIOUS
  <2>1. PICK line \in Line : PublishAndExecute(line)
    BY DEF AlgoNext, OtherStep, vars, algoVars
  <2>2. PICK bid \in BestBid(bidStack'), offer \in BestOffer(offerStack'), id \in Ids :
          LET order == OrderOn(line.cusip, QuoteTaken(bid, offer), id)
          IN  order \in ExecutionOrder /\ orders' = Append(orders, order)
    BY <2>1, ExecuteFacts DEF AlgoInv, algoVars
  <2> DEFINE order == OrderOn(line.cusip, QuoteTaken(bid, offer), id)
  <2>3. order.side = Abstract!SideOfTurn(Len(orders))
    BY DEF AlgoInv, Counters, OrderOn, Turn, BID, OFFER, Abstract!SideOfTurn
  <2>4. Abstract!SendOrder(order)
    BY <2>2, <2>3 DEF OrderOn, Abstract!SendOrder
  <2> QED
    BY <2>2, <2>4 DEF Abstract!AlgoOrdersNext
<1> QED
  BY <1>1, <1>2, AlgoInvariant, PTL
  DEF AlgoSpec, ImplementsAlgoOrders, Abstract!AlgoOrdersSpec

-----------------------------------------------------------------------------
(***************************************************************************)
(* The two loops of GetBidOffer.  Each keeps the first of the best orders  *)
(* it has passed, as FirstOfLargest says of any such loop; for the offers  *)
(* the largest number is the smallest price.                               *)
(***************************************************************************)
LEMMA ScanBidsFindsBest ==
  ASSUME NEW stack \in Seq(Order), stack # <<>>
  PROVE  ScanBids(stack) \in DOMAIN stack /\ IsBestBid(stack, ScanBids(stack))
<1> DEFINE n == Len(stack)
           number == [i \in 1 .. n |-> stack[i].price]
           V == 0 .. n
           step == [i \in 1 .. n |-> [v \in V |->
                      IF v = 0 \/ stack[i].price > stack[v].price THEN i ELSE v]]
           Loop(g) == g = [i \in 0 .. n |->
                             IF i = 0 THEN 0
                             ELSE IF g[i-1] = 0 \/ stack[i].price > stack[g[i-1]].price
                                  THEN i ELSE g[i-1]]
           best == CHOOSE g : Loop(g)
<1>1. n \in Nat /\ n > 0 /\ DOMAIN stack = 1 .. n /\ 0 \in V
  OBVIOUS
<1>2. number \in [1 .. n -> Int]
  BY OrderPrices
<1>3. Loop(best)
  <2>1. step \in [1 .. n -> [V -> V]]
    OBVIOUS
  <2>2. PICK g : g \in [0 .. n -> V] /\ AreSteps(g, 0, step, n)
    <3> HIDE DEF n, V, step
    <3> QED
      BY <1>1, <2>1, StepsExist
  <2>3. \A i \in 1 .. n : i - 1 \in 0 .. n /\ g[i - 1] \in V
    BY <2>2
  <2>4. \A i \in 1 .. n : step[i][g[i-1]] =
          IF g[i-1] = 0 \/ stack[i].price > stack[g[i-1]].price THEN i ELSE g[i-1]
    BY <2>3
  <2> HIDE DEF step, n, V
  <2>5. g = [i \in 0 .. n |-> IF i = 0 THEN 0 ELSE step[i][g[i-1]]]
    BY <2>2 DEF AreSteps
  <2>6. \A i \in 0 .. n : i # 0 => i \in 1 .. n
    BY <1>1
  <2>7. Loop(g)
    BY <2>4, <2>5, <2>6, Zenon
  <2> QED
    BY <2>7
<1>4. ScanBids(stack) = best[n]
  BY DEF ScanBids, Scan
<1> HIDE DEF best, n
<1>5. /\ best[0] = 0
      /\ \A i \in 1 .. n : best[i - 1] = 0 => best[i] = i
      /\ \A i, v \in 1 .. n :
           best[i - 1] = v => best[i] = IF number[i] > number[v] THEN i ELSE v
  BY <1>1, <1>3
<1>6. \A k \in 1 .. n :
        /\ best[k] \in 1 .. k
        /\ \A j \in 1 .. k : number[j] <= number[best[k]]
        /\ \A j \in 1 .. k : j < best[k] => number[j] < number[best[k]]
  <2> HIDE DEF number
  <2> QED
    BY <1>1, <1>2, <1>5, FirstOfLargest
<1>7. /\ best[n] \in 1 .. n
      /\ \A j \in 1 .. n : number[j] <= number[best[n]]
      /\ \A j \in 1 .. n : j < best[n] => number[j] < number[best[n]]
  <2>1. n \in 1 .. n
    BY <1>1
  <2> QED
    BY <1>6, <2>1, Zenon
<1> QED
  BY <1>1, <1>4, <1>7 DEF IsBestBid

LEMMA ScanOffersFindsBest ==
  ASSUME NEW stack \in Seq(Order), stack # <<>>
  PROVE  ScanOffers(stack) \in DOMAIN stack /\ IsBestOffer(stack, ScanOffers(stack))
<1> DEFINE n == Len(stack)
           number == [i \in 1 .. n |-> - stack[i].price]
           V == 0 .. n
           step == [i \in 1 .. n |-> [v \in V |->
                      IF v = 0 \/ stack[i].price < stack[v].price THEN i ELSE v]]
           Loop(g) == g = [i \in 0 .. n |->
                             IF i = 0 THEN 0
                             ELSE IF g[i-1] = 0 \/ stack[i].price < stack[g[i-1]].price
                                  THEN i ELSE g[i-1]]
           best == CHOOSE g : Loop(g)
<1>1. n \in Nat /\ n > 0 /\ DOMAIN stack = 1 .. n /\ 0 \in V
  OBVIOUS
<1>2. \A i \in 1 .. n : stack[i].price \in Int
  BY OrderPrices
<1>3. Loop(best)
  <2>1. step \in [1 .. n -> [V -> V]]
    OBVIOUS
  <2>2. PICK g : g \in [0 .. n -> V] /\ AreSteps(g, 0, step, n)
    <3> HIDE DEF n, V, step
    <3> QED
      BY <1>1, <2>1, StepsExist
  <2>3. \A i \in 1 .. n : i - 1 \in 0 .. n /\ g[i - 1] \in V
    BY <2>2
  <2>4. \A i \in 1 .. n : step[i][g[i-1]] =
          IF g[i-1] = 0 \/ stack[i].price < stack[g[i-1]].price THEN i ELSE g[i-1]
    BY <2>3
  <2> HIDE DEF step, n, V
  <2>5. g = [i \in 0 .. n |-> IF i = 0 THEN 0 ELSE step[i][g[i-1]]]
    BY <2>2 DEF AreSteps
  <2>6. \A i \in 0 .. n : i # 0 => i \in 1 .. n
    BY <1>1
  <2>7. Loop(g)
    BY <2>4, <2>5, <2>6, Zenon
  <2> QED
    BY <2>7
<1>4. ScanOffers(stack) = best[n]
  BY DEF ScanOffers, Scan
<1> HIDE DEF best, n
<1>5. /\ best[0] = 0
      /\ \A i \in 1 .. n : best[i - 1] = 0 => best[i] = i
      /\ \A i, v \in 1 .. n :
           best[i - 1] = v => best[i] = IF number[i] > number[v] THEN i ELSE v
  BY <1>1, <1>2, <1>3
<1>6. number \in [1 .. n -> Int]
  BY <1>2
<1>7. \A k \in 1 .. n :
        /\ best[k] \in 1 .. k
        /\ \A j \in 1 .. k : number[j] <= number[best[k]]
        /\ \A j \in 1 .. k : j < best[k] => number[j] < number[best[k]]
  <2> HIDE DEF number
  <2> QED
    BY <1>1, <1>5, <1>6, FirstOfLargest
<1>8. /\ best[n] \in 1 .. n
      /\ \A j \in 1 .. n : number[j] <= number[best[n]]
      /\ \A j \in 1 .. n : j < best[n] => number[j] < number[best[n]]
  <2>1. n \in 1 .. n
    BY <1>1
  <2> QED
    BY <1>7, <2>1, Zenon
<1>9. /\ \A j \in 1 .. n : stack[j].price >= stack[best[n]].price
      /\ \A j \in 1 .. n : j < best[n] => stack[j].price > stack[best[n]].price
  <2>1. \A j \in 1 .. n : number[j] = - stack[j].price
    OBVIOUS
  <2> HIDE DEF number
  <2> DEFINE b == stack[best[n]].price
  <2>2. number[best[n]] = - b /\ b \in Int
    BY <1>2, <1>8, <2>1
  <2>3. ASSUME NEW j \in 1 .. n
        PROVE  /\ stack[j].price >= b
               /\ j < best[n] => stack[j].price > b
    <3> DEFINE a == stack[j].price
    <3>1. number[j] = - a /\ a \in Int
      BY <1>2, <2>1
    <3>2. /\ number[j] <= number[best[n]]
          /\ j < best[n] => number[j] < number[best[n]]
      BY <1>8
    <3> HIDE DEF a, b
    <3>3. a >= b /\ (j < best[n] => a > b)
      BY <2>2, <3>1, <3>2
    <3> QED
      BY <3>3 DEF a, b
  <2> QED
    BY <2>3
<1> QED
  BY <1>1, <1>4, <1>8, <1>9 DEF IsBestOffer

\* The best order is the first at its price, so there is one.
LEMMA BestIsUnique ==
  ASSUME NEW stack \in Seq(Order), NEW i \in DOMAIN stack, NEW j \in DOMAIN stack,
         \/ IsBestBid(stack, i) /\ IsBestBid(stack, j)
         \/ IsBestOffer(stack, i) /\ IsBestOffer(stack, j)
  PROVE  i = j
<1>1. i \in Nat /\ j \in Nat /\ stack[i].price \in Int /\ stack[j].price \in Int
  BY OrderPrices
<1> QED
  BY <1>1 DEF IsBestBid, IsBestOffer

(***************************************************************************)
(* On every book that is ever stored, the order GetBidOffer returns for a  *)
(* side that has orders is the one with price, then time, priority.        *)
(***************************************************************************)
THEOREM BestAlwaysHasPriority == AlgoSpec => []BestHasPriceTimePriority
<1>1. ASSUME NEW stack \in Seq(Order), stack # <<>>
      PROVE  /\ BestBid(stack) = {stack[ScanBids(stack)]}
             /\ BestOffer(stack) = {stack[ScanOffers(stack)]}
  <2>1. \A j \in DOMAIN stack : IsBestBid(stack, j) <=> j = ScanBids(stack)
    BY <1>1, ScanBidsFindsBest, BestIsUnique
  <2>2. \A j \in DOMAIN stack : IsBestOffer(stack, j) <=> j = ScanOffers(stack)
    BY <1>1, ScanOffersFindsBest, BestIsUnique
  <2>3. ScanBids(stack) \in DOMAIN stack /\ ScanOffers(stack) \in DOMAIN stack
    BY <1>1, ScanBidsFindsBest, ScanOffersFindsBest
  <2> QED
    BY <1>1, <2>1, <2>2, <2>3 DEF BestBid, BestOffer
<1>2. AlgoInv => BestHasPriceTimePriority
  BY <1>1, StoredBook DEF AlgoInv, AlgoTypeOK, BestHasPriceTimePriority
<1> QED
  BY <1>2, AlgoInvariant, PTL


-----------------------------------------------------------------------------
(***************************************************************************)
(* The books as prefixes of the feed.  SideOf and ClosingsOf are           *)
(* SideOfFeed and Closings of any list of lines: what they are of one line *)
(* more.                                                                   *)
(***************************************************************************)
SideOf(log, n, side) ==
  LET ofFirst[k \in 0 .. n] ==
        IF k = 0 THEN <<>>
        ELSE IF log[k].side = side THEN Append(ofFirst[k-1], OrderOf(log[k]))
             ELSE ofFirst[k-1]
  IN  ofFirst[n]

ClosingsOf(log, n, p) == {m \in 1 .. n : m % Window = 0 /\ log[m].cusip = p}

BookOf(log, n, p) == [product    |-> p,
                      bidStack   |-> SideOf(log, n, BID),
                      offerStack |-> SideOf(log, n, OFFER)]

BooksOf(log, n, books) ==
  \A p \in KnownCusips :
    /\ p \in DOMAIN books <=> ClosingsOf(log, n, p) # {}
    /\ p \in DOMAIN books =>
         \E m \in ClosingsOf(log, n, p) :
           /\ \A k \in ClosingsOf(log, n, p) : k <= m
           /\ books[p] = BookOf(log, m, p)

LEMMA BookIsBooksOf ==
  /\ BookIsFeedUpToLastClosing <=> BooksOf(feed, lineCount, PidOrderBooksMap)
  /\ BookIsFeedUpToLastClosing' <=> BooksOf(feed', lineCount', PidOrderBooksMap')
BY DEF BookIsFeedUpToLastClosing, BooksOf, BookOf, ClosingsOf, Closings, SideOf,
   SideOfFeed, Window

\* One turn of the loop of SideOf, and a run of n turns.
Stacked(log, side, k, stack) ==
  IF log[k].side = side THEN Append(stack, OrderOf(log[k])) ELSE stack

IsLoop(g, log, n, side) ==
  /\ g[0] = <<>>
  /\ \A k \in 1 .. n : g[k] = Stacked(log, side, k, g[k-1])

LEMMA SideIsLoop ==
  ASSUME NEW log \in Seq(Line), NEW n \in Nat, n <= Len(log), NEW side
  PROVE  \E g : IsLoop(g, log, n, side) /\ SideOf(log, n, side) = g[n]
<1> DEFINE V == Seq(Order)
           step == [k \in 1 .. n |-> [v \in V |-> Stacked(log, side, k, v)]]
           Loop(g) == g = [k \in 0 .. n |->
                             IF k = 0 THEN <<>>
                             ELSE IF log[k].side = side
                                  THEN Append(g[k-1], OrderOf(log[k]))
                                  ELSE g[k-1]]
           sides == CHOOSE g : Loop(g)
<1>1. \A k \in 1 .. n : OrderOf(log[k]) \in Order
  BY OrderOfType
<1>2. \A k \in 1 .. n : \A v \in V : Stacked(log, side, k, v) \in V
  BY <1>1 DEF Stacked
<1>3. step \in [1 .. n -> [V -> V]] /\ <<>> \in V
  BY <1>2
<1>4. PICK g : g \in [0 .. n -> V] /\ AreSteps(g, <<>>, step, n)
  <2> HIDE DEF V, step
  <2> QED
    BY <1>3, StepsExist
<1>5. \A k \in 1 .. n : k - 1 \in 0 .. n /\ g[k-1] \in V
  BY <1>4
<1>6. \A k \in 1 .. n : step[k][g[k-1]] = Stacked(log, side, k, g[k-1])
  BY <1>5
<1> HIDE DEF step, V
<1>7. g = [k \in 0 .. n |-> IF k = 0 THEN <<>> ELSE step[k][g[k-1]]]
  BY <1>4 DEF AreSteps
<1>8. \A k \in 0 .. n : k # 0 => k \in 1 .. n
  OBVIOUS
<1>9. Loop(g)
  BY <1>6, <1>7, <1>8, Zenon DEF Stacked
<1>10. Loop(sides)
  BY <1>9
<1>11. SideOf(log, n, side) = sides[n]
  BY DEF SideOf
<1> HIDE DEF sides
<1>12. sides[0] = <<>>
  BY <1>10
<1>13. \A k \in 1 .. n : sides[k] = Stacked(log, side, k, sides[k-1])
  <2>1. \A k \in 1 .. n : k \in 0 .. n /\ k # 0
    OBVIOUS
  <2> QED
    BY <1>10, <2>1, Zenon DEF Stacked
<1> QED
  BY <1>11, <1>12, <1>13 DEF IsLoop

\* Two lists that agree on the first k lines have the same first k stacks.
LEMMA LoopsAgree ==
  ASSUME NEW log, NEW other, NEW n \in Nat, NEW m \in Nat, NEW k \in Nat, NEW side,
         k <= n, k <= m, \A i \in 1 .. k : other[i] = log[i],
         NEW g, IsLoop(g, log, n, side), NEW h, IsLoop(h, other, m, side)
  PROVE  g[k] = h[k]
<1> DEFINE T == {i \in Nat : i <= k => g[i] = h[i]}
<1>1. 0 \in T
  BY DEF IsLoop
<1>2. ASSUME NEW i \in T PROVE i + 1 \in T
  <2> SUFFICES ASSUME i + 1 <= k PROVE g[i + 1] = h[i + 1]
    OBVIOUS
  <2>1. i + 1 \in 1 .. n /\ i + 1 \in 1 .. m /\ i + 1 \in 1 .. k /\ (i + 1) - 1 = i
    OBVIOUS
  <2>2. g[i] = h[i] /\ other[i + 1] = log[i + 1]
    BY <2>1
  <2>3. /\ g[i + 1] = Stacked(log, side, i + 1, g[i])
        /\ h[i + 1] = Stacked(other, side, i + 1, h[i])
    BY <2>1 DEF IsLoop
  <2> QED
    BY <2>2, <2>3 DEF Stacked
<1>3. T = Nat
  <2>1. T \in SUBSET Nat
    OBVIOUS
  <2> HIDE DEF T
  <2> QED
    BY <1>1, <1>2, <2>1, NatSetInduction
<1> QED
  BY <1>3

LEMMA SideOfNone == \A log, side : SideOf(log, 0, side) = <<>>
<1> TAKE log, side
<1> DEFINE Loop(g) == g = [k \in 0 .. 0 |->
                             IF k = 0 THEN <<>>
                             ELSE IF log[k].side = side
                                  THEN Append(g[k-1], OrderOf(log[k]))
                                  ELSE g[k-1]]
           sides == CHOOSE g : Loop(g)
<1>1. Loop([k \in 0 .. 0 |-> <<>>])
  OBVIOUS
<1>2. Loop(sides)
  BY <1>1
<1>3. SideOf(log, 0, side) = sides[0]
  BY DEF SideOf
<1> HIDE DEF sides
<1> QED
  BY <1>2, <1>3

\* A line is added to the end of its own side.
LEMMA SideOfOneMore ==
  ASSUME NEW log \in Seq(Line), NEW n \in Nat, n < Len(log), NEW side
  PROVE  SideOf(log, n + 1, side) = Stacked(log, side, n + 1, SideOf(log, n, side))
<1>1. PICK g : IsLoop(g, log, n, side) /\ SideOf(log, n, side) = g[n]
  BY SideIsLoop
<1>2. n + 1 \in Nat /\ n + 1 <= Len(log)
  OBVIOUS
<1>3. PICK h : IsLoop(h, log, n + 1, side) /\ SideOf(log, n + 1, side) = h[n + 1]
  BY <1>2, SideIsLoop
<1>4. g[n] = h[n]
  <2>1. n <= n /\ n <= n + 1
    OBVIOUS
  <2> QED
    BY <1>1, <1>2, <1>3, <2>1, LoopsAgree
<1>5. h[n + 1] = Stacked(log, side, n + 1, h[n])
  <2>1. n + 1 \in 1 .. n + 1 /\ (n + 1) - 1 = n
    OBVIOUS
  <2> QED
    BY <1>3, <2>1 DEF IsLoop
<1> QED
  BY <1>1, <1>3, <1>4, <1>5

\* The lines after the n-th do not matter to what the first n stack.
LEMMA SideOfSame ==
  ASSUME NEW log \in Seq(Line), NEW longer \in Seq(Line), NEW n \in Nat,
         n <= Len(log), n <= Len(longer), \A i \in 1 .. n : longer[i] = log[i], NEW side
  PROVE  SideOf(longer, n, side) = SideOf(log, n, side)
<1>1. PICK g : IsLoop(g, log, n, side) /\ SideOf(log, n, side) = g[n]
  BY SideIsLoop
<1>2. PICK h : IsLoop(h, longer, n, side) /\ SideOf(longer, n, side) = h[n]
  BY SideIsLoop
<1>3. n <= n
  OBVIOUS
<1> QED
  BY <1>1, <1>2, <1>3, LoopsAgree


(***************************************************************************)
(* The invariant: the two stacks of Subscribe are the two sides of the     *)
(* feed read so far, so a book that is published is the feed up to the     *)
(* line that closed its window; later lines do not change that prefix.     *)
(***************************************************************************)
StacksAreFeed ==
  /\ bidStack = SideOf(feed, Len(feed), BID)
  /\ offerStack = SideOf(feed, Len(feed), OFFER)

FeedInv == StacksAreFeed /\ BooksOf(feed, lineCount, PidOrderBooksMap)

LEMMA PushGrowsFeed ==
  ASSUME AlgoInv, NEW line \in Line, Push(line)
  PROVE  /\ feed \in Seq(Line) /\ feed' \in Seq(Line)
         /\ lineCount \in Nat /\ lineCount = Len(feed)
         /\ lineCount' = lineCount + 1 /\ Len(feed') = lineCount + 1
         /\ feed'[lineCount + 1] = line
         /\ \A i \in 1 .. lineCount : feed'[i] = feed[i]
<1>1. feed \in Seq(Line) /\ lineCount \in Nat /\ lineCount = Len(feed)
  BY DEF AlgoInv, AlgoTypeOK, MarketDataTypeOK, Counters
<1>2. feed' = Append(feed, line) /\ lineCount' = lineCount + 1
  BY DEF Push
<1> QED
  BY <1>1, <1>2, AppendProperties

LEMMA PushKeepsStacks ==
  ASSUME AlgoInv, StacksAreFeed, NEW line \in Line, Push(line)
  PROVE  StacksAreFeed'
<1> DEFINE n == lineCount
<1>1. /\ feed \in Seq(Line) /\ feed' \in Seq(Line) /\ n \in Nat /\ n = Len(feed)
      /\ Len(feed') = n + 1 /\ feed'[n + 1] = line
      /\ \A i \in 1 .. n : feed'[i] = feed[i]
  BY PushGrowsFeed
<1> HIDE DEF n
<1>2. n < Len(feed') /\ n <= Len(feed') /\ n <= Len(feed)
  BY <1>1
<1>3. \A side : SideOf(feed', n + 1, side) =
                  Stacked(feed', side, n + 1, SideOf(feed', n, side))
  BY <1>1, <1>2, SideOfOneMore
<1>4. \A side : SideOf(feed', n, side) = SideOf(feed, n, side)
  BY <1>1, <1>2, SideOfSame
<1>5. \A side : SideOf(feed', Len(feed'), side) =
                  IF line.side = side
                  THEN Append(SideOf(feed, Len(feed), side), OrderOf(line))
                  ELSE SideOf(feed, Len(feed), side)
  BY <1>1, <1>3, <1>4 DEF Stacked
<1>6. line.side \in {BID, OFFER} /\ BID # OFFER
  BY DEF Line, Sides, BID, OFFER
<1>7. CASE line.side = BID
  <2>1. bidStack' = Append(bidStack, OrderOf(line)) /\ offerStack' = offerStack
    BY <1>7 DEF Push
  <2> QED
    BY <1>5, <1>6, <1>7, <2>1 DEF StacksAreFeed
<1>8. CASE line.side = OFFER
  <2>1. bidStack' = bidStack /\ offerStack' = Append(offerStack, OrderOf(line))
    BY <1>6, <1>8 DEF Push
  <2> QED
    BY <1>5, <1>6, <1>8, <2>1 DEF StacksAreFeed
<1> QED
  BY <1>6, <1>7, <1>8

\* One line more: the closings and the books of the lines before it.
LEMMA ClosingsOfOneMore ==
  ASSUME NEW log, NEW longer, NEW n \in Nat, \A i \in 1 .. n : longer[i] = log[i], NEW p
  PROVE  ClosingsOf(longer, n + 1, p) =
           ClosingsOf(log, n, p)
             \cup (IF (n + 1) % Window = 0 /\ longer[n + 1].cusip = p
                   THEN {n + 1} ELSE {})
<1>1. \A m : m \in 1 .. n + 1 <=> m \in 1 .. n \/ m = n + 1
  OBVIOUS
<1> QED
  BY <1>1 DEF ClosingsOf

LEMMA BookOfSame ==
  ASSUME AlgoInv, NEW line \in Line, Push(line), NEW m \in 1 .. lineCount, NEW p
  PROVE  BookOf(feed', m, p) = BookOf(feed, m, p)
<1>1. /\ feed \in Seq(Line) /\ feed' \in Seq(Line) /\ lineCount \in Nat
      /\ lineCount = Len(feed) /\ Len(feed') = lineCount + 1
      /\ \A i \in 1 .. lineCount : feed'[i] = feed[i]
  BY PushGrowsFeed
<1>2. /\ m \in Nat /\ m <= Len(feed) /\ m <= Len(feed')
      /\ \A i \in 1 .. m : feed'[i] = feed[i]
  BY <1>1
<1>3. \A side : SideOf(feed', m, side) = SideOf(feed, m, side)
  BY <1>1, <1>2, SideOfSame
<1> QED
  BY <1>3 DEF BookOf

LEMMA PublishKeepsBooks ==
  ASSUME AlgoInv, FeedInv, NEW line \in Line, PublishBook(line)
  PROVE  FeedInv'
<1> DEFINE n == lineCount
           old(p) == ClosingsOf(feed, n, p)
           new(p) == ClosingsOf(feed', n + 1, p)
<1>1. Push(line) /\ (n + 1) % Window = 0
  BY DEF PublishBook, WindowCloses
<1>2. StacksAreFeed'
  BY <1>1, PushKeepsStacks DEF FeedInv
<1>3. /\ n \in Nat /\ lineCount' = n + 1 /\ Len(feed') = n + 1
      /\ feed'[n + 1] = line /\ \A i \in 1 .. n : feed'[i] = feed[i]
  BY <1>1, PushGrowsFeed
<1>4. \A p : new(p) = old(p) \cup (IF line.cusip = p THEN {n + 1} ELSE {})
  BY <1>1, <1>3, ClosingsOfOneMore
<1>5. /\ DOMAIN PidOrderBooksMap' = DOMAIN PidOrderBooksMap \cup {line.cusip}
      /\ PidOrderBooksMap'[line.cusip] = ClosedBook(line)
      /\ \A p \in DOMAIN PidOrderBooksMap \ {line.cusip} :
           PidOrderBooksMap'[p] = PidOrderBooksMap[p]
  BY PublishKeepsPrefixes
<1>6. \A p : \A m \in old(p) : m \in 1 .. n
  BY DEF ClosingsOf
<1>7. \A p \in KnownCusips :
        /\ p \in DOMAIN PidOrderBooksMap <=> old(p) # {}
        /\ p \in DOMAIN PidOrderBooksMap =>
             \E m \in old(p) : /\ \A k \in old(p) : k <= m
                               /\ PidOrderBooksMap[p] = BookOf(feed, m, p)
  BY DEF FeedInv, BooksOf
<1>8. \A p : \A m \in old(p) : BookOf(feed', m, p) = BookOf(feed, m, p)
  BY <1>1, <1>6, BookOfSame
<1>9. ClosedBook(line) = BookOf(feed', n + 1, line.cusip)
  BY <1>2, <1>3 DEF ClosedBook, BookOf, StacksAreFeed
<1> HIDE DEF n, old, new
<1>10. ASSUME NEW p \in KnownCusips
       PROVE  /\ p \in DOMAIN PidOrderBooksMap' <=> new(p) # {}
              /\ p \in DOMAIN PidOrderBooksMap' =>
                   \E m \in new(p) : /\ \A k \in new(p) : k <= m
                                     /\ PidOrderBooksMap'[p] = BookOf(feed', m, p)
  <2>1. CASE p = line.cusip
    <3>1. n + 1 \in new(p) /\ p \in DOMAIN PidOrderBooksMap'
      BY <1>4, <1>5, <2>1
    <3>2. \A k \in new(p) : k <= n + 1
      BY <1>3, <1>4, <1>6, <2>1
    <3>3. PidOrderBooksMap'[p] = BookOf(feed', n + 1, p)
      BY <1>5, <1>9, <2>1
    <3> QED
      BY <3>1, <3>2, <3>3
  <2>2. CASE p # line.cusip
    <3>1. new(p) = old(p)
      BY <1>4, <2>2
    <3>2. p \in DOMAIN PidOrderBooksMap' <=> p \in DOMAIN PidOrderBooksMap
      BY <1>5, <2>2
    <3>3. p \in DOMAIN PidOrderBooksMap => PidOrderBooksMap'[p] = PidOrderBooksMap[p]
      BY <1>5, <2>2
    <3> QED
      BY <1>7, <1>8, <3>1, <3>2, <3>3
  <2> QED
    BY <2>1, <2>2
<1>11. BooksOf(feed', lineCount', PidOrderBooksMap')
  BY <1>3, <1>10 DEF BooksOf, new
<1> QED
  BY <1>2, <1>11 DEF FeedInv

LEMMA OtherStepKeepsBooks ==
  ASSUME AlgoInv, FeedInv, OtherStep
  PROVE  FeedInv'
<1>1. CASE \E line \in Line : BufferLine(line) \/ UnknownCusip(line)
  <2>1. PICK line \in Line : BufferLine(line) \/ UnknownCusip(line)
    BY <1>1
  <2> DEFINE n == lineCount
             old(p) == ClosingsOf(feed, n, p)
             new(p) == ClosingsOf(feed', n + 1, p)
  <2>2. /\ Push(line) /\ PidOrderBooksMap' = PidOrderBooksMap
        /\ (n + 1) % Window # 0 \/ line.cusip \notin KnownCusips
    BY <2>1 DEF BufferLine, UnknownCusip, WindowCloses
  <2>3. StacksAreFeed'
    BY <2>2, PushKeepsStacks DEF FeedInv
  <2>4. /\ n \in Nat /\ lineCount' = n + 1
        /\ feed'[n + 1] = line /\ \A i \in 1 .. n : feed'[i] = feed[i]
    BY <2>2, PushGrowsFeed
  <2>5. \A p \in KnownCusips : new(p) = old(p)
    <3>1. \A p : new(p) = old(p) \cup (IF (n + 1) % Window = 0 /\ line.cusip = p
                                       THEN {n + 1} ELSE {})
      <4> HIDE DEF n
      <4>1. \A p : new(p) = old(p) \cup (IF (n + 1) % Window = 0
                                            /\ feed'[n + 1].cusip = p
                                         THEN {n + 1} ELSE {})
        BY <2>4, ClosingsOfOneMore
      <4> HIDE DEF new, old
      <4> QED
        BY <2>4, <4>1
    <3> HIDE DEF new, old
    <3>2. \A p \in KnownCusips : ~ ((n + 1) % Window = 0 /\ line.cusip = p)
      BY <2>2, Zenon
    <3> HIDE DEF n
    <3> QED
      BY <3>1, <3>2
  <2>6. \A p : \A m \in old(p) : m \in 1 .. n
    BY DEF ClosingsOf
  <2>7. \A p : \A m \in old(p) : BookOf(feed', m, p) = BookOf(feed, m, p)
    BY <2>2, <2>6, BookOfSame
  <2>8. \A p \in KnownCusips :
          /\ p \in DOMAIN PidOrderBooksMap <=> old(p) # {}
          /\ p \in DOMAIN PidOrderBooksMap =>
               \E m \in old(p) : /\ \A k \in old(p) : k <= m
                                 /\ PidOrderBooksMap[p] = BookOf(feed, m, p)
    BY DEF FeedInv, BooksOf
  <2> HIDE DEF n, old, new
  <2>9. \A p \in KnownCusips :
          /\ p \in DOMAIN PidOrderBooksMap' <=> new(p) # {}
          /\ p \in DOMAIN PidOrderBooksMap' =>
               \E m \in new(p) : /\ \A k \in new(p) : k <= m
                                 /\ PidOrderBooksMap'[p] = BookOf(feed', m, p)
    BY <2>2, <2>5, <2>7, <2>8
  <2>10. BooksOf(feed', lineCount', PidOrderBooksMap')
    BY <2>4, <2>9 DEF BooksOf, new
  <2> QED
    BY <2>3, <2>10 DEF FeedInv
<1>2. CASE MalformedLine \/ EndOfFile
  <2>1. UNCHANGED <<lineCount, bidStack, offerStack, PidOrderBooksMap, feed>>
    BY <1>2 DEF MalformedLine, EndOfFile
  <2> QED
    BY <2>1 DEF FeedInv, StacksAreFeed
<1>3. CASE Stopped
  <2>1. UNCHANGED <<lineCount, bidStack, offerStack, PidOrderBooksMap, feed>>
    BY <1>3 DEF Stopped, marketDataVars
  <2> QED
    BY <2>1 DEF FeedInv, StacksAreFeed
<1> QED
  BY <1>1, <1>2, <1>3 DEF OtherStep

(***************************************************************************)
(* The book stored for a product is always the whole feed, each side in    *)
(* arrival order, up to and including the last line that closed a window   *)
(* for that product, and there is a book once a window closed on it.       *)
(***************************************************************************)
THEOREM BookAlwaysIsFeed == AlgoSpec => []BookIsFeedUpToLastClosing
<1>1. AlgoInit => FeedInv
  <2> SUFFICES ASSUME AlgoInit PROVE FeedInv
    OBVIOUS
  <2>1. /\ lineCount = 0 /\ feed = <<>> /\ bidStack = <<>> /\ offerStack = <<>>
        /\ DOMAIN PidOrderBooksMap = {} /\ Len(feed) = 0
    BY DEF AlgoInit, MarketDataInit, EmptyMap
  <2>2. \A p : ClosingsOf(feed, lineCount, p) = {}
    BY <2>1 DEF ClosingsOf
  <2> QED
    BY <2>1, <2>2, SideOfNone DEF FeedInv, StacksAreFeed, BooksOf
<1>2. AlgoInv /\ FeedInv /\ [AlgoNext]_vars => FeedInv'
  <2> SUFFICES ASSUME AlgoInv, FeedInv, [AlgoNext]_vars PROVE FeedInv'
    OBVIOUS
  <2>1. ASSUME NEW line \in Line, PublishAndExecute(line)
        PROVE  FeedInv'
    BY <2>1, PublishKeepsBooks DEF PublishAndExecute
  <2>2. CASE UNCHANGED vars
    BY <2>2 DEF vars, marketDataVars, FeedInv, StacksAreFeed
  <2> QED
    BY <2>1, <2>2, OtherStepKeepsBooks DEF AlgoNext
<1>3. FeedInv => BookIsFeedUpToLastClosing
  BY BookIsBooksOf DEF FeedInv
<1> QED
  BY <1>1, <1>2, <1>3, AlgoInvariant, PTL DEF AlgoSpec

=============================================================================
