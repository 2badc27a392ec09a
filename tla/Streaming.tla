----------------------------- MODULE Streaming ------------------------------
(***************************************************************************)
(* The pricing, algo streaming and streaming services and what they write: *)
(* pricingservice.hpp, algostreamingservice.hpp, streamingservice.hpp,     *)
(* wired as in main.cpp:53-56.                                             *)
(*                                                                         *)
(*   PricingService::OnMessage -> AlgoPublishPrice -> PublishPrice         *)
(*                                  -> PersistStream                       *)
(*                             -> UpdateGui                                *)
(*                                                                         *)
(* The calls are synchronous.  One action is the work of one handler up to *)
(* the next call, pc names that call, and a process that dies leaves the   *)
(* lines of streaming.txt it had written.  prices.txt is not written by    *)
(* the program: every run reads it again, from its first line.  The        *)
(* throttle behind UpdateGui is the subject of the module Gui.             *)
(*                                                                         *)
(* Prices are texts on a line of a file and numbers, in the units of the   *)
(* module Prices, in the services.                                         *)
(***************************************************************************)
EXTENDS Integers, Sequences, Maps, Prices

CONSTANTS
  Products,
  WirePrices,  \* prices as written in prices.txt
  Unreadable,  \* a line of prices.txt that GetBond or ConvertPrice throws on
  None,        \* no price in flight
  PricesFiles, \* the contents prices.txt may have
  MaxLines,    \* bound: lines of prices.txt
  MaxRuns      \* bound: runs of the program

ASSUME WirePriceAssumption == WirePrices \subseteq {t \in PriceText : t.whole >= 0}

PriceLine == [product : Products, bid : WirePrices, offer : WirePrices]

ASSUME UnreadableAssumption == Unreadable \notin PriceLine

ASSUME PricesFilesAssumption ==
  \A f \in PricesFiles : f \in Seq(PriceLine \cup {Unreadable}) /\ Len(f) <= MaxLines

Price == [product : Products, mid : Int, bidOfferSpread : Int]

PriceStreamOrder ==
  [price : Int, visibleQuantity : Nat, hiddenQuantity : Nat]

PriceStream ==
  [product : Products, bidOrder : PriceStreamOrder, offerOrder : PriceStreamOrder]

\* What ToStrings makes of an order, of a stream and of a price.
OrderStrings(o) ==
  [price |-> TextOf(o.price), visibleQuantity |-> o.visibleQuantity,
   hiddenQuantity |-> o.hiddenQuantity]

StreamStrings(s) ==
  [product |-> s.product, bidOrder |-> OrderStrings(s.bidOrder),
   offerOrder |-> OrderStrings(s.offerOrder)]

PriceStrings(p) ==
  [product |-> p.product, mid |-> TextOf(p.mid),
   bidOfferSpread |-> TextOf(p.bidOfferSpread)]

OrderLine == [price : PriceText, visibleQuantity : Nat, hiddenQuantity : Nat]

StreamLine == [product : Products, bidOrder : OrderLine, offerOrder : OrderLine]

ASSUME NoneAssumption == None \notin Price

VARIABLES
  pc,             \* the call about to be made
  price,          \* its arguments
  stream,
  PrdPricesMap,   \* PricingService, keyed on product
  algoStreams,    \* AlgoStreamingService, keyed on product
  streamCount,    \* its count
  priceStreams,   \* StreamingService, keyed on product
  guis,           \* GUIService, keyed on product
  pricesFile,     \* prices.txt, which stays as it is
  streamingFile,  \* streaming.txt, which outlives the process
  fed,            \* the lines read in this run
  mark,           \* history: the length of the file when the run began
  past            \* history: the runs that are over

maps == <<PrdPricesMap, algoStreams, streamCount, priceStreams, guis>>
streamingVars ==
  <<pc, price, stream, maps, pricesFile, streamingFile, fed, mark, past>>

StreamingInit ==
  /\ pc = "idle" /\ price = None /\ stream = None
  /\ PrdPricesMap = EmptyMap /\ algoStreams = EmptyMap /\ streamCount = 0
  /\ priceStreams = EmptyMap /\ guis = EmptyMap
  /\ pricesFile \in PricesFiles
  /\ streamingFile = <<>>
  /\ fed = <<>> /\ mark = 0 /\ past = <<>>

\* The mid and the spread of the two prices on a line.
Parse(line) ==
  [product |-> line.product,
   mid |-> (NumberOf(line.bid) + NumberOf(line.offer)) \div 2,
   bidOfferSpread |-> NumberOf(line.offer) - NumberOf(line.bid)]

AtEndOfFile == Len(fed) = Len(pricesFile)

NextLine == pricesFile[Len(fed) + 1]

\* PricingConnector::Subscribe reads a line, PricingService::OnMessage stores it.
ReadPrice ==
  /\ pc = "idle"
  /\ ~ AtEndOfFile /\ NextLine # Unreadable
  /\ price' = Parse(NextLine)
  /\ PrdPricesMap' = Put(PrdPricesMap, price'.product, price')
  /\ fed' = Append(fed, NextLine)
  /\ pc' = "algoPublish"
  /\ UNCHANGED <<stream, algoStreams, streamCount, priceStreams, guis>>
  /\ UNCHANGED <<pricesFile, streamingFile, mark, past>>

\* Half the spread below (sign -1) or above (sign 1) the mid.
SideOfMid(p, sign) == p.mid + sign * (p.bidOfferSpread \div 2)

\* Mutant: a third size follows the two.
VisibleOfThree(count) == ((count % 3) + 1) * 10000000

VisibleQuantity(count) == ((count % 2) + 1) * 10000000

\* Mutant: what is not visible of one size is hidden.
OrderAtRest(p, sign, count) ==
  [price |-> SideOfMid(p, sign), visibleQuantity |-> VisibleQuantity(count),
   hiddenQuantity |-> 10000000 - VisibleQuantity(count)]

\* An order at one side, with twice the visible size hidden.
OrderAt(p, sign, count) ==
  [price |-> SideOfMid(p, sign), visibleQuantity |-> VisibleQuantity(count),
   hiddenQuantity |-> 2 * VisibleQuantity(count)]

\* AlgoStreamingService::AlgoPublishPrice.
AlgoPublishPrice ==
  /\ pc = "algoPublish"
  /\ stream' = [product |-> price.product,
                bidOrder |-> OrderAt(price, -1, streamCount),
                offerOrder |-> OrderAt(price, 1, streamCount)]
  /\ streamCount' = streamCount + 1
  /\ algoStreams' = Put(algoStreams, price.product, stream')
  /\ pc' = "publish"
  /\ UNCHANGED <<price, PrdPricesMap, priceStreams, guis>>
  /\ UNCHANGED <<pricesFile, streamingFile, fed, mark, past>>

\* Mutant: the streaming service keeps the first stream of a product.
StoredStreamFirst == Put(priceStreams, stream.product,
                         Lookup(priceStreams, stream.product, stream))

\* StreamingService::OnMessage.
StoredStream == Put(priceStreams, stream.product, stream)

\* StreamingService::OnMessage and PublishPrice, up to its listener.
PublishPrice ==
  /\ pc = "publish"
  /\ priceStreams' = StoredStream
  /\ pc' = "persist"
  /\ UNCHANGED <<price, stream, PrdPricesMap, algoStreams, streamCount, guis>>
  /\ UNCHANGED <<pricesFile, streamingFile, fed, mark, past>>

\* Mutant: the pricing service's second listener is not called.
PersistStreamLast ==
  /\ pc = "persist"
  /\ streamingFile' = Append(streamingFile, StreamStrings(stream))
  /\ price' = None /\ stream' = None
  /\ pc' = "idle"
  /\ UNCHANGED <<maps, pricesFile, fed, mark, past>>

\* The historical streaming service.
PersistStream ==
  /\ pc = "persist"
  /\ streamingFile' = Append(streamingFile, StreamStrings(stream))
  /\ stream' = None
  /\ pc' = "gui"
  /\ UNCHANGED <<price, maps, pricesFile, fed, mark, past>>

\* Mutant: the GUI service does not return.
UpdateGuiForever ==
  /\ pc = "gui"
  /\ guis' = Put(guis, price.product, price)
  /\ UNCHANGED <<pc, price, stream, PrdPricesMap, algoStreams, streamCount>>
  /\ UNCHANGED <<priceStreams, pricesFile, streamingFile, fed, mark, past>>

\* GUIService::OnMessage, the second listener of the pricing service.
UpdateGui ==
  /\ pc = "gui"
  /\ guis' = Put(guis, price.product, price)
  /\ price' = None
  /\ pc' = "idle"
  /\ UNCHANGED <<stream, PrdPricesMap, algoStreams, streamCount, priceStreams>>
  /\ UNCHANGED <<pricesFile, streamingFile, fed, mark, past>>

-----------------------------------------------------------------------------
Dies ==
  /\ pc' = "dead"
  /\ UNCHANGED <<price, stream, maps, pricesFile, streamingFile, fed, mark, past>>

\* ConvertPrice or GetBond throws on a line, before anything is stored.
BadLine == pc = "idle" /\ ~ AtEndOfFile /\ NextLine = Unreadable /\ Dies

\* The process is killed between two handlers.
Crash == pc \notin {"idle", "dead"} /\ Dies

\* main goes on to the next file, or the process has died.
Over == (pc = "idle" /\ AtEndOfFile) \/ pc = "dead"

\* The memory of a new process, and prices.txt opened at its first line.
MemoryIsNew ==
  /\ pc' = "idle" /\ price' = None /\ stream' = None
  /\ PrdPricesMap' = EmptyMap /\ algoStreams' = EmptyMap /\ streamCount' = 0
  /\ priceStreams' = EmptyMap /\ guis' = EmptyMap
  /\ fed' = <<>>

ThisRun == [mark |-> mark, read |-> Len(fed), died |-> pc = "dead"]

\* Mutant: the program opens streaming.txt anew and not for appending.
RestartOverwriting ==
  /\ Over /\ Len(past) + 1 < MaxRuns
  /\ MemoryIsNew
  /\ streamingFile' = <<>> /\ mark' = 0
  /\ past' = Append(past, ThisRun)
  /\ UNCHANGED pricesFile

\* The program is run again, and appends to its file.
Restart ==
  /\ Over /\ Len(past) + 1 < MaxRuns
  /\ MemoryIsNew
  /\ mark' = Len(streamingFile)
  /\ past' = Append(past, ThisRun)
  /\ UNCHANGED <<pricesFile, streamingFile>>

\* The program is not run again.
Stopped == Over /\ UNCHANGED streamingVars

Handler == AlgoPublishPrice \/ PublishPrice \/ PersistStream \/ UpdateGui

StreamingNext ==
  \/ ReadPrice
  \/ Handler
  \/ BadLine
  \/ Crash
  \/ Restart
  \/ Stopped

\* A handler that was called runs on: one thread, which never waits.
StreamingSpec ==
  StreamingInit /\ [][StreamingNext]_streamingVars /\ WF_streamingVars(Handler)

-----------------------------------------------------------------------------
\* Types, and what a handler finds when it is called; quantities are never
\* negative.
StreamingTypeOK ==
  /\ pc \in {"idle", "algoPublish", "publish", "persist", "gui", "dead"}
  /\ price \in Price \cup {None} /\ stream \in PriceStream \cup {None}
  /\ pc \in {"algoPublish", "publish", "persist", "gui"} => price \in Price
  /\ pc \in {"publish", "persist"} => stream \in PriceStream
  /\ IsMap(PrdPricesMap, Products, Price) /\ IsMap(guis, Products, Price)
  /\ IsMap(algoStreams, Products, PriceStream)
  /\ IsMap(priceStreams, Products, PriceStream)
  /\ pricesFile \in Seq(PriceLine \cup {Unreadable})
  /\ streamingFile \in Seq(StreamLine)
  /\ streamCount \in Nat /\ mark \in Nat
  /\ past \in Seq([mark : Nat, read : Nat, died : BOOLEAN])

\* The line that the i-th line of prices.txt has to give: its bid and its
\* offer, with sizes that alternate from the first line on.
Streams(line, i) ==
  LET size == IF i % 2 = 1 THEN 10000000 ELSE 20000000
      Quotes(order, text) ==
        /\ NumberOf(order.price) = NumberOf(text)
        /\ order.visibleQuantity = size /\ order.hiddenQuantity = 2 * size
  IN  /\ line.product = pricesFile[i].product
      /\ Quotes(line.bidOrder, pricesFile[i].bid)
      /\ Quotes(line.offerOrder, pricesFile[i].offer)

(***************************************************************************)
(* Two-way prices survive the way from text through mid and spread back to *)
(* text: the i-th line this run added to streaming.txt is for the product  *)
(* of the i-th line of prices.txt, at exactly its bid and its offer, and   *)
(* the sizes alternate over the whole file whatever the products are.      *)
(* Only the price in flight may have no line yet.                          *)
(***************************************************************************)
StreamFileFollowsFeed ==
  LET written == Len(streamingFile) - mark
  IN  /\ written = Len(fed) \/ (pc # "idle" /\ written = Len(fed) - 1)
      /\ \A i \in 1 .. written : Streams(streamingFile[mark + i], i)

(***************************************************************************)
(* Between two lines the four services that keep something per product     *)
(* know the same products, and none of them is behind: the stream the      *)
(* streaming service vends is the one made from the price the pricing      *)
(* service vends, which is the price the GUI service has.                  *)
(***************************************************************************)
ServicesAgree ==
  pc = "idle" =>
    /\ guis = PrdPricesMap
    /\ priceStreams = algoStreams
    /\ DOMAIN priceStreams = DOMAIN PrdPricesMap
    /\ \A p \in DOMAIN priceStreams :
         LET bid == priceStreams[p].bidOrder.price
             offer == priceStreams[p].offerOrder.price
         IN  bid + offer = 2 * PrdPricesMap[p].mid
             /\ offer - bid = PrdPricesMap[p].bidOfferSpread

(***************************************************************************)
(* The mid that a line of gui.txt shows is cut off to a tick: it is at     *)
(* most half a tick below the mid, never above it, and never outside of    *)
(* the last two prices read for the product, crossed or not.  The spread   *)
(* it shows is exact.                                                      *)
(***************************************************************************)
MidShownInMarket ==
  pc = "idle" => \A p \in DOMAIN guis :
    LET line  == PriceStrings(guis[p])
        shown == NumberOf(line.mid)
        last  == CHOOSE i \in DOMAIN fed :
                   fed[i].product = p /\ \A j \in DOMAIN fed : fed[j].product = p => j <= i
        bid   == NumberOf(fed[last].bid)
        offer == NumberOf(fed[last].offer)
    IN  /\ shown <= guis[p].mid /\ guis[p].mid <= shown + 1
        /\ (bid <= shown /\ shown <= offer) \/ (offer <= shown /\ shown <= bid)
        /\ NumberOf(line.bidOfferSpread) = offer - bid

\* What was on file when the r-th run began.
Begin(r) == IF r > Len(past) THEN mark ELSE past[r].mark

(***************************************************************************)
(* What is in streaming.txt after any number of runs over one prices.txt,  *)
(* however they ended: one block of lines per run and nothing else.  The   *)
(* block of a run that ended by itself is the whole of prices.txt, line by *)
(* line; that of a run that died is a beginning of it, up to the last line *)
(* the run had read or to the line before.  So no run repeats or leaves    *)
(* out a line or carries on the sizes of another; but a run does repeat    *)
(* the lines of the runs before it, also of one that died half-way.        *)
(***************************************************************************)
EachRunStreamsPricesAgain ==
  LET Written(r) == Begin(r + 1) - Begin(r)
  IN  /\ Begin(1) = 0
      /\ \A r \in 1 .. Len(past) :
           /\ IF past[r].died
              THEN Written(r) \in {past[r].read, past[r].read - 1}
              ELSE Written(r) = Len(pricesFile)
           /\ \A i \in 1 .. Written(r) : Streams(streamingFile[Begin(r) + i], i)

(***************************************************************************)
(* Every price read is streamed, reaches the GUI service, and Subscribe    *)
(* gets to the next line, unless the process dies first.                   *)
(***************************************************************************)
PriceIsDistributed ==
  \A n \in 1 .. MaxLines :
    (pc # "dead" /\ Len(fed) = n)
      ~> (pc = "dead" \/ (pc = "idle" /\ Len(streamingFile) - mark >= n))

(***************************************************************************)
(* The calls still to be made at each pc are those the listeners main      *)
(* registered would make: the order of the actions here is that of Wiring. *)
(***************************************************************************)
Add(listener) == [to |-> listener, event |-> "add"]

CallsPending ==
  CASE pc = "algoPublish" -> <<Add("algoStreaming"), Add("gui")>>
    [] pc = "publish"     -> <<Add("streaming"), Add("gui")>>
    [] pc = "persist"     -> <<Add("historicalStreaming"), Add("gui")>>
    [] pc = "gui"         -> <<Add("gui")>>
    [] OTHER              -> <<>>

Wires == INSTANCE Wiring WITH Sources <- {"pricing"}, alive <- (pc # "dead"), pending <- CallsPending
StreamingImplementsWiring == Wires!WiringSpec

=============================================================================
