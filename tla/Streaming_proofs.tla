-------------------------- MODULE Streaming_proofs ---------------------------
(***************************************************************************)
(* Theorems about Prices and Streaming, for every set of products and of   *)
(* prices and every number of lines, abnormal ends and runs.               *)
(***************************************************************************)
EXTENDS Streaming, Induction_proofs, SequenceTheorems

-----------------------------------------------------------------------------
(* Prices. *)

\* The texts that the program itself writes, and the data files hold.
WrittenText ==
  {t \in PriceText : t.xy \in 0 .. 31 /\ t.z \in {PLUS, 0, 1, 2, 3, 5, 6, 7}}

(***************************************************************************)
(* ConvertPrice writes a text of the usual form for every number, and the  *)
(* text stands for the number cut off to a tick: never above it and less   *)
(* than a tick below it.  It holds of negative numbers, such as the spread *)
(* of a crossed market, too.                                               *)
(***************************************************************************)
THEOREM TextIsNumberToATick ==
  ASSUME NEW number \in Int
  PROVE  /\ TextOf(number) \in WrittenText
         /\ NumberOf(TextOf(number)) \in {number, number - 1}
<1> DEFINE whole == number \div 512
           rest  == number % 512
           ticks == rest \div 2
<1>1. whole \in Int /\ rest \in 0 .. 511 /\ number = 512 * whole + rest
  OBVIOUS
<1>2. ticks \in 0 .. 255 /\ (rest = 2 * ticks \/ rest = 2 * ticks + 1)
  BY <1>1
<1> DEFINE xy == ticks \div 8
           eighths == ticks % 8
<1>3. TextOf(number) = [whole |-> whole, xy |-> xy, z |-> Character(eighths)]
  BY DEF TextOf, Ticks
<1> HIDE DEF whole, rest, ticks
<1>4. xy \in 0 .. 31 /\ eighths \in 0 .. 7 /\ ticks = 8 * xy + eighths
  BY <1>2
<1> HIDE DEF xy, eighths
<1>5. /\ Character(eighths) \in {PLUS, 0, 1, 2, 3, 5, 6, 7}
      /\ Eighths(Character(eighths)) = eighths
  BY <1>4 DEF Character, Eighths, PLUS
<1>6. TextOf(number) \in WrittenText
  BY <1>1, <1>3, <1>4, <1>5 DEF WrittenText, PriceText, PLUS
<1>7. NumberOf(TextOf(number)) = 512 * whole + 2 * ticks
  <2>1. NumberOf(TextOf(number)) = 512 * whole + 16 * xy + 2 * eighths
    BY <1>3, <1>5 DEF NumberOf
  <2> QED
    BY <1>1, <1>4, <2>1
<1> QED
  BY <1>1, <1>2, <1>6, <1>7

(***************************************************************************)
(* A text of the usual form survives the way to a number and back.         *)
(***************************************************************************)
THEOREM TextSurvives ==
  ASSUME NEW text \in WrittenText
  PROVE  TextOf(NumberOf(text)) = text
<1> DEFINE eighths == Eighths(text.z)
           number  == NumberOf(text)
           ticks   == 8 * text.xy + eighths
<1>1. /\ text.whole \in Int /\ text.xy \in 0 .. 31
      /\ text.z \in {PLUS, 0, 1, 2, 3, 5, 6, 7}
      /\ text = [whole |-> text.whole, xy |-> text.xy, z |-> text.z]
  BY DEF WrittenText, PriceText
<1>2. eighths \in 0 .. 7 /\ Character(eighths) = text.z
  BY <1>1 DEF Eighths, Character, PLUS
<1>3. number = 512 * text.whole + 2 * ticks
  BY <1>1, <1>2 DEF NumberOf
<1> HIDE DEF eighths, number
<1>4. ticks \in 0 .. 255 /\ ticks \div 8 = text.xy /\ ticks % 8 = eighths
  BY <1>1, <1>2
<1> HIDE DEF ticks
<1>5. number \div 512 = text.whole /\ number % 512 = 2 * ticks
  BY <1>1, <1>3, <1>4
<1>6. Ticks(number) = ticks
  BY <1>4, <1>5 DEF Ticks
<1>7. TextOf(number) = [whole |-> text.whole, xy |-> text.xy, z |-> text.z]
  BY <1>2, <1>4, <1>5, <1>6 DEF TextOf
<1> QED
  BY <1>1, <1>7 DEF number

\* A price read from a text is a whole number of ticks.
LEMMA NumberIsTicks ==
  ASSUME NEW text \in PriceText
  PROVE  \E n \in Int : NumberOf(text) = 2 * n
<1>1. text.whole \in Int /\ text.xy \in Int /\ Eighths(text.z) \in Int
  BY DEF PriceText, Eighths, PLUS, NUL
<1>2. 256 * text.whole + 8 * text.xy + Eighths(text.z) \in Int
  BY <1>1
<1>3. NumberOf(text) = 2 * (256 * text.whole + 8 * text.xy + Eighths(text.z))
  BY <1>1 DEF NumberOf
<1> QED
  BY <1>2, <1>3

LEMMA TextOfType ==
  ASSUME NEW number \in Int
  PROVE  TextOf(number) \in PriceText
BY TextIsNumberToATick DEF WrittenText

\* A whole number of ticks is written without loss.
LEMMA TicksAreExact ==
  ASSUME NEW n \in Int
  PROVE  NumberOf(TextOf(2 * n)) = 2 * n
<1>1. NumberOf(TextOf(2 * n)) \in {2 * n, 2 * n - 1}
  BY TextIsNumberToATick
<1>2. PICK k \in Int : NumberOf(TextOf(2 * n)) = 2 * k
  BY TextOfType, NumberIsTicks
<1> QED
  BY <1>1, <1>2

-----------------------------------------------------------------------------
(* What the handlers make of a line. *)

StreamOf(p, count) ==
  [product |-> p.product, bidOrder |-> OrderAt(p, -1, count),
   offerOrder |-> OrderAt(p, 1, count)]

\* The mid and the spread, and the way back to the two prices.
LEMMA MidAndSpread ==
  ASSUME NEW line \in PriceLine
  PROVE  LET p == Parse(line)
             b == NumberOf(line.bid)
             o == NumberOf(line.offer)
         IN  /\ p \in Price /\ b \in Int /\ o \in Int
             /\ b + o = 2 * p.mid /\ p.bidOfferSpread = o - b
             /\ SideOfMid(p, -1) = b /\ SideOfMid(p, 1) = o
             /\ \E n \in Int : b = 2 * n
             /\ \E n \in Int : o = 2 * n
<1> DEFINE p == Parse(line)
           b == NumberOf(line.bid)
           o == NumberOf(line.offer)
<1>1. line.bid \in PriceText /\ line.offer \in PriceText /\ line.product \in Products
  BY WirePriceAssumption DEF PriceLine
<1>2. PICK i \in Int : b = 2 * i
  BY <1>1, NumberIsTicks
<1>3. PICK j \in Int : o = 2 * j
  BY <1>1, NumberIsTicks
<1>4. /\ p.mid = (b + o) \div 2 /\ p.bidOfferSpread = o - b /\ p.product = line.product
      /\ p = [product |-> line.product, mid |-> (b + o) \div 2, bidOfferSpread |-> o - b]
  BY DEF Parse
<1> HIDE DEF b, o, p
<1>5. p.mid = i + j /\ p.bidOfferSpread = 2 * (j - i) /\ p.bidOfferSpread \div 2 = j - i
  BY <1>2, <1>3, <1>4
<1>6. SideOfMid(p, -1) = b /\ SideOfMid(p, 1) = o
  BY <1>2, <1>3, <1>5 DEF SideOfMid
<1>7. p \in Price
  BY <1>1, <1>2, <1>3, <1>4, <1>5 DEF Price
<1> QED
  BY <1>2, <1>3, <1>4, <1>5, <1>6, <1>7 DEF b, o, p

LEMMA OrderAtType ==
  ASSUME NEW p \in Price, NEW sign \in {-1, 1}, NEW count \in Nat
  PROVE  OrderAt(p, sign, count) \in PriceStreamOrder
<1>1. p.mid \in Int /\ p.bidOfferSpread \div 2 \in Int
  BY DEF Price
<1>2. SideOfMid(p, sign) \in Int
  BY <1>1 DEF SideOfMid
<1>3. count % 2 \in 0 .. 1
  OBVIOUS
<1>4. VisibleQuantity(count) \in Nat
  BY <1>3 DEF VisibleQuantity
<1> QED
  BY <1>2, <1>4 DEF OrderAt, PriceStreamOrder

LEMMA StreamOfType ==
  ASSUME NEW p \in Price, NEW count \in Nat
  PROVE  StreamOf(p, count) \in PriceStream
<1>1. p.product \in Products
  BY DEF Price
<1> QED
  BY <1>1, OrderAtType DEF StreamOf, PriceStream

LEMMA StreamStringsType ==
  ASSUME NEW s \in PriceStream
  PROVE  StreamStrings(s) \in StreamLine
<1>1. s.bidOrder \in PriceStreamOrder /\ s.offerOrder \in PriceStreamOrder
      /\ s.product \in Products
  BY DEF PriceStream
<1>2. \A o \in PriceStreamOrder : OrderStrings(o) \in OrderLine
  BY TextOfType DEF PriceStreamOrder, OrderStrings, OrderLine
<1> QED
  BY <1>1, <1>2 DEF StreamStrings, StreamLine

LEMMA PutIsMap ==
  ASSUME NEW K, NEW V, NEW map, IsMap(map, K, V), NEW k \in K, NEW v \in V
  PROVE  IsMap(Put(map, k, v), K, V)
BY DEF IsMap, Put

-----------------------------------------------------------------------------
(***************************************************************************)
(* The invariant.  The price in flight is that of the last line read, the  *)
(* stream in flight the one made from it, and the counter counts the lines *)
(* of this run; what is in the file follows from the feed alone.           *)
(***************************************************************************)
Alive == pc # "dead"
InFlight == pc \in {"algoPublish", "publish", "persist", "gui"}
Unwritten == pc \in {"algoPublish", "publish", "persist"}

FlightInv ==
  /\ fed \in Seq(PriceLine) /\ Len(fed) <= Len(pricesFile)
  /\ \A i \in 1 .. Len(fed) : fed[i] = pricesFile[i]
  /\ Alive => streamCount = Len(fed) - (IF pc = "algoPublish" THEN 1 ELSE 0)
  /\ InFlight => fed # <<>> /\ price = Parse(fed[Len(fed)])
  /\ pc \in {"publish", "persist"} => stream = StreamOf(price, Len(fed) - 1)

\* The line that the i-th line of prices.txt gives.
LineDue(i) == StreamStrings(StreamOf(Parse(pricesFile[i]), i - 1))

FileInv ==
  LET written == Len(streamingFile) - mark
  IN  /\ 0 <= written
      /\ Alive => written = Len(fed) - (IF Unwritten THEN 1 ELSE 0)
      /\ written \in {Len(fed), Len(fed) - 1}
      /\ \A i \in 1 .. written :
           streamingFile[mark + i] = LineDue(i)

\* A run that is over wrote a beginning of what prices.txt gives.
RunInv(r) ==
  LET written == Begin(r + 1) - Begin(r)
  IN  /\ 0 <= written /\ Begin(r + 1) <= mark
      /\ IF past[r].died THEN written \in {past[r].read, past[r].read - 1}
                         ELSE written = Len(pricesFile)
      /\ \A i \in 1 .. written :
           pricesFile[i] \in PriceLine /\ streamingFile[Begin(r) + i] = LineDue(i)

PastInv == Begin(1) = 0 /\ \A r \in 1 .. Len(past) : RunInv(r)

\* The stream is made from the price.
MadeFrom(s, p) ==
  /\ s.bidOrder.price + s.offerOrder.price = 2 * p.mid
  /\ s.offerOrder.price - s.bidOrder.price = p.bidOfferSpread

\* Where a service is behind: at the product in flight, until it is called.
AgreeInv ==
  LET behind(p, pcs) == pc \in pcs /\ p = price.product
  IN  Alive =>
        /\ DOMAIN guis \cup DOMAIN algoStreams \cup DOMAIN priceStreams
             \subseteq DOMAIN PrdPricesMap
        /\ DOMAIN priceStreams \subseteq DOMAIN algoStreams
        /\ \A p \in DOMAIN PrdPricesMap :
             /\ \/ behind(p, {"algoPublish", "publish", "persist", "gui"})
                \/ p \in DOMAIN guis /\ guis[p] = PrdPricesMap[p]
             /\ \/ behind(p, {"algoPublish"})
                \/ p \in DOMAIN algoStreams /\ MadeFrom(algoStreams[p], PrdPricesMap[p])
             /\ \/ behind(p, {"algoPublish", "publish"})
                \/ p \in DOMAIN priceStreams /\ priceStreams[p] = algoStreams[p]
        /\ InFlight => price.product \in DOMAIN PrdPricesMap
                       /\ PrdPricesMap[price.product] = price
        /\ pc = "publish" => /\ stream.product = price.product
                             /\ algoStreams[price.product] = stream

\* The price kept for a product is that of the last line read for it.
LastFor(i, p) ==
  /\ i \in DOMAIN fed /\ fed[i].product = p
  /\ \A j \in DOMAIN fed : fed[j].product = p => j <= i

LastInv ==
  Alive => \A p \in DOMAIN PrdPricesMap :
             \E i \in DOMAIN fed : LastFor(i, p) /\ PrdPricesMap[p] = Parse(fed[i])

-----------------------------------------------------------------------------
(* Type correctness and what is in flight. *)

LEMMA ReadsNextLine ==
  ASSUME StreamingTypeOK, FlightInv, ReadPrice
  PROVE  /\ NextLine \in PriceLine /\ fed' = Append(fed, NextLine)
         /\ price' = Parse(NextLine) /\ price'.product = NextLine.product
         /\ Len(fed) + 1 \in 1 .. Len(pricesFile)
<1>1. Len(fed) \in Nat /\ Len(pricesFile) \in Nat
  BY DEF FlightInv, StreamingTypeOK
<1>2. Len(fed) + 1 \in 1 .. Len(pricesFile)
  BY <1>1 DEF ReadPrice, AtEndOfFile, FlightInv
<1>3. NextLine \in PriceLine
  BY <1>2 DEF ReadPrice, NextLine, StreamingTypeOK
<1> QED
  BY <1>2, <1>3 DEF ReadPrice, Parse

LEMMA ReadPriceKeepsFlight ==
  ASSUME StreamingTypeOK, FlightInv, ReadPrice
  PROVE  StreamingTypeOK' /\ FlightInv'
<1> DEFINE line == NextLine
<1>1. /\ line \in PriceLine /\ fed' = Append(fed, line) /\ price' = Parse(line)
      /\ line = pricesFile[Len(fed) + 1] /\ Len(fed) + 1 <= Len(pricesFile)
  BY ReadsNextLine DEF NextLine
<1> HIDE DEF line
<1>2. price' \in Price /\ price'.product \in Products
  BY <1>1, MidAndSpread DEF Price
<1>3. IsMap(PrdPricesMap', Products, Price)
  BY <1>2, PutIsMap DEF ReadPrice, StreamingTypeOK
<1>4. StreamingTypeOK'
  BY <1>2, <1>3 DEF ReadPrice, StreamingTypeOK
<1>5. /\ fed' \in Seq(PriceLine) /\ Len(fed') = Len(fed) + 1 /\ fed'[Len(fed')] = line
      /\ Len(fed) \in Nat /\ fed' # <<>>
      /\ \A i \in 1 .. Len(fed) : fed'[i] = fed[i]
  BY <1>1, AppendProperties DEF FlightInv
<1>6. streamCount' = Len(fed) /\ pc' = "algoPublish" /\ pricesFile' = pricesFile
  BY DEF ReadPrice, FlightInv, Alive
<1>7. \A i \in 1 .. Len(fed') : fed'[i] = pricesFile'[i]
  BY <1>1, <1>5, <1>6 DEF FlightInv
<1>8. FlightInv'
  BY <1>1, <1>5, <1>6, <1>7 DEF FlightInv
<1> QED
  BY <1>4, <1>8

LEMMA AlgoPublishKeepsFlight ==
  ASSUME StreamingTypeOK, FlightInv, AlgoPublishPrice
  PROVE  StreamingTypeOK' /\ FlightInv'
<1>1. price \in Price /\ price.product \in Products /\ streamCount \in Nat
  BY DEF AlgoPublishPrice, StreamingTypeOK, Price
<1>2. stream' = StreamOf(price, streamCount) /\ stream' \in PriceStream
  BY <1>1, StreamOfType DEF AlgoPublishPrice, StreamOf
<1>3. IsMap(algoStreams', Products, PriceStream)
  BY <1>1, <1>2, PutIsMap DEF AlgoPublishPrice, StreamingTypeOK
<1>4. StreamingTypeOK'
  BY <1>1, <1>2, <1>3 DEF AlgoPublishPrice, StreamingTypeOK
<1>5. Len(fed) \in Nat /\ streamCount = Len(fed) - 1
  BY DEF AlgoPublishPrice, FlightInv, Alive
<1>6. FlightInv'
  BY <1>2, <1>5 DEF AlgoPublishPrice, FlightInv, InFlight
<1> QED
  BY <1>4, <1>6

LEMMA OthersKeepFlight ==
  ASSUME StreamingTypeOK, FlightInv,
         \/ PublishPrice \/ PersistStream \/ UpdateGui
         \/ BadLine \/ Crash \/ Restart \/ UNCHANGED streamingVars
  PROVE  StreamingTypeOK' /\ FlightInv'
<1>1. CASE PublishPrice
  <2>1. stream \in PriceStream /\ stream.product \in Products
    BY <1>1 DEF PublishPrice, StreamingTypeOK, PriceStream
  <2>2. IsMap(priceStreams', Products, PriceStream)
    BY <1>1, <2>1, PutIsMap DEF PublishPrice, StoredStream, StreamingTypeOK
  <2> QED
    BY <1>1, <2>2 DEF PublishPrice, StreamingTypeOK, FlightInv, InFlight, Alive
<1>2. CASE PersistStream
  <2>1. streamingFile' \in Seq(StreamLine)
    BY <1>2, StreamStringsType DEF PersistStream, StreamingTypeOK
  <2> QED
    BY <1>2, <2>1 DEF PersistStream, StreamingTypeOK, FlightInv, InFlight, Alive, maps
<1>3. CASE UpdateGui
  <2>1. price \in Price /\ price.product \in Products
    BY <1>3 DEF UpdateGui, StreamingTypeOK, Price
  <2>2. IsMap(guis', Products, Price)
    BY <1>3, <2>1, PutIsMap DEF UpdateGui, StreamingTypeOK
  <2> QED
    BY <1>3, <2>2 DEF UpdateGui, StreamingTypeOK, FlightInv, InFlight, Alive
<1>4. CASE BadLine \/ Crash
  BY <1>4 DEF BadLine, Crash, Dies, StreamingTypeOK, FlightInv, InFlight, Alive, maps
<1>5. CASE Restart
  <2>1. Len(fed) \in Nat /\ Len(streamingFile) \in Nat /\ Len(pricesFile) \in Nat
    BY DEF FlightInv, StreamingTypeOK
  <2>2. past' \in Seq([mark : Nat, read : Nat, died : BOOLEAN])
    BY <1>5, <2>1 DEF Restart, ThisRun, StreamingTypeOK
  <2> QED
    BY <1>5, <2>1, <2>2
    DEF Restart, MemoryIsNew, StreamingTypeOK, FlightInv, InFlight, Alive, IsMap, EmptyMap
<1>6. CASE UNCHANGED streamingVars
  BY <1>6 DEF streamingVars, maps, StreamingTypeOK, FlightInv, InFlight, Alive
<1> QED
  BY <1>1, <1>2, <1>3, <1>4, <1>5, <1>6

LEMMA FlightStep ==
  ASSUME StreamingTypeOK, FlightInv, [StreamingNext]_streamingVars
  PROVE  StreamingTypeOK' /\ FlightInv'
BY ReadPriceKeepsFlight, AlgoPublishKeepsFlight, OthersKeepFlight
DEF StreamingNext, Handler, Stopped

LEMMA FlightInvariant == StreamingSpec => [](StreamingTypeOK /\ FlightInv)
<1>1. StreamingInit => StreamingTypeOK /\ FlightInv
  BY PricesFilesAssumption
  DEF StreamingInit, StreamingTypeOK, FlightInv, InFlight, Alive, IsMap, EmptyMap
<1> QED
  BY <1>1, FlightStep, PTL DEF StreamingSpec

(***************************************************************************)
(* Every variable keeps its type through all runs: no handler finds its    *)
(* argument missing, and no line has a price that cannot be read again.    *)
(***************************************************************************)
THEOREM StreamingTypeCorrect == StreamingSpec => []StreamingTypeOK
BY FlightInvariant, PTL

-----------------------------------------------------------------------------
(* The file. *)

LEMMA FileStep ==
  ASSUME StreamingTypeOK, FlightInv, FileInv, [StreamingNext]_streamingVars
  PROVE  FileInv'
<1>1. /\ Len(fed) \in Nat /\ Len(streamingFile) \in Nat /\ mark \in Nat
      /\ fed \in Seq(PriceLine) /\ streamingFile \in Seq(StreamLine)
  BY DEF StreamingTypeOK, FlightInv
<1>2. CASE ReadPrice
  <2>1. /\ fed' = Append(fed, NextLine) /\ NextLine \in PriceLine
        /\ pc = "idle" /\ pc' = "algoPublish" /\ UNCHANGED <<streamingFile, pricesFile, mark>>
    BY <1>2, ReadsNextLine DEF ReadPrice
  <2>2. Len(fed') = Len(fed) + 1
    BY <1>1, <2>1, AppendProperties
  <2>3. Len(streamingFile) - mark = Len(fed)
    BY <2>1 DEF FileInv, Alive, Unwritten
  <2> QED
    BY <1>1, <2>1, <2>2, <2>3 DEF FileInv, Alive, Unwritten, LineDue
<1>3. CASE PersistStream
  <2> DEFINE last == LineDue(Len(fed))
  <2>0. Len(fed) \in 1 .. Len(fed) /\ fed[Len(fed)] = pricesFile[Len(fed)]
    BY <1>1, <1>3 DEF PersistStream, FlightInv, InFlight
  <2>1. /\ pc = "persist" /\ pc' = "gui" /\ UNCHANGED <<fed, mark, pricesFile>>
        /\ stream \in PriceStream /\ streamingFile' = Append(streamingFile, last)
    BY <1>3, <2>0 DEF PersistStream, StreamingTypeOK, FlightInv, InFlight, LineDue
  <2>2. last \in StreamLine
    BY <1>3, <2>0, <2>1, StreamStringsType DEF FlightInv, InFlight, LineDue
  <2> HIDE DEF last
  <2>3. /\ Len(streamingFile') = Len(streamingFile) + 1
        /\ \A i \in 1 .. Len(streamingFile) : streamingFile'[i] = streamingFile[i]
        /\ streamingFile'[Len(streamingFile) + 1] = last
    BY <1>1, <2>1, <2>2, AppendProperties
  <2>4. Len(streamingFile) - mark = Len(fed) - 1
    BY <2>1 DEF FileInv, Alive, Unwritten
  <2>5. ASSUME NEW i \in 1 .. Len(fed)
        PROVE  streamingFile'[mark + i] = LineDue(i)
    <3>1. CASE i = Len(fed)
      <4>1. mark + i = Len(streamingFile) + 1
        BY <1>1, <2>4, <3>1
      <4> QED
        BY <2>3, <3>1, <4>1 DEF last
    <3>2. CASE i # Len(fed)
      <4>1. i \in 1 .. Len(streamingFile) - mark /\ mark + i \in 1 .. Len(streamingFile)
        BY <1>1, <2>4, <3>2
      <4> QED
        BY <2>3, <4>1 DEF FileInv
    <3> QED
      BY <3>1, <3>2
  <2>6. Len(streamingFile') - mark' = Len(fed') /\ Len(fed') \in Nat
    BY <1>1, <2>1, <2>3, <2>4
  <2>7. \A i \in 1 .. Len(fed') :
          streamingFile'[mark' + i] = LineDue(i)'
    <3>1. fed' = fed /\ mark' = mark /\ pricesFile' = pricesFile
      BY <2>1
    <3> QED
      BY <2>5, <3>1 DEF LineDue
  <2>8. ~ Unwritten' /\ Len(fed') >= 0
    BY <2>1, <2>6 DEF Unwritten
  <2> QED
    BY <2>6, <2>7, <2>8 DEF FileInv
<1>4. CASE Restart
  BY <1>1, <1>4 DEF Restart, MemoryIsNew, FileInv, Alive, Unwritten
<1>5. ASSUME UNCHANGED <<fed, streamingFile, pricesFile, mark>>,
             Alive' => Alive /\ Unwritten' = Unwritten
      PROVE  FileInv'
  BY <1>5 DEF FileInv, LineDue
<1>6. CASE AlgoPublishPrice \/ PublishPrice \/ UpdateGui \/ BadLine \/ Crash
  BY <1>5, <1>6 DEF AlgoPublishPrice, PublishPrice, UpdateGui, BadLine, Crash, Dies,
     Alive, Unwritten
<1>7. CASE UNCHANGED streamingVars
  BY <1>5, <1>7 DEF streamingVars, Alive, Unwritten
<1> QED
  BY <1>2, <1>3, <1>4, <1>6, <1>7 DEF StreamingNext, Handler, Stopped

LEMMA FileInvariant == StreamingSpec => []FileInv
<1>1. StreamingInit => FileInv
  BY DEF StreamingInit, FileInv, Alive, Unwritten
<1> QED
  BY <1>1, FileStep, FlightInvariant, PTL DEF StreamingSpec

\* Sizes alternate between the two.
LEMMA Sizes ==
  ASSUME NEW i \in Nat, i > 0
  PROVE  VisibleQuantity(i - 1) = IF i % 2 = 1 THEN 10000000 ELSE 20000000
<1>1. \/ i % 2 = 1 /\ (i - 1) % 2 = 0
      \/ i % 2 = 0 /\ (i - 1) % 2 = 1
  OBVIOUS
<1>2. CASE (i - 1) % 2 = 0
  BY SMT, <1>1, <1>2 DEF VisibleQuantity
<1>3. CASE (i - 1) % 2 = 1
  BY SMT, <1>1, <1>3 DEF VisibleQuantity
<1> QED
  BY SMT, <1>1, <1>2, <1>3

\* A line that is due has the two prices and the size that were due.
LEMMA LineDueStreams ==
  ASSUME NEW i \in Nat, i > 0, pricesFile[i] \in PriceLine
  PROVE  Streams(LineDue(i), i)
<1> DEFINE text == pricesFile[i]
           p == Parse(text)
           size == IF i % 2 = 1 THEN 10000000 ELSE 20000000
<1>1. /\ SideOfMid(p, -1) = NumberOf(text.bid)
      /\ SideOfMid(p, 1) = NumberOf(text.offer)
      /\ p.product = text.product
  BY MidAndSpread DEF Parse
<1>2. /\ NumberOf(TextOf(SideOfMid(p, -1))) = NumberOf(text.bid)
      /\ NumberOf(TextOf(SideOfMid(p, 1))) = NumberOf(text.offer)
  BY <1>1, MidAndSpread, TicksAreExact
<1>3. VisibleQuantity(i - 1) = size
  BY Sizes
<1>4. LineDue(i) = StreamStrings(StreamOf(p, i - 1))
  BY DEF LineDue
<1> HIDE DEF p, size
<1>5. /\ LineDue(i).product = text.product
      /\ NumberOf(LineDue(i).bidOrder.price) = NumberOf(text.bid)
      /\ NumberOf(LineDue(i).offerOrder.price) = NumberOf(text.offer)
      /\ LineDue(i).bidOrder.visibleQuantity = size
      /\ LineDue(i).bidOrder.hiddenQuantity = 2 * size
      /\ LineDue(i).offerOrder.visibleQuantity = size
      /\ LineDue(i).offerOrder.hiddenQuantity = 2 * size
  BY <1>1, <1>2, <1>3, <1>4 DEF StreamStrings, StreamOf, OrderStrings, OrderAt
<1> QED
  BY <1>5 DEF Streams, size

(***************************************************************************)
(* Whatever two-way prices are read, crossed or not, each line of          *)
(* streaming.txt is exactly the two prices of its line of prices.txt, in   *)
(* order, with the size that was due.                                      *)
(***************************************************************************)
THEOREM StreamFileAlwaysFollowsFeed == StreamingSpec => []StreamFileFollowsFeed
<1>1. StreamingTypeOK /\ FlightInv /\ FileInv => StreamFileFollowsFeed
  <2> SUFFICES ASSUME StreamingTypeOK, FlightInv, FileInv
               PROVE  StreamFileFollowsFeed
    OBVIOUS
  <2> DEFINE written == Len(streamingFile) - mark
  <2>1. written = Len(fed) \/ (pc # "idle" /\ written = Len(fed) - 1)
    BY DEF FileInv, Alive, Unwritten
  <2>2. Len(fed) \in Nat /\ written \in Int /\ written <= Len(fed)
    BY <2>1 DEF FlightInv, StreamingTypeOK
  <2>3. ASSUME NEW i \in 1 .. written
        PROVE  Streams(streamingFile[mark + i], i)
    <3>1. i \in Nat /\ i > 0 /\ pricesFile[i] \in PriceLine
      BY <2>2 DEF FlightInv
    <3>2. streamingFile[mark + i] = LineDue(i)
      BY DEF FileInv
    <3> QED
      BY <3>1, <3>2, LineDueStreams
  <2> QED
    BY <2>1, <2>3 DEF StreamFileFollowsFeed
<1> QED
  BY <1>1, FileInvariant, FlightInvariant, PTL

-----------------------------------------------------------------------------
(* The four services. *)

\* A stream made from a price that was read has the price's mid and spread.
LEMMA StreamIsMadeFrom ==
  ASSUME NEW line \in PriceLine, NEW count
  PROVE  MadeFrom(StreamOf(Parse(line), count), Parse(line))
<1> DEFINE p == Parse(line)
<1>1. /\ NumberOf(line.bid) \in Int /\ NumberOf(line.offer) \in Int
      /\ SideOfMid(p, -1) = NumberOf(line.bid) /\ SideOfMid(p, 1) = NumberOf(line.offer)
      /\ NumberOf(line.bid) + NumberOf(line.offer) = 2 * p.mid
      /\ p.bidOfferSpread = NumberOf(line.offer) - NumberOf(line.bid)
  BY MidAndSpread
<1>2. StreamOf(p, count).bidOrder.price = SideOfMid(p, -1)
      /\ StreamOf(p, count).offerOrder.price = SideOfMid(p, 1)
  BY DEF StreamOf, OrderAt
<1> DEFINE s == StreamOf(p, count)
<1> HIDE DEF p, s
<1>3. s.bidOrder.price = NumberOf(line.bid) /\ s.offerOrder.price = NumberOf(line.offer)
  BY <1>1, <1>2 DEF s
<1>4. MadeFrom(s, p)
  BY <1>1, <1>3 DEF MadeFrom
<1> QED
  BY <1>4 DEF s, p

LEMMA AgreeStep ==
  ASSUME StreamingTypeOK, FlightInv, AgreeInv, [StreamingNext]_streamingVars
  PROVE  AgreeInv'
<1>1. CASE ReadPrice
  <2> DEFINE product == price'.product
  <2>1. /\ pc = "idle" /\ pc' = "algoPublish"
        /\ PrdPricesMap' = Put(PrdPricesMap, product, price')
        /\ UNCHANGED <<algoStreams, priceStreams, guis>>
    BY <1>1 DEF ReadPrice
  <2>2. /\ DOMAIN PrdPricesMap' = DOMAIN PrdPricesMap \cup {product}
        /\ PrdPricesMap'[product] = price'
        /\ \A p \in DOMAIN PrdPricesMap : p # product => PrdPricesMap'[p] = PrdPricesMap[p]
    BY <2>1 DEF Put
  <2> QED
    BY <2>1, <2>2 DEF AgreeInv, Alive, InFlight
<1>2. CASE AlgoPublishPrice
  <2>1. PICK line \in PriceLine, count \in Nat :
          price = Parse(line) /\ stream' = StreamOf(price, count)
    <3>1. fed[Len(fed)] \in PriceLine /\ streamCount \in Nat
      BY <1>2 DEF AlgoPublishPrice, FlightInv, InFlight, StreamingTypeOK
    <3> QED
      BY <1>2, <3>1 DEF AlgoPublishPrice, FlightInv, InFlight, StreamOf
  <2>2. MadeFrom(stream', price) /\ stream'.product = price.product
    BY <2>1, StreamIsMadeFrom DEF StreamOf
  <2>3. /\ pc = "algoPublish" /\ pc' = "publish"
        /\ algoStreams' = Put(algoStreams, price.product, stream')
        /\ UNCHANGED <<price, PrdPricesMap, priceStreams, guis>>
    BY <1>2 DEF AlgoPublishPrice
  <2>4. /\ DOMAIN algoStreams' = DOMAIN algoStreams \cup {price.product}
        /\ algoStreams'[price.product] = stream'
        /\ \A p \in DOMAIN algoStreams : p # price.product => algoStreams'[p] = algoStreams[p]
    BY <2>3 DEF Put
  <2> QED
    BY <2>2, <2>3, <2>4 DEF AgreeInv, Alive, InFlight
<1>3. CASE PublishPrice
  <2>1. /\ pc = "publish" /\ pc' = "persist"
        /\ priceStreams' = Put(priceStreams, stream.product, stream)
        /\ UNCHANGED <<price, stream, PrdPricesMap, algoStreams, guis>>
    BY <1>3 DEF PublishPrice, StoredStream
  <2>2. /\ DOMAIN priceStreams' = DOMAIN priceStreams \cup {stream.product}
        /\ priceStreams'[stream.product] = stream
        /\ \A p \in DOMAIN priceStreams :
             p # stream.product => priceStreams'[p] = priceStreams[p]
    BY <2>1 DEF Put
  <2> QED
    BY <2>1, <2>2 DEF AgreeInv, Alive, InFlight
<1>4. CASE PersistStream
  BY <1>4 DEF PersistStream, maps, AgreeInv, Alive, InFlight
<1>5. CASE UpdateGui
  <2>1. /\ pc = "gui" /\ pc' = "idle" /\ guis' = Put(guis, price.product, price)
        /\ UNCHANGED <<PrdPricesMap, algoStreams, priceStreams>>
    BY <1>5 DEF UpdateGui
  <2>2. /\ DOMAIN guis' = DOMAIN guis \cup {price.product}
        /\ guis'[price.product] = price
        /\ \A p \in DOMAIN guis : p # price.product => guis'[p] = guis[p]
    BY <2>1 DEF Put
  <2> QED
    BY <2>1, <2>2 DEF AgreeInv, Alive, InFlight
<1>6. CASE BadLine \/ Crash
  BY <1>6 DEF BadLine, Crash, Dies, AgreeInv, Alive
<1>7. CASE Restart
  BY <1>7 DEF Restart, MemoryIsNew, AgreeInv, InFlight, EmptyMap
<1>8. CASE UNCHANGED streamingVars
  BY <1>8 DEF streamingVars, maps, AgreeInv, Alive, InFlight
<1> QED
  BY <1>1, <1>2, <1>3, <1>4, <1>5, <1>6, <1>7, <1>8
  DEF StreamingNext, Handler, Stopped

LEMMA AgreeInvariant == StreamingSpec => []AgreeInv
<1>1. StreamingInit => AgreeInv
  BY DEF StreamingInit, AgreeInv, InFlight, EmptyMap
<1> QED
  BY <1>1, AgreeStep, FlightInvariant, PTL DEF StreamingSpec

(***************************************************************************)
(* Whatever is read and whenever a run ends, the services that keep prices *)
(* and streams tell the same story between two lines.                      *)
(***************************************************************************)
THEOREM ServicesAlwaysAgree == StreamingSpec => []ServicesAgree
<1>1. StreamingTypeOK /\ AgreeInv => ServicesAgree
  <2> SUFFICES ASSUME StreamingTypeOK, AgreeInv, pc = "idle"
               PROVE  /\ guis = PrdPricesMap
                      /\ priceStreams = algoStreams
                      /\ DOMAIN priceStreams = DOMAIN PrdPricesMap
                      /\ \A p \in DOMAIN priceStreams :
                           MadeFrom(priceStreams[p], PrdPricesMap[p])
    BY DEF ServicesAgree, MadeFrom
  <2>1. /\ DOMAIN guis = DOMAIN PrdPricesMap
        /\ DOMAIN algoStreams = DOMAIN PrdPricesMap
        /\ DOMAIN priceStreams = DOMAIN PrdPricesMap
        /\ \A p \in DOMAIN PrdPricesMap :
             /\ guis[p] = PrdPricesMap[p]
             /\ MadeFrom(algoStreams[p], PrdPricesMap[p])
             /\ priceStreams[p] = algoStreams[p]
    BY DEF AgreeInv, Alive
  <2>2. /\ guis = [p \in DOMAIN guis |-> guis[p]]
        /\ PrdPricesMap = [p \in DOMAIN PrdPricesMap |-> PrdPricesMap[p]]
        /\ algoStreams = [p \in DOMAIN algoStreams |-> algoStreams[p]]
        /\ priceStreams = [p \in DOMAIN priceStreams |-> priceStreams[p]]
    BY Zenon DEF StreamingTypeOK, IsMap
  <2> QED
    BY <2>1, <2>2, Zenon
<1> QED
  BY <1>1, AgreeInvariant, StreamingTypeCorrect, PTL

-----------------------------------------------------------------------------
(* What the GUI shows. *)

LEMMA LastStep ==
  ASSUME StreamingTypeOK, FlightInv, LastInv, [StreamingNext]_streamingVars
  PROVE  LastInv'
<1>1. CASE ReadPrice
  <2> DEFINE line == NextLine
             product == line.product
  <2>1. /\ line \in PriceLine /\ fed' = Append(fed, line) /\ price' = Parse(line)
        /\ pc = "idle" /\ PrdPricesMap' = Put(PrdPricesMap, product, price')
    BY <1>1, ReadsNextLine DEF ReadPrice
  <2> HIDE DEF line
  <2>2. /\ Len(fed) \in Nat /\ DOMAIN fed = 1 .. Len(fed)
        /\ DOMAIN fed' = 1 .. Len(fed) + 1 /\ fed'[Len(fed) + 1] = line
        /\ \A i \in 1 .. Len(fed) : fed'[i] = fed[i]
    BY <2>1, AppendProperties DEF FlightInv
  <2>3. /\ DOMAIN PrdPricesMap' = DOMAIN PrdPricesMap \cup {product}
        /\ PrdPricesMap'[product] = price'
        /\ \A p \in DOMAIN PrdPricesMap : p # product => PrdPricesMap'[p] = PrdPricesMap[p]
    BY <2>1 DEF Put
  <2> SUFFICES ASSUME NEW p \in DOMAIN PrdPricesMap'
               PROVE  \E i \in DOMAIN fed' :
                        LastFor(i, p)' /\ PrdPricesMap'[p] = Parse(fed'[i])
    BY DEF LastInv
  <2>4. CASE p = product
    <3>1. PICK n \in Nat : n = Len(fed) + 1
      BY <2>2
    <3>2. n \in DOMAIN fed' /\ fed'[n] = line /\ \A j \in DOMAIN fed' : j <= n
      BY <2>2, <3>1
    <3>3. LastFor(n, p)'
      BY <2>4, <3>2 DEF LastFor
    <3> QED
      BY <2>1, <2>3, <2>4, <3>2, <3>3
  <2>5. CASE p # product
    <3>1. PICK i \in DOMAIN fed : LastFor(i, p) /\ PrdPricesMap[p] = Parse(fed[i])
      BY <2>1, <2>3, <2>5 DEF LastInv, Alive
    <3>2. LastFor(i, p)'
      BY <2>2, <2>5, <3>1 DEF LastFor
    <3>3. fed'[i] = fed[i] /\ i \in DOMAIN fed' /\ PrdPricesMap'[p] = PrdPricesMap[p]
      BY <2>2, <2>3, <2>5
    <3> QED
      BY <3>1, <3>2, <3>3
  <2> QED
    BY <2>4, <2>5
<1>2. CASE Restart
  BY <1>2 DEF Restart, MemoryIsNew, LastInv, EmptyMap
<1>3. ASSUME UNCHANGED <<fed, PrdPricesMap>>, Alive' => Alive
      PROVE  LastInv'
  BY <1>3 DEF LastInv, LastFor
<1>4. CASE Handler \/ BadLine \/ Crash \/ UNCHANGED streamingVars
  BY <1>3, <1>4 DEF Handler, AlgoPublishPrice, PublishPrice, PersistStream, UpdateGui,
     BadLine, Crash, Dies, streamingVars, maps, Alive
<1> QED
  BY <1>1, <1>2, <1>4 DEF StreamingNext, Stopped

\* A mid cut off to a tick is not cut off past a price that is on a tick.
LEMMA CutOffStaysInside ==
  ASSUME NEW b \in Int, NEW o \in Int, NEW mid \in Int, NEW n \in Int,
         \E k \in Int : b = 2 * k, \E k \in Int : o = 2 * k,
         b + o = 2 * mid, 2 * n \in {mid, mid - 1}
  PROVE  (b <= 2 * n /\ 2 * n <= o) \/ (o <= 2 * n /\ 2 * n <= b)
<1>1. PICK i \in Int : b = 2 * i
  OBVIOUS
<1>2. PICK j \in Int : o = 2 * j
  OBVIOUS
<1> QED
  BY <1>1, <1>2

(***************************************************************************)
(* The mid that the GUI shows lies in the market last read, whatever it    *)
(* is, and the spread it shows is the market's.                            *)
(***************************************************************************)
THEOREM MidAlwaysShownInMarket == StreamingSpec => []MidShownInMarket
<1>1. ASSUME StreamingTypeOK, FlightInv, AgreeInv, LastInv
      PROVE  MidShownInMarket
  <2> DEFINE last(p) ==
        CHOOSE i \in DOMAIN fed :
          fed[i].product = p /\ \A j \in DOMAIN fed : fed[j].product = p => j <= i
  <2> SUFFICES ASSUME pc = "idle", NEW p \in DOMAIN guis
               PROVE  LET line  == PriceStrings(guis[p])
                          shown == NumberOf(line.mid)
                          bid   == NumberOf(fed[last(p)].bid)
                          offer == NumberOf(fed[last(p)].offer)
                      IN  /\ shown <= guis[p].mid /\ guis[p].mid <= shown + 1
                          /\ (bid <= shown /\ shown <= offer)
                               \/ (offer <= shown /\ shown <= bid)
                          /\ NumberOf(line.bidOfferSpread) = offer - bid
    BY DEF MidShownInMarket
  <2>1. guis[p] = PrdPricesMap[p] /\ p \in DOMAIN PrdPricesMap
    BY <1>1 DEF AgreeInv, Alive
  <2>2. PICK i \in DOMAIN fed : LastFor(i, p) /\ PrdPricesMap[p] = Parse(fed[i])
    BY <1>1, <2>1 DEF LastInv, Alive
  <2>3. LastFor(last(p), p)
    BY <2>2 DEF LastFor
  <2>4. last(p) = i
    <3>1. DOMAIN fed \subseteq Int
      BY <1>1 DEF FlightInv
    <3> QED
      BY <2>2, <2>3, <3>1 DEF LastFor
  <2> DEFINE line  == fed[i]
             bid   == NumberOf(line.bid)
             offer == NumberOf(line.offer)
             mid   == guis[p].mid
             shown == NumberOf(TextOf(mid))
  <2>5. line \in PriceLine
    BY <1>1 DEF FlightInv
  <2>6. /\ bid \in Int /\ offer \in Int /\ mid \in Int
        /\ bid + offer = 2 * mid /\ guis[p].bidOfferSpread = offer - bid
        /\ \E n \in Int : bid = 2 * n
        /\ \E n \in Int : offer = 2 * n
    BY <2>1, <2>2, <2>5, MidAndSpread DEF Price
  <2>7. shown \in {mid, mid - 1} /\ \E n \in Int : shown = 2 * n
    BY <2>6, TextIsNumberToATick, TextOfType, NumberIsTicks
  <2>8. NumberOf(TextOf(guis[p].bidOfferSpread)) = offer - bid
    <3> HIDE DEF bid, offer
    <3>1. PICK b \in Int, o \in Int : bid = 2 * b /\ offer = 2 * o
      BY <2>6
    <3>2. o - b \in Int /\ offer - bid = 2 * (o - b)
      BY <3>1
    <3> QED
      BY <2>6, <3>2, TicksAreExact
  <2> HIDE DEF bid, offer, mid, shown
  <2>9. (bid <= shown /\ shown <= offer) \/ (offer <= shown /\ shown <= bid)
    BY <2>6, <2>7, CutOffStaysInside
  <2>10. shown <= mid /\ mid <= shown + 1
    BY <2>6, <2>7
  <2>11. /\ PriceStrings(guis[p]).mid = TextOf(mid)
         /\ PriceStrings(guis[p]).bidOfferSpread = TextOf(guis[p].bidOfferSpread)
    BY DEF PriceStrings, mid
  <2> HIDE DEF last
  <2> QED
    BY <2>4, <2>8, <2>9, <2>10, <2>11 DEF bid, offer, mid, shown
<1>2. StreamingInit => LastInv
  BY DEF StreamingInit, LastInv, EmptyMap
<1> QED
  BY <1>1, <1>2, LastStep, FlightInvariant, AgreeInvariant, PTL DEF StreamingSpec

-----------------------------------------------------------------------------
(* The runs that are over. *)

LEMMA BeginType ==
  ASSUME StreamingTypeOK
  PROVE  \A r \in 1 .. Len(past) + 1 : Begin(r) \in Nat
<1>1. past \in Seq([mark : Nat, read : Nat, died : BOOLEAN]) /\ mark \in Nat
  BY DEF StreamingTypeOK
<1>2. \A r \in 1 .. Len(past) : past[r] \in [mark : Nat, read : Nat, died : BOOLEAN]
  BY <1>1, ElementOfSeq, Zenon
<1>3. \A r \in 1 .. Len(past) : past[r].mark \in Nat
  BY <1>2
<1>4. \A r \in 1 .. Len(past) + 1 : r \in 1 .. Len(past) \/ r > Len(past)
  BY <1>1
<1> QED
  BY <1>1, <1>3, <1>4 DEF Begin

\* The run that ends has written what a run that is over has to have written.
LEMMA RestartKeepsPast ==
  ASSUME StreamingTypeOK, FlightInv, FileInv, PastInv, Restart
  PROVE  PastInv'
<1>0. PICK n \in Nat : n = Len(past)
  BY DEF StreamingTypeOK
<1>1. /\ n = Len(past) /\ Len(fed) \in Nat /\ Len(streamingFile) \in Nat /\ mark \in Nat
      /\ Len(pricesFile) \in Nat
  BY <1>0 DEF StreamingTypeOK, FlightInv
<1>2. /\ past' = Append(past, ThisRun) /\ mark' = Len(streamingFile)
      /\ UNCHANGED <<pricesFile, streamingFile>>
  BY DEF Restart
<1>3. Len(past') = n + 1 /\ past'[n + 1] = ThisRun /\ \A r \in 1 .. n : past'[r] = past[r]
  <2>1. past \in Seq([mark : Nat, read : Nat, died : BOOLEAN])
    BY DEF StreamingTypeOK
  <2>2. ThisRun \in [mark : Nat, read : Nat, died : BOOLEAN]
    BY <1>1 DEF ThisRun
  <2> QED
    BY <1>1, <1>2, <2>1, <2>2, AppendProperties
<1>4. \A r \in 1 .. n : Begin(r)' = Begin(r)
  BY <1>1, <1>3 DEF Begin
<1>5. Begin(n + 1)' = Begin(n + 1) /\ Begin(n + 1) = mark
  BY <1>1, <1>3 DEF Begin, ThisRun
<1>6. Begin(n + 2)' = Len(streamingFile)
  BY <1>1, <1>2, <1>3 DEF Begin
<1>7. \A i : LineDue(i)' = LineDue(i)
  BY <1>2 DEF LineDue
<1>8. ASSUME NEW r \in 1 .. n
      PROVE  RunInv(r)'
  <2>1. r + 1 \in 1 .. n \/ r + 1 = n + 1
    BY <1>1
  <2>2. Begin(r)' = Begin(r) /\ Begin(r + 1)' = Begin(r + 1)
    BY <1>4, <1>5, <2>1
  <2>3. mark <= mark' /\ past'[r] = past[r]
    BY <1>1, <1>2, <1>3 DEF FileInv
  <2>4. RunInv(r)
    BY <1>1 DEF PastInv
  <2>5. Begin(r + 1) \in Int
    BY <1>1, <2>1, BeginType
  <2> QED
    BY <1>1, <1>2, <1>7, <2>2, <2>3, <2>4, <2>5 DEF RunInv
<1>9. RunInv(n + 1)'
  <2> DEFINE written == Len(streamingFile) - mark
  <2>1. /\ 0 <= written /\ written \in {Len(fed), Len(fed) - 1}
        /\ \A i \in 1 .. written : streamingFile[mark + i] = LineDue(i)
    BY DEF FileInv
  <2>2. IF ThisRun.died THEN written \in {ThisRun.read, ThisRun.read - 1}
                        ELSE written = Len(pricesFile)
    <3>1. ThisRun.died = (pc = "dead") /\ ThisRun.read = Len(fed)
      BY DEF ThisRun
    <3>2. CASE pc = "dead"
      BY <2>1, <3>1, <3>2
    <3>3. CASE pc = "idle" /\ Len(fed) = Len(pricesFile)
      <4>1. written = Len(fed)
        BY <1>1, <3>3 DEF FileInv, Alive, Unwritten
      <4>2. ~ ThisRun.died
        BY <3>1, <3>3
      <4> QED
        BY <3>3, <4>1, <4>2
    <3> QED
      BY <3>2, <3>3 DEF Restart, Over, AtEndOfFile
  <2>3. \A i \in 1 .. written : pricesFile[i] \in PriceLine
    <3> SUFFICES ASSUME NEW i \in 1 .. written PROVE pricesFile[i] \in PriceLine
      OBVIOUS
    <3>1. i \in 1 .. Len(fed)
      BY <1>1, <2>1
    <3> QED
      BY <3>1 DEF FlightInv
  <2>4. Begin(n + 1)' = mark /\ Begin((n + 1) + 1)' = Len(streamingFile)
    <3>1. (n + 1) + 1 = n + 2
      BY <1>1
    <3> QED
      BY <1>5, <1>6, <3>1
  <2> QED
    BY <1>1, <1>2, <1>3, <1>7, <2>1, <2>2, <2>3, <2>4 DEF RunInv
<1>10. Begin(1)' = 0
  <2>1. 1 \in 1 .. n \/ 1 = n + 1
    BY <1>1
  <2> QED
    BY <1>4, <1>5, <2>1 DEF PastInv
<1> QED
  BY <1>1, <1>3, <1>8, <1>9, <1>10 DEF PastInv

\* What is written later is behind what the earlier runs wrote.
LEMMA PastStep ==
  ASSUME StreamingTypeOK, FlightInv, FileInv, PastInv, [StreamingNext]_streamingVars
  PROVE  PastInv'
<1>1. ASSUME UNCHANGED <<pricesFile, mark, past>>,
             \A k \in 1 .. mark : streamingFile'[k] = streamingFile[k]
      PROVE  PastInv'
  <2>1. \A r : Begin(r)' = Begin(r)
    BY <1>1 DEF Begin
  <2>2. \A i : LineDue(i)' = LineDue(i)
    BY <1>1 DEF LineDue
  <2>3. ASSUME NEW r \in 1 .. Len(past)
        PROVE  RunInv(r)'
    <3> DEFINE written == Begin(r + 1) - Begin(r)
    <3>1. RunInv(r) /\ Len(past) \in Nat
      BY DEF PastInv, StreamingTypeOK
    <3>2. Begin(r) \in Nat /\ Begin(r + 1) \in Nat /\ mark \in Nat
      BY <3>1, BeginType DEF StreamingTypeOK
    <3>3. ASSUME NEW i \in 1 .. written
          PROVE  streamingFile'[Begin(r) + i] = LineDue(i)
      <4>1. Begin(r) + i \in 1 .. mark
        BY <3>1, <3>2 DEF RunInv
      <4> QED
        BY <1>1, <3>1, <4>1 DEF RunInv
    <3> QED
      BY <1>1, <2>1, <2>2, <3>1, <3>3 DEF RunInv
  <2> QED
    BY <1>1, <2>1, <2>3 DEF PastInv
<1>2. CASE PersistStream
  <2>1. /\ streamingFile' = Append(streamingFile, StreamStrings(stream))
        /\ UNCHANGED <<pricesFile, mark, past>>
    BY <1>2 DEF PersistStream
  <2>2. \A k \in 1 .. Len(streamingFile) : streamingFile'[k] = streamingFile[k]
    BY <1>2, <2>1, AppendProperties, StreamStringsType DEF PersistStream, StreamingTypeOK
  <2>3. \A k \in 1 .. mark : k \in 1 .. Len(streamingFile)
    BY DEF FileInv, StreamingTypeOK
  <2> QED
    BY <1>1, <2>1, <2>2, <2>3
<1>3. CASE \/ ReadPrice \/ AlgoPublishPrice \/ PublishPrice \/ UpdateGui
           \/ BadLine \/ Crash \/ UNCHANGED streamingVars
  <2>1. UNCHANGED <<pricesFile, mark, past, streamingFile>>
    BY <1>3 DEF ReadPrice, AlgoPublishPrice, PublishPrice, UpdateGui, BadLine, Crash, Dies,
       streamingVars
  <2> QED
    BY <1>1, <2>1
<1> QED
  BY <1>2, <1>3, RestartKeepsPast DEF StreamingNext, Handler, Stopped

(***************************************************************************)
(* Over any number of runs, and wherever they died, streaming.txt is one   *)
(* block per run, each a beginning of what prices.txt gives, whole for a   *)
(* run that did not die and short of the last line read, if of any, for    *)
(* one that did.                                                           *)
(***************************************************************************)
THEOREM EachRunAlwaysStreamsPricesAgain == StreamingSpec => []EachRunStreamsPricesAgain
<1>1. StreamingInit => PastInv
  BY DEF StreamingInit, PastInv, Begin
<1>2. StreamingTypeOK /\ PastInv => EachRunStreamsPricesAgain
  <2> SUFFICES ASSUME StreamingTypeOK, PastInv
               PROVE  EachRunStreamsPricesAgain
    OBVIOUS
  <2>1. ASSUME NEW r \in 1 .. Len(past), NEW i \in 1 .. Begin(r + 1) - Begin(r)
        PROVE  Streams(streamingFile[Begin(r) + i], i)
    <3>1. /\ pricesFile[i] \in PriceLine /\ streamingFile[Begin(r) + i] = LineDue(i)
          /\ i \in Nat /\ i > 0
      BY DEF PastInv, RunInv
    <3> QED
      BY <3>1, LineDueStreams
  <2> QED
    BY <2>1 DEF EachRunStreamsPricesAgain, PastInv, RunInv
<1> QED
  BY <1>1, <1>2, PastStep, FileInvariant, FlightInvariant, PTL DEF StreamingSpec

-----------------------------------------------------------------------------
(* The order of the calls. *)

\* The wiring of the three services, expanded.
LEMMA PricesAnnounced ==
  /\ Wires!Announce("pricing", "add") = <<Add("algoStreaming"), Add("gui")>>
  /\ Wires!Announce("algoStreaming", "add") = <<Add("streaming")>>
  /\ Wires!Announce("streaming", "add") = <<Add("historicalStreaming")>>
BY DEF Wires!Announce, Wires!listeners, Add

\* A listener before the GUI service is called, and makes one call.
LEMMA CallBeforeGui ==
  ASSUME NEW to, NEW next, pc # "dead", pc' # "dead",
         CallsPending = <<Add(to), Add("gui")>>, CallsPending' = <<next, Add("gui")>>
  PROVE  Wires!Process(to, <<next>>)
<1> DEFINE call == Add(to)
           gui  == Add("gui")
<1>1. call.to = to /\ call.event = "add"
  BY DEF Add
<1> HIDE DEF call, gui
<1>2. CallsPending = <<call, gui>> /\ CallsPending' = <<next, gui>>
  BY DEF call, gui
<1>3. /\ Head(<<call, gui>>) = call /\ Tail(<<call, gui>>) = <<gui>>
      /\ <<call, gui>> # <<>>
  OBVIOUS
<1>4. <<next>> \o <<gui>> = <<next, gui>>
  BY JoinTwo
<1>5. Head(CallsPending) = call /\ Tail(CallsPending) = <<gui>> /\ CallsPending # <<>>
  BY <1>2, <1>3, Zenon
<1>6. (IF Head(CallsPending).event = "add" THEN <<next>> ELSE <<>>) = <<next>>
  BY <1>1, <1>5, Zenon
<1>7. CallsPending' = <<next>> \o Tail(CallsPending)
  BY <1>2, <1>4, <1>5, Zenon
<1> QED
  BY <1>1, <1>5, <1>6, <1>7, Zenon DEF Wires!Process, Wires!Nested

LEMMA HandlersFollowWiring ==
  ASSUME Handler
  PROVE  Wires!WiringNext
<1>1. CASE AlgoPublishPrice
  <2>1. /\ CallsPending = <<Add("algoStreaming"), Add("gui")>>
        /\ CallsPending' = <<Add("streaming"), Add("gui")>> /\ pc # "dead" /\ pc' # "dead"
    BY <1>1 DEF AlgoPublishPrice, CallsPending
  <2>2. Wires!Process("algoStreaming", Wires!Announce("algoStreaming", "add"))
    BY <2>1, PricesAnnounced, CallBeforeGui
  <2> QED
    BY <2>2 DEF Wires!WiringNext, Wires!AlgoStreamingToPricingListener
<1>2. CASE PublishPrice
  <2>1. /\ CallsPending = <<Add("streaming"), Add("gui")>>
        /\ CallsPending' = <<Add("historicalStreaming"), Add("gui")>>
        /\ pc # "dead" /\ pc' # "dead"
    BY <1>2 DEF PublishPrice, CallsPending
  <2>2. Wires!Process("streaming", Wires!Announce("streaming", "add"))
    BY <2>1, PricesAnnounced, CallBeforeGui
  <2> QED
    BY <2>2 DEF Wires!WiringNext, Wires!StreamingListenerFromAlgoStreaming
<1>3. CASE PersistStream
  <2>1. /\ CallsPending = <<Add("historicalStreaming"), Add("gui")>>
        /\ CallsPending' = <<Add("gui")>> /\ pc # "dead" /\ pc' # "dead"
    BY <1>3 DEF PersistStream, CallsPending
  <2>2. Wires!Process("historicalStreaming", <<>>)
    BY <2>1 DEF Add, Wires!Process, Wires!Nested
  <2> QED
    BY <2>2 DEF Wires!WiringNext, Wires!HistoricalDataListener, Wires!Historical
<1>4. CASE UpdateGui
  <2>1. /\ CallsPending = <<Add("gui")>> /\ CallsPending' = <<>>
        /\ pc # "dead" /\ pc' # "dead"
    BY <1>4 DEF UpdateGui, CallsPending
  <2>2. Wires!Process("gui", <<>>)
    BY <2>1 DEF Add, Wires!Process, Wires!Nested
  <2> QED
    BY <2>2 DEF Wires!WiringNext, Wires!GUIToPricingListener
<1> QED
  BY <1>1, <1>2, <1>3, <1>4 DEF Handler

LEMMA OthersFollowWiring ==
  ASSUME [StreamingNext]_streamingVars, ~ Handler
  PROVE  [Wires!WiringNext]_(Wires!wiringVars)
<1>1. CASE ReadPrice
  <2>1. pc = "idle" /\ pc' = "algoPublish"
    BY <1>1 DEF ReadPrice
  <2>2. CallsPending = <<>> /\ CallsPending' = <<Add("algoStreaming"), Add("gui")>>
    BY <2>1 DEF CallsPending
  <2>3. Wires!OnMessage("pricing")
    BY <2>1, <2>2, PricesAnnounced DEF Wires!OnMessage
  <2> QED
    BY <2>3 DEF Wires!WiringNext
<1>2. CASE BadLine \/ Crash
  <2>1. pc # "dead" /\ pc' = "dead"
    BY <1>2 DEF BadLine, Crash, Dies
  <2>2. Wires!Abort
    BY <2>1 DEF Wires!Abort, CallsPending
  <2> QED
    BY <2>2 DEF Wires!WiringNext
<1>3. CASE Restart
  <2>1. pc \in {"dead", "idle"} /\ pc' = "idle"
    BY <1>3 DEF Restart, MemoryIsNew, Over
  <2>2. CallsPending = <<>> /\ CallsPending' = <<>>
    BY <2>1 DEF CallsPending
  <2> QED
    BY <2>1, <2>2 DEF Wires!WiringNext, Wires!StartAgain, Wires!wiringVars
<1>4. CASE UNCHANGED streamingVars
  BY <1>4 DEF streamingVars, CallsPending, Wires!wiringVars
<1> QED
  BY <1>1, <1>2, <1>3, <1>4 DEF StreamingNext, Stopped

(***************************************************************************)
(* Pricing, algo streaming, streaming, its historical service and the GUI  *)
(* run in the order in which main registered them, and a price goes all    *)
(* the way to the file before the GUI is told of it.                       *)
(***************************************************************************)
THEOREM StreamingFollowsWiring == StreamingSpec => StreamingImplementsWiring
<1>1. StreamingInit => Wires!WiringInit
  BY DEF StreamingInit, Wires!WiringInit, CallsPending
<1>2. [StreamingNext]_streamingVars => [Wires!WiringNext]_(Wires!wiringVars)
  BY HandlersFollowWiring, OthersFollowWiring
<1> QED
  BY <1>1, <1>2, PTL DEF StreamingSpec, StreamingImplementsWiring, Wires!WiringSpec

=============================================================================
