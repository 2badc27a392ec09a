--------------------------- MODULE Booking_proofs ---------------------------
(***************************************************************************)
(* Theorems about Booking, for every set of products, identifiers, books   *)
(* and quantities and every number of lines, abnormal ends and runs.       *)
(***************************************************************************)
EXTENDS Booking, SequenceTheorems, Induction_proofs

-----------------------------------------------------------------------------
(* Types of the operators. *)

LEMMA PutIsMap ==
  ASSUME NEW K, NEW V, NEW map, IsMap(map, K, V), NEW k \in K, NEW v \in V
  PROVE  IsMap(Put(map, k, v), K, V)
BY DEF IsMap, Put

\* The book of a turn is one of the three.
LEMMA BookOfTurnType ==
  ASSUME NEW count \in Nat
  PROVE  BookOfTurn(count) \in AllBooks
<1>1. Len(books) = 3 /\ DOMAIN books = 1 .. 3
  BY DEF books
<1>2. (count % 3) + 1 \in 1 .. 3
  OBVIOUS
<1> QED
  BY <1>1, <1>2 DEF BookOfTurn, AllBooks

\* The trade booked for an execution is a trade.
LEMMA TradeOfType ==
  ASSUME NEW o \in ExecutionOrder, NEW count \in Nat
  PROVE  TradeOf(o, count) \in Trade
<1>1. BookOfTurn(count) \in AllBooks
  BY BookOfTurnType
<1>2. o.visibleQuantity + o.hiddenQuantity \in Int
  <2>1. o.visibleQuantity \in Quantities /\ o.hiddenQuantity = 0
    BY DEF ExecutionOrder, OrdersNamed
  <2>2. o.visibleQuantity \in Int
    BY <2>1, QuantityAssumption, Zenon
  <2> QED
    BY <2>1, <2>2
<1>3. o.orderId \in Ids /\ SideBooked(o.side) \in {"BUY", "SELL"}
  BY DEF ExecutionOrder, OrdersNamed, SideBooked
<1> QED
  BY <1>1, <1>2, <1>3 DEF TradeOf, MakeTrade, Trade, AllIds

LEMMA FileTradeType ==
  ASSUME NEW product \in Products, NEW t \in FileTrade(product)
  PROVE  t \in Trade
BY QuantityAssumption DEF FileTrade, MakeTrade, Trade, AllBooks, AllIds

LEMMA SignedType == ASSUME NEW t \in Trade PROVE Signed(t) \in Int
BY DEF Signed, Trade

\* Adding a trade to a position gives a position.
LEMMA PositionWithType ==
  ASSUME NEW t \in Trade,
         \A p \in DOMAIN positions : IsMap(positions[p], AllBooks, Int)
  PROVE  IsMap(PositionWith(t), AllBooks, Int)
<1> DEFINE position == Lookup(positions, t.product, EmptyMap)
<1>1. IsMap(position, AllBooks, Int)
  BY DEF Lookup, EmptyMap, IsMap
<1>2. Lookup(position, t.book, 0) + Signed(t) \in Int
  BY <1>1, SignedType DEF Lookup, IsMap
<1>3. t.book \in AllBooks
  BY DEF Trade
<1> QED
  BY <1>1, <1>2, <1>3, PutIsMap DEF PositionWith

-----------------------------------------------------------------------------
(* Type correctness: one lemma per group of handlers. *)

LEMMA ReadTradeType ==
  ASSUME BookingTypeOK, NEW product \in Products, NEW t \in FileTrade(product),
         ReadTrade(product, t)
  PROVE  BookingTypeOK'
<1>1. t \in Trade /\ t.tradeId \in AllIds
  BY FileTradeType DEF Trade
<1>2. IsMap(trades', AllIds, Trade)
  BY <1>1, PutIsMap DEF ReadTrade, BookTrade, BookingTypeOK
<1> QED
  BY <1>1, <1>2 DEF ReadTrade, BookTrade, BookingTypeOK, files

LEMMA ExecuteOrderType ==
  ASSUME BookingTypeOK, NEW o \in ExecutionOrder, ExecuteOrder(o)
  PROVE  BookingTypeOK'
<1>1. o.product \in Products
  BY DEF ExecutionOrder, OrdersNamed
<1>2. IsMap(executionOrders', Products, ExecutionOrder)
  BY <1>1, PutIsMap DEF ExecuteOrder, BookingTypeOK
<1> QED
  BY <1>2 DEF ExecuteOrder, BookingTypeOK, files

LEMMA BookExecutionType ==
  ASSUME BookingTypeOK, BookExecution
  PROVE  BookingTypeOK'
<1>1. order \in ExecutionOrder /\ tradeCount' \in Nat
  BY DEF BookExecution, BookingTypeOK
<1>2. trade' \in Trade /\ trade'.tradeId \in AllIds
  <2>1. TradeOf(order, tradeCount') \in Trade
    BY <1>1, TradeOfType
  <2> QED
    BY <2>1 DEF BookExecution, BookTrade, Trade
<1>3. IsMap(trades', AllIds, Trade)
  BY <1>2, PutIsMap DEF BookExecution, BookTrade, BookingTypeOK
<1> QED
  BY <1>1, <1>2, <1>3 DEF BookExecution, BookTrade, BookingTypeOK, files

LEMMA AddTradeType ==
  ASSUME BookingTypeOK, AddTrade
  PROVE  BookingTypeOK'
<1>1. trade \in Trade /\ trade.product \in Products \cup {NoProduct}
  BY DEF AddTrade, BookingTypeOK, Trade
<1>2. positions' = Put(positions, trade.product, PositionWith(trade))
  BY DEF AddTrade
<1>3. IsMap(PositionWith(trade), AllBooks, Int)
  BY <1>1, PositionWithType DEF BookingTypeOK
<1>4. /\ DOMAIN positions' = DOMAIN positions \cup {trade.product}
      /\ \A p \in DOMAIN positions' : IsMap(positions'[p], AllBooks, Int)
  BY <1>2, <1>3 DEF Put, BookingTypeOK
<1>5. DOMAIN risk' \subseteq DOMAIN positions'
  BY <1>4 DEF AddTrade, BookingTypeOK
<1>6. DOMAIN positions' \subseteq Products \cup {NoProduct}
  BY <1>1, <1>4 DEF BookingTypeOK
<1> QED
  BY <1>1, <1>4, <1>5, <1>6 DEF AddTrade, BookingTypeOK, files, history

\* The position of the trade in flight exists by the time risk is computed.
TradeHasPosition ==
  pc \in {"addPosition", "persistRisk", "persistPosition"} => trade.product \in DOMAIN positions

LEMMA AddPositionType ==
  ASSUME BookingTypeOK, TradeHasPosition, AddPosition
  PROVE  BookingTypeOK'
<1>1. DOMAIN risk' = DOMAIN risk \cup {trade.product}
  BY DEF AddPosition, Put
<1>2. DOMAIN risk' \subseteq DOMAIN positions
  BY <1>1 DEF TradeHasPosition, AddPosition, BookingTypeOK
<1> QED
  BY <1>2 DEF AddPosition, BookingTypeOK, files, history

LEMMA PersistType ==
  ASSUME BookingTypeOK, PersistRisk \/ PersistPosition \/ PersistExecution
  PROVE  BookingTypeOK'
<1>1. CASE PersistPosition
  BY <1>1 DEF PersistPosition, BookingTypeOK, memory
<1>2. CASE PersistExecution
  <2>1. executionsFile' \in Seq(ExecutionOrder)
    BY <1>2 DEF PersistExecution, HistoricalProcessAdd, BookingTypeOK
  <2> QED
    BY <1>2, <2>1 DEF PersistExecution, BookingTypeOK, memory, history
<1>3. CASE PersistRisk
  BY <1>3 DEF PersistRisk, BookingTypeOK, memory, history
<1> QED
  BY <1>1, <1>2, <1>3

LEMMA ControlType ==
  ASSUME BookingTypeOK, NextPhase \/ BadLine \/ Crash \/ Restart \/ Stopped
  PROVE  BookingTypeOK'
<1>1. CASE NextPhase
  BY <1>1 DEF NextPhase, BookingTypeOK, memory, files, history
<1>2. CASE BadLine \/ Crash
  BY <1>2 DEF BadLine, Crash, Dies, BookingTypeOK, memory, files, history
<1>3. CASE Restart
  BY <1>3 DEF Restart, BookingTypeOK, IsMap, EmptyMap, files
<1>4. CASE Stopped
  BY <1>4 DEF Stopped, BookingTypeOK, bookingVars, control, memory, files, history
<1> QED
  BY <1>1, <1>2, <1>3, <1>4

LEMMA BookingInitType == BookingInit => BookingTypeOK /\ TradeHasPosition
BY DEF BookingInit, MemoryInit, BookingTypeOK, TradeHasPosition, IsMap, EmptyMap

LEMMA BookingTypeStep ==
  ASSUME BookingTypeOK, TradeHasPosition, [BookingNext]_bookingVars
  PROVE  BookingTypeOK' /\ TradeHasPosition'
<1>1. BookingTypeOK'
  <2>1. CASE UNCHANGED bookingVars
    BY <2>1 DEF BookingTypeOK, bookingVars, control, memory, files, history
  <2>2. CASE BookingNext
    BY <2>2, ReadTradeType, ExecuteOrderType, BookExecutionType, AddTradeType,
       AddPositionType, PersistType, ControlType
    DEF BookingNext, OtherStep, Handler
  <2> QED
    BY <2>1, <2>2
<1>2. TradeHasPosition'
  <2>1. CASE AddTrade
    BY <2>1 DEF AddTrade, Put, TradeHasPosition
  <2>2. CASE AddPosition
    BY <2>2 DEF AddPosition, TradeHasPosition
  <2>3. CASE UNCHANGED bookingVars \/ PersistRisk
    BY <2>3 DEF TradeHasPosition, PersistRisk, bookingVars, control, memory
  <2>4. ASSUME BookingNext, ~ AddTrade, ~ AddPosition, ~ PersistRisk
        PROVE  TradeHasPosition'
    <3>1. pc' \notin {"addPosition", "persistRisk", "persistPosition"}
          \/ UNCHANGED <<pc, trade, positions>>
      BY <2>4 DEF BookingNext, OtherStep, Handler, ReadTrade, BookTrade, ExecuteOrder,
         BookExecution, PersistPosition, PersistExecution, NextPhase, BadLine, Crash,
         Dies, Restart, Stopped, bookingVars, control, memory
    <3> QED
      BY <3>1 DEF TradeHasPosition
  <2> QED
    BY <2>1, <2>2, <2>3, <2>4
<1> QED
  BY <1>1, <1>2

\* Fairness plays no part in safety.
LEMMA BookingInvariant == BookingSpec => [](BookingTypeOK /\ TradeHasPosition)
BY BookingInitType, BookingTypeStep, PTL DEF BookingSpec

(***************************************************************************)
(* Every variable keeps its type through all runs: the handlers never find *)
(* the argument they work on missing, positions hold integers per book and *)
(* risk is kept only for products that have a position.                    *)
(***************************************************************************)
THEOREM BookingTypeCorrect == BookingSpec => []BookingTypeOK
BY BookingInvariant, PTL

-----------------------------------------------------------------------------
(***************************************************************************)
(* The two journals.  JournalsAgree is not inductive: it does not say that *)
(* the execution about to be written is one that is missing.               *)
(***************************************************************************)
JournalsInv ==
  LET due == IF pc = "persistExecution" THEN 1 ELSE 0
      lost == algoLines - Len(executionsFile) - due
  IN  0 <= lost /\ lost <= deaths

LEMMA JournalsInvStep ==
  ASSUME BookingTypeOK, JournalsInv, [BookingNext]_bookingVars
  PROVE  JournalsInv'
<1> USE DEF JournalsInv
<1>1. algoLines \in Nat /\ deaths \in Nat /\ Len(executionsFile) \in Nat
  BY DEF BookingTypeOK
<1>2. CASE PersistPosition
  BY <1>1, <1>2 DEF PersistPosition
<1>3. CASE PersistExecution
  <2>1. executionsFile' = Append(executionsFile, order) /\ order \in ExecutionOrder
    BY <1>3 DEF PersistExecution, HistoricalProcessAdd, BookingTypeOK
  <2>2. Len(executionsFile') = Len(executionsFile) + 1
    BY <2>1, AppendProperties DEF BookingTypeOK
  <2> QED
    BY <1>1, <1>3, <2>2 DEF PersistExecution, history
<1>4. CASE BadLine \/ Crash
  BY <1>1, <1>4 DEF BadLine, Crash, Dies, files, history
<1>5. CASE Restart
  BY <1>1, <1>5 DEF Restart, files
<1>6. ASSUME /\ UNCHANGED <<algoLines, executionsFile, deaths>>
             /\ pc # "persistExecution" /\ pc' # "persistExecution"
      PROVE  JournalsInv'
  BY <1>6
<1>7. CASE UNCHANGED bookingVars
  BY <1>7 DEF bookingVars, control, files, history
<1>8. CASE NextPhase \/ Stopped
  BY <1>8 DEF NextPhase, Stopped, bookingVars, control, files, history
<1>9. CASE \E product \in Products : \E t \in FileTrade(product) : ReadTrade(product, t)
  BY <1>6, <1>9 DEF ReadTrade, BookTrade, files
<1>10. CASE \E o \in ExecutionOrder : ExecuteOrder(o)
  BY <1>6, <1>10 DEF ExecuteOrder, files
<1>11. CASE BookExecution \/ AddTrade \/ AddPosition \/ PersistRisk
  BY <1>6, <1>11 DEF BookExecution, BookTrade, AddTrade, AddPosition, PersistRisk,
     files, history
<1> QED
  BY <1>2, <1>3, <1>4, <1>5, <1>7, <1>8, <1>9, <1>10, <1>11
  DEF BookingNext, OtherStep, Handler

(***************************************************************************)
(* However many runs there were and however they ended, positions.txt and  *)
(* executions.txt differ by at most one execution per abnormal end, and    *)
(* never is an execution on file without its position.                     *)
(***************************************************************************)
THEOREM JournalsAlwaysAgree == BookingSpec => []JournalsAgree
<1>1. BookingInit => JournalsInv
  BY DEF BookingInit, JournalsInv
<1>2. BookingTypeOK /\ JournalsInv /\ [BookingNext]_bookingVars => JournalsInv'
  BY JournalsInvStep
<1>3. BookingTypeOK /\ JournalsInv => JournalsAgree
  BY DEF BookingTypeOK, JournalsInv, JournalsAgree
<1> QED
  BY <1>1, <1>2, <1>3, BookingTypeCorrect, PTL DEF BookingSpec

-----------------------------------------------------------------------------
(***************************************************************************)
(* Risk.  What the property does not say is where the one stale entry is   *)
(* while the new position is being handed to the risk service.             *)
(***************************************************************************)
RiskCurrentOn(p) == p \in DOMAIN risk /\ risk[p].quantity = Aggregate(positions[p])

RiskInv ==
  Alive =>
    /\ DOMAIN risk \subseteq DOMAIN positions
    /\ \A p \in DOMAIN positions :
         (pc = "addPosition" /\ p = trade.product) \/ RiskCurrentOn(p)

LEMMA RiskInvStep ==
  ASSUME BookingTypeOK, TradeHasPosition, RiskInv, [BookingNext]_bookingVars
  PROVE  RiskInv'
<1>1. CASE AddTrade
  <2>1. /\ positions' = Put(positions, trade.product, PositionWith(trade))
        /\ risk' = risk /\ pc' = "addPosition" /\ trade' = trade /\ Alive
    BY <1>1 DEF AddTrade, Alive
  <2>2. /\ DOMAIN positions' = DOMAIN positions \cup {trade.product}
        /\ \A p \in DOMAIN positions : p # trade.product => positions'[p] = positions[p]
    BY <2>1 DEF Put
  <2> QED
    BY <1>1, <2>1, <2>2 DEF RiskInv, RiskCurrentOn, AddTrade
<1>2. CASE AddPosition
  <2>1. /\ risk' = Put(risk, trade.product, RiskOf(trade.product))
        /\ positions' = positions /\ pc' = "persistRisk" /\ Alive
    BY <1>2 DEF AddPosition, Alive
  <2>2. /\ DOMAIN risk' = DOMAIN risk \cup {trade.product}
        /\ risk'[trade.product].quantity = Aggregate(positions[trade.product])
        /\ \A p \in DOMAIN risk : p # trade.product => risk'[p] = risk[p]
    BY <2>1 DEF Put, RiskOf
  <2>3. trade.product \in DOMAIN positions
    BY <1>2 DEF TradeHasPosition, AddPosition
  <2> QED
    BY <2>1, <2>2, <2>3 DEF RiskInv, RiskCurrentOn
<1>3. CASE Restart
  BY <1>3 DEF Restart, RiskInv, EmptyMap
<1>4. CASE BadLine \/ Crash
  BY <1>4 DEF BadLine, Crash, Dies, RiskInv, Alive
<1>5. ASSUME UNCHANGED <<positions, risk>>, pc' # "dead" => Alive /\ pc # "addPosition"
      PROVE  RiskInv'
  BY <1>5 DEF RiskInv, RiskCurrentOn, Alive
<1>6. CASE UNCHANGED bookingVars \/ Stopped
  BY <1>6 DEF Stopped, bookingVars, control, memory, RiskInv, RiskCurrentOn, Alive
<1>7. CASE \E product \in Products : \E t \in FileTrade(product) : ReadTrade(product, t)
  BY <1>5, <1>7 DEF ReadTrade, Alive
<1>8. CASE \E o \in ExecutionOrder : ExecuteOrder(o)
  BY <1>5, <1>8 DEF ExecuteOrder, Alive
<1>9. CASE BookExecution \/ PersistRisk \/ PersistPosition \/ PersistExecution \/ NextPhase
  BY <1>5, <1>9 DEF BookExecution, PersistRisk, PersistPosition, PersistExecution,
     NextPhase, memory, Alive
<1> QED
  BY <1>1, <1>2, <1>3, <1>4, <1>6, <1>7, <1>8, <1>9
  DEF BookingNext, OtherStep, Handler

(***************************************************************************)
(* Whatever trades arrive and whenever the process dies, the risk service  *)
(* is behind the position service only for the one product whose position  *)
(* is being handed to it.                                                  *)
(***************************************************************************)
THEOREM RiskAlwaysCurrent == BookingSpec => []RiskIsCurrent
<1>1. BookingInit => RiskInv
  BY DEF BookingInit, MemoryInit, RiskInv, EmptyMap
<1>2. RiskInv => RiskIsCurrent
  BY DEF RiskInv, RiskIsCurrent, RiskCurrentOn
<1> QED
  BY <1>1, <1>2, RiskInvStep, BookingInvariant, PTL DEF BookingSpec

-----------------------------------------------------------------------------
(***************************************************************************)
(* executions.txt and the trades booked.  The histories keep their types,  *)
(* the counter of the trade booking listener counts the executions booked, *)
(* and the i-th of them was booked as TradeOf says.                        *)
(***************************************************************************)
BookedTrade == [asked : Products, trade : Trade]

HistoryTypeOK == booked \in Seq(BookedTrade) /\ executed \in Seq(ExecutionOrder)

\* The i-th entry that this run booked for an execution.
AlgoEntry(i) == booked[Len(booked) - tradeCount + i]

EntryOf(o, i) == [asked |-> o.product, trade |-> TradeOf(o, i)]

BookedInv ==
  /\ HistoryTypeOK
  /\ phase = "trades" => tradeCount = 0 /\ executed = <<>>
  /\ pc = "idle" => order = None
  /\ tradeCount <= Len(booked) /\ tradeCount <= Len(executed)
  /\ Alive => Len(executed) = tradeCount + (IF pc = "book" THEN 1 ELSE 0)
  /\ (Alive /\ order # None) => executed # <<>> /\ order = executed[Len(executed)]
  /\ \A i \in 1 .. tradeCount : AlgoEntry(i) = EntryOf(executed[i], i)

FileInv ==
  LET written == Len(executionsFile) - mark.executions
      due == IF order # None /\ pc # "book" THEN 1 ELSE 0
  IN  /\ mark.executions \in Nat /\ 0 <= written /\ written <= tradeCount
      /\ Alive => written = tradeCount - due
      /\ \A i \in 1 .. written : executionsFile[mark.executions + i] = executed[i]

LEMMA ReadTradeKeepsBooked ==
  ASSUME BookingTypeOK, BookedInv, NEW product \in Products,
         NEW t \in FileTrade(product), ReadTrade(product, t)
  PROVE  BookedInv'
<1>1. t \in Trade /\ booked' = Append(booked, [asked |-> product, trade |-> t])
  BY FileTradeType DEF ReadTrade, BookTrade
<1>2. booked' \in Seq(BookedTrade) /\ Len(booked') = Len(booked) + 1
  BY <1>1, AppendProperties DEF BookedTrade, BookedInv, HistoryTypeOK
<1>3. /\ tradeCount' = 0 /\ executed = <<>> /\ executed' = executed /\ pc' = "addTrade"
      /\ order = None /\ order' = order
  BY DEF ReadTrade, BookTrade, BookedInv
<1> QED
  BY <1>2, <1>3 DEF BookedInv, HistoryTypeOK, Alive

LEMMA ExecuteOrderKeepsBooked ==
  ASSUME BookingTypeOK, BookedInv, NEW o \in ExecutionOrder, ExecuteOrder(o)
  PROVE  BookedInv'
<1>1. /\ executed' = Append(executed, o) /\ order' = o /\ pc' = "book" /\ pc = "idle"
      /\ UNCHANGED <<booked, tradeCount, phase>> /\ phase = "marketdata"
  BY DEF ExecuteOrder
<1>2. /\ executed' \in Seq(ExecutionOrder) /\ Len(executed') = Len(executed) + 1
      /\ executed'[Len(executed')] = o
      /\ \A i \in 1 .. Len(executed) : executed'[i] = executed[i]
  BY <1>1, AppendProperties DEF BookedInv, HistoryTypeOK
<1>3. tradeCount \in Nat /\ Len(executed) = tradeCount
  BY <1>1 DEF BookedInv, BookingTypeOK, Alive
<1>4. \A i \in 1 .. tradeCount : AlgoEntry(i)' = EntryOf(executed[i], i)
  BY <1>1 DEF BookedInv, AlgoEntry
<1> QED
  BY <1>1, <1>2, <1>3, <1>4 DEF BookedInv, HistoryTypeOK, Alive

LEMMA BookExecutionKeepsBooked ==
  ASSUME BookingTypeOK, BookedInv, BookExecution
  PROVE  BookedInv'
<1>1. /\ order \in ExecutionOrder /\ tradeCount \in Nat /\ order # None /\ Alive
      /\ tradeCount' = tradeCount + 1 /\ pc = "book" /\ pc' = "addTrade"
      /\ UNCHANGED <<phase, executed, order>>
      /\ booked' = Append(booked, EntryOf(order, tradeCount + 1))
  BY NoneAssumption DEF BookExecution, BookTrade, BookingTypeOK, EntryOf, Alive
<1>2. EntryOf(order, tradeCount + 1) \in BookedTrade
  BY <1>1, TradeOfType DEF EntryOf, BookedTrade, ExecutionOrder, OrdersNamed
<1>3. /\ Len(booked) \in Nat
      /\ booked' \in Seq(BookedTrade) /\ Len(booked') = Len(booked) + 1
      /\ \A i \in 1 .. Len(booked) : booked'[i] = booked[i]
      /\ booked'[Len(booked) + 1] = EntryOf(order, tradeCount + 1)
  BY <1>1, <1>2, AppendProperties DEF BookedInv, HistoryTypeOK
<1>4. order = executed[tradeCount + 1] /\ Len(executed) = tradeCount + 1
  BY <1>1 DEF BookedInv
<1>5. \A i \in 1 .. tradeCount + 1 : AlgoEntry(i)' = EntryOf(executed[i], i)
  <2> SUFFICES ASSUME NEW i \in 1 .. tradeCount + 1
               PROVE  AlgoEntry(i)' = EntryOf(executed[i], i)
    OBVIOUS
  <2>1. AlgoEntry(i)' = booked'[Len(booked) - tradeCount + i]
    <3>1. Len(booked') - tradeCount' + i = Len(booked) - tradeCount + i
      BY <1>1, <1>3
    <3> QED
      BY <3>1 DEF AlgoEntry
  <2>2. CASE i = tradeCount + 1
    BY <1>1, <1>3, <1>4, <2>1, <2>2
  <2>3. CASE i \in 1 .. tradeCount
    <3>1. Len(booked) - tradeCount + i \in 1 .. Len(booked)
      BY <1>1, <1>3, <2>3 DEF BookedInv
    <3> QED
      BY <1>3, <2>1, <2>3, <3>1 DEF BookedInv, AlgoEntry
  <2> QED
    BY <1>1, <2>2, <2>3
<1>6. phase # "trades"
  BY <1>1 DEF BookingTypeOK
<1> QED
  BY <1>1, <1>3, <1>4, <1>5, <1>6 DEF BookedInv, HistoryTypeOK, Alive

LEMMA OthersKeepBooked ==
  ASSUME BookingTypeOK, BookedInv,
         \/ AddTrade \/ AddPosition \/ PersistRisk \/ PersistPosition \/ PersistExecution
         \/ NextPhase \/ BadLine \/ Crash \/ Stopped \/ UNCHANGED bookingVars
  PROVE  BookedInv'
<1>1. UNCHANGED <<booked, executed, tradeCount>>
  BY DEF AddTrade, AddPosition, PersistRisk, PersistPosition, PersistExecution, NextPhase,
     BadLine, Crash, Dies, Stopped, bookingVars, memory, history
<1>2. phase' = phase \/ (pc = "idle" /\ phase' # "trades")
  BY DEF AddTrade, AddPosition, PersistRisk, PersistPosition, PersistExecution, NextPhase,
     BadLine, Crash, Dies, Stopped, bookingVars, control
<1>3. \/ pc' = "dead"
      \/ pc \notin {"book", "dead"} /\ pc' \notin {"book", "dead", "idle"} /\ order' = order
      \/ pc \notin {"book", "dead"} /\ pc' = "idle" /\ order' = None
      \/ UNCHANGED <<pc, order>>
  BY DEF AddTrade, AddPosition, PersistRisk, PersistPosition, PersistExecution, NextPhase,
     BadLine, Crash, Dies, Stopped, bookingVars, control
<1>4. \A i \in 1 .. tradeCount : AlgoEntry(i)' = AlgoEntry(i)
  BY <1>1 DEF AlgoEntry
<1> QED
  BY <1>1, <1>2, <1>3, <1>4 DEF BookedInv, HistoryTypeOK, Alive

LEMMA BookedInvStep ==
  ASSUME BookingTypeOK, BookedInv, [BookingNext]_bookingVars
  PROVE  BookedInv'
<1>1. CASE Restart
  BY <1>1 DEF Restart, BookedInv, HistoryTypeOK, Alive
<1> QED
  BY <1>1, ReadTradeKeepsBooked, ExecuteOrderKeepsBooked, BookExecutionKeepsBooked,
     OthersKeepBooked
  DEF BookingNext, OtherStep, Handler

\* Only the handlers of an execution and Restart change what FileInv is about.
LEMMA FileInvStep ==
  ASSUME BookingTypeOK, BookedInv, FileInv, [BookingNext]_bookingVars
  PROVE  FileInv'
<1>1. /\ tradeCount \in Nat /\ Len(executionsFile) \in Nat
      /\ executionsFile \in Seq(ExecutionOrder)
  BY DEF BookingTypeOK
<1>2. CASE PersistExecution
  <2>1. /\ order \in ExecutionOrder /\ order # None /\ Alive /\ order' = None
        /\ executionsFile' = Append(executionsFile, order)
        /\ UNCHANGED <<mark, executed, tradeCount>> /\ pc = "persistExecution"
    BY <1>2, NoneAssumption
    DEF PersistExecution, HistoricalProcessAdd, BookingTypeOK, Alive, memory, history
  <2>2. /\ Len(executionsFile') = Len(executionsFile) + 1
        /\ \A i \in 1 .. Len(executionsFile) : executionsFile'[i] = executionsFile[i]
        /\ executionsFile'[Len(executionsFile) + 1] = order
    BY <1>1, <2>1, AppendProperties
  <2>3. order = executed[tradeCount] /\ Len(executionsFile) - mark.executions = tradeCount - 1
    <3>1. Len(executed) = tradeCount /\ order = executed[Len(executed)]
      BY <1>1, <2>1 DEF BookedInv
    <3>2. Len(executionsFile) - mark.executions = tradeCount - 1
      BY <1>1, <2>1 DEF FileInv
    <3> QED
      BY <3>1, <3>2
  <2>4. mark.executions \in Nat /\ mark.executions = Len(executionsFile) + 1 - tradeCount
    BY <1>1, <2>3 DEF FileInv
  <2>5. ASSUME NEW i \in 1 .. tradeCount
        PROVE  executionsFile'[mark.executions + i] = executed[i]
    <3>1. CASE i = tradeCount
      BY <1>1, <2>2, <2>3, <2>4, <3>1
    <3>2. CASE i # tradeCount
      <4>1. /\ i \in 1 .. Len(executionsFile) - mark.executions
            /\ mark.executions + i \in 1 .. Len(executionsFile)
        BY <1>1, <2>4, <3>2
      <4>2. executionsFile[mark.executions + i] = executed[i]
        BY <4>1 DEF FileInv
      <4> QED
        BY <2>2, <4>1, <4>2
    <3> QED
      BY <3>1, <3>2
  <2>6. Len(executionsFile') - mark.executions = tradeCount
    BY <1>1, <2>2, <2>4
  <2> QED
    <3>1. Len(executionsFile') - mark'.executions = tradeCount'
      BY <2>1, <2>6
    <3>2. \A i \in 1 .. tradeCount' : executionsFile'[mark'.executions + i] = executed'[i]
      BY <2>1, <2>5
    <3>3. mark'.executions \in Nat /\ tradeCount' \in Nat
      BY <1>1, <2>1, <2>4
    <3> QED
      BY <2>1, <3>1, <3>2, <3>3 DEF FileInv
<1>3. CASE BookExecution
  <2>1. /\ order # None /\ Alive /\ order' = order /\ pc' = "addTrade" /\ pc = "book"
        /\ UNCHANGED <<mark, executed, executionsFile>> /\ tradeCount' = tradeCount + 1
    BY <1>3, NoneAssumption DEF BookExecution, BookTrade, BookingTypeOK, Alive, files
  <2> QED
    BY <1>1, <2>1 DEF FileInv, Alive
<1>4. CASE \E o \in ExecutionOrder : ExecuteOrder(o)
  <2>1. PICK o \in ExecutionOrder : ExecuteOrder(o)
    BY <1>4
  <2>2. /\ order = None /\ order' = o /\ pc = "idle" /\ pc' = "book"
        /\ UNCHANGED <<mark, tradeCount, executionsFile>>
        /\ executed' = Append(executed, o)
    BY <2>1 DEF ExecuteOrder, BookedInv, files
  <2>3. /\ tradeCount <= Len(executed)
        /\ \A i \in 1 .. Len(executed) : executed'[i] = executed[i]
    BY <2>1, <2>2, AppendProperties DEF BookedInv, HistoryTypeOK
  <2>4. Len(executed) \in Nat
    BY DEF BookedInv, HistoryTypeOK
  <2> QED
    BY <1>1, <2>2, <2>3, <2>4 DEF FileInv, Alive
<1>5. CASE Restart
  BY <1>1, <1>5 DEF Restart, FileInv, files
<1>6. ASSUME /\ UNCHANGED <<mark, executed, tradeCount, executionsFile>>
             /\ pc' # "dead" =>
                  /\ pc # "dead" /\ order' = order
                  /\ order = None \/ (pc = "book" <=> pc' = "book")
      PROVE  FileInv'
  BY <1>6 DEF FileInv, Alive
<1>7. CASE BadLine \/ Crash
  BY <1>6, <1>7 DEF BadLine, Crash, Dies, memory, files, history
<1>8. CASE UNCHANGED bookingVars \/ Stopped
  <2>1. UNCHANGED <<mark, executed, tradeCount, executionsFile, pc, order>>
    BY <1>8 DEF Stopped, bookingVars, control, memory, files, history
  <2> QED
    BY <2>1 DEF FileInv, Alive
<1>9. CASE \E product \in Products : \E t \in FileTrade(product) : ReadTrade(product, t)
  BY <1>6, <1>9 DEF ReadTrade, BookTrade, BookedInv, files
<1>10. CASE AddTrade \/ AddPosition \/ PersistRisk
  BY <1>6, <1>10 DEF AddTrade, AddPosition, PersistRisk, memory, files, history
<1>11. CASE PersistPosition
  BY <1>6, <1>11 DEF PersistPosition, memory
<1>12. CASE NextPhase
  BY <1>6, <1>12 DEF NextPhase, memory, files, history
<1> QED
  BY <1>2, <1>3, <1>4, <1>5, <1>7, <1>8, <1>9, <1>10, <1>11, <1>12
  DEF BookingNext, OtherStep, Handler

\* The books in turn, starting from TRSY2.
LEMMA BooksFromTheSecond ==
  ASSUME NEW i \in Nat, i > 0
  PROVE  BookOfTurn(i) = <<"TRSY2", "TRSY3", "TRSY1">>[((i - 1) % 3) + 1]
<1>1. BookOfTurn(i) = books[(i % 3) + 1]
  BY DEF BookOfTurn, books
<1>2. \/ i % 3 = 0 /\ (i - 1) % 3 = 2
      \/ i % 3 = 1 /\ (i - 1) % 3 = 0
      \/ i % 3 = 2 /\ (i - 1) % 3 = 1
  OBVIOUS
<1>3. books[1] = "TRSY1" /\ books[2] = "TRSY2" /\ books[3] = "TRSY3"
  BY DEF books
<1> QED
  BY <1>1, <1>2, <1>3

(***************************************************************************)
(* In every run, however it ends, the lines of executions.txt are the      *)
(* executions in order, each booked as the one trade that was due for it.  *)
(***************************************************************************)
THEOREM ExecutionsFileAlwaysMatches == BookingSpec => []ExecutionsFileMatchesTrades
<1>1. BookingInit => BookedInv /\ FileInv
  BY DEF BookingInit, MemoryInit, BookedInv, HistoryTypeOK, FileInv
<1>2. ASSUME BookingTypeOK, BookedInv, FileInv
      PROVE  ExecutionsFileMatchesTrades
  <2> SUFFICES ASSUME NEW i \in 1 .. Len(executionsFile) - mark.executions
      PROVE  LET o == executionsFile[mark.executions + i]
                 b == booked[Len(booked) - tradeCount + i]
             IN  /\ o = executed[i]
                 /\ b.asked = o.product
                 /\ b.trade.tradeId = o.orderId
                 /\ b.trade.quantity = o.visibleQuantity + o.hiddenQuantity
                 /\ b.trade.side = "BUY" <=> o.side = "OFFER"
                 /\ b.trade.book = <<"TRSY2", "TRSY3", "TRSY1">>[((i - 1) % 3) + 1]
    BY DEF ExecutionsFileMatchesTrades
  <2>1. /\ i \in 1 .. tradeCount /\ tradeCount \in Nat
        /\ executionsFile[mark.executions + i] = executed[i]
    BY <1>2 DEF FileInv, BookingTypeOK
  <2>2. AlgoEntry(i) = EntryOf(executed[i], i)
    BY <1>2, <2>1 DEF BookedInv
  <2>3. executed[i] \in ExecutionOrder
    BY <1>2, <2>1 DEF BookedInv, HistoryTypeOK
  <2>4. executed[i].side \in {"BID", "OFFER"}
    BY <2>3 DEF ExecutionOrder, OrdersNamed
  <2>5. BookOfTurn(i) = <<"TRSY2", "TRSY3", "TRSY1">>[((i - 1) % 3) + 1]
    BY <2>1, BooksFromTheSecond
  <2> QED
    BY <2>1, <2>2, <2>4, <2>5 DEF AlgoEntry, EntryOf, TradeOf, MakeTrade, SideBooked
<1>3. BookingTypeOK /\ BookedInv /\ FileInv /\ [BookingNext]_bookingVars
        => BookedInv' /\ FileInv'
  BY BookedInvStep, FileInvStep
<1> QED
  BY <1>1, <1>2, <1>3, BookingTypeCorrect, PTL DEF BookingSpec

-----------------------------------------------------------------------------
(***************************************************************************)
(* The order of the handlers is the one the listeners' registration makes. *)
(***************************************************************************)
LEMMA NestedCalls ==
  ASSUME NEW S, NEW c \in S, NEW rest \in Seq(S)
  PROVE  /\ <<c>> \o rest # <<>>
         /\ Head(<<c>> \o rest) = c /\ Tail(<<c>> \o rest) = rest
         /\ <<>> \o rest = rest
OBVIOUS

LEMMA TwoCalls ==
  ASSUME NEW S, NEW b \in S, NEW c \in S, NEW rest \in Seq(S)
  PROVE  <<b, c>> \o rest = <<b>> \o (<<c>> \o rest)
<1>1. <<b>> \in Seq(S) /\ <<c>> \in Seq(S)
  OBVIOUS
<1>2. (<<b>> \o <<c>>) \o rest = <<b>> \o (<<c>> \o rest)
  BY <1>1, ConcatAssociative
<1> QED
  BY <1>2, JoinTwo

\* What the services that come up here announce.
LEMMA Announced ==
  /\ Wires!Announce("execution", "add") = <<Add("tradeBooking"), Add("historicalExecution")>>
  /\ Wires!Announce("tradeBooking", "add") = <<Add("position")>>
  /\ Wires!Announce("position", "add") = <<Add("risk"), Add("historicalPosition")>>
  /\ Wires!Announce("risk", "update") = <<[to |-> "historicalRisk", event |-> "update"]>>
BY DEF Wires!Announce, Wires!listeners, Add

\* The call of the execution's last listener, if there is an execution.
CallsAfter(o) == IF o = None THEN <<>> ELSE <<Add("historicalExecution")>>

\* Calls as data: all that the proofs below need to know of them.
AnyCall ==
  [to : {"tradeBooking", "position", "risk", "historicalRisk", "historicalPosition",
         "historicalExecution"}, event : {"add", "update"}]

LEMMA CallsAreCalls ==
  /\ \A l \in {"tradeBooking", "position", "risk", "historicalPosition",
               "historicalExecution"} : Add(l) \in AnyCall
  /\ [to |-> "historicalRisk", event |-> "update"] \in AnyCall
  /\ \A o : CallsAfter(o) \in Seq(AnyCall)
<1>1. \A l \in {"tradeBooking", "position", "risk", "historicalPosition",
                "historicalExecution"} : Add(l) \in AnyCall
  BY DEF Add, AnyCall
<1>2. \A o : CallsAfter(o) \in Seq(AnyCall)
  <2> TAKE o
  <2>1. <<Add("historicalExecution")>> \in Seq(AnyCall) /\ <<>> \in Seq(AnyCall)
    BY <1>1
  <2> QED
    BY <2>1 DEF CallsAfter
<1>3. [to |-> "historicalRisk", event |-> "update"] \in AnyCall
  BY DEF AnyCall
<1> QED
  BY <1>1, <1>2, <1>3

\* A listener that is called first and makes these calls.
LEMMA ProcessStep ==
  ASSUME NEW call \in AnyCall, NEW rest \in Seq(AnyCall), NEW calls,
         pc # "dead", pc' # "dead", CallsPending = <<call>> \o rest,
         CallsPending' = (IF call.event = "add" THEN calls ELSE <<>>) \o rest
  PROVE  Wires!Process(call.to, calls)
<1>1. /\ CallsPending # <<>> /\ Head(CallsPending) = call /\ Tail(CallsPending) = rest
  BY NestedCalls
<1> QED
  BY <1>1 DEF Wires!Process, Wires!Nested

LEMMA HandlersAreWired ==
  ASSUME BookingTypeOK, BookedInv, Handler
  PROVE  Wires!WiringNext
<1> DEFINE rest == CallsAfter(order)
<1>0. rest \in Seq(AnyCall)
  BY CallsAreCalls
<1>1. CASE BookExecution
  <2>1. /\ CallsPending = <<Add("tradeBooking")>> \o rest
        /\ CallsPending' = <<Add("position")>> \o rest /\ pc # "dead" /\ pc' # "dead"
    BY <1>1 DEF BookExecution, BookTrade, CallsPending, CallsAfter
  <2>2. Wires!Process(Add("tradeBooking").to, Wires!Announce("tradeBooking", "add"))
    BY <1>0, <2>1, Announced, CallsAreCalls, ProcessStep DEF Add
  <2> QED
    BY <2>2 DEF Add, Wires!WiringNext, Wires!TradeBookingListenerFromExecution
<1>2. CASE AddTrade
  <2>1. /\ CallsPending = <<Add("position")>> \o rest
        /\ CallsPending' = <<Add("risk"), Add("historicalPosition")>> \o rest
        /\ pc # "dead" /\ pc' # "dead"
    BY <1>2 DEF AddTrade, CallsPending, CallsAfter
  <2>2. Wires!Process(Add("position").to, Wires!Announce("position", "add"))
    BY <1>0, <2>1, Announced, CallsAreCalls, ProcessStep DEF Add
  <2> QED
    BY <2>2 DEF Add, Wires!WiringNext, Wires!PositionListenerFromTradeBooking
<1> DEFINE told == [to |-> "historicalRisk", event |-> "update"]
           others == <<Add("historicalPosition")>> \o rest
<1>3. others \in Seq(AnyCall)
  BY <1>0, CallsAreCalls
<1>8. \A b \in AnyCall : <<b, Add("historicalPosition")>> \o rest = <<b>> \o others
  <2> TAKE b \in AnyCall
  <2> DEFINE c == Add("historicalPosition")
  <2>1. c \in AnyCall
    BY CallsAreCalls
  <2> HIDE DEF rest, c
  <2>2. <<b, c>> \o rest = <<b>> \o (<<c>> \o rest)
    BY <1>0, <2>1, TwoCalls
  <2> QED
    BY <2>2 DEF c
<1>4. CASE AddPosition
  <2>1. /\ CallsPending = <<Add("risk"), Add("historicalPosition")>> \o rest
        /\ CallsPending' = <<told, Add("historicalPosition")>> \o rest
        /\ pc # "dead" /\ pc' # "dead"
    BY <1>4 DEF AddPosition, CallsPending, CallsAfter
  <2>2. CallsPending = <<Add("risk")>> \o others /\ CallsPending' = <<told>> \o others
    <3>1. Add("risk") \in AnyCall /\ told \in AnyCall
      BY CallsAreCalls
    <3> HIDE DEF rest, told, others
    <3> QED
      BY <1>8, <2>1, <3>1
  <2>3. Wires!Process(Add("risk").to, Wires!Announce("risk", "update"))
    BY <1>3, <2>1, <2>2, Announced, CallsAreCalls, ProcessStep DEF Add
  <2> QED
    BY <2>3 DEF Add, Wires!WiringNext, Wires!RiskListenerFromPosition
<1>5. CASE PersistRisk
  <2>1. /\ CallsPending = <<told, Add("historicalPosition")>> \o rest
        /\ CallsPending' = others /\ pc # "dead" /\ pc' # "dead"
    BY <1>5 DEF PersistRisk, CallsPending, CallsAfter
  <2>2. CallsPending = <<told>> \o others /\ CallsPending' = <<>> \o others
    <3>1. told \in AnyCall
      BY CallsAreCalls
    <3> HIDE DEF rest, told, others
    <3>2. CallsPending = <<told>> \o others
      BY <1>8, <2>1, <3>1
    <3>3. <<>> \o others = others
      BY <1>3
    <3> QED
      BY <2>1, <3>2, <3>3
  <2>3. Wires!Process(told.to, <<>>)
    BY <1>3, <2>1, <2>2, CallsAreCalls, ProcessStep
  <2> QED
    BY <2>3 DEF Wires!WiringNext, Wires!HistoricalDataListener, Wires!Historical
<1>6. CASE PersistPosition
  <2>1. /\ CallsPending = <<Add("historicalPosition")>> \o rest
        /\ CallsPending' = rest /\ pc # "dead" /\ pc' # "dead"
    BY <1>6 DEF PersistPosition, CallsPending, CallsAfter
  <2>2. CallsPending' = <<>> \o rest
    BY <1>0, <2>1, CallsAreCalls, NestedCalls
  <2>3. Wires!Process(Add("historicalPosition").to, <<>>)
    BY <1>0, <2>1, <2>2, CallsAreCalls, ProcessStep
  <2> QED
    BY <2>3 DEF Add, Wires!WiringNext, Wires!HistoricalDataListener, Wires!Historical
<1>7. CASE PersistExecution
  <2>1. order # None
    BY <1>7, NoneAssumption DEF PersistExecution, BookingTypeOK
  <2>2. /\ CallsPending = <<Add("historicalExecution")>> /\ CallsPending' = <<>>
        /\ pc # "dead" /\ pc' # "dead"
    BY <1>7, <2>1 DEF PersistExecution, CallsPending
  <2>3. /\ CallsPending = <<Add("historicalExecution")>> \o <<>>
        /\ CallsPending' = <<>> \o <<>>
    BY <2>2
  <2>4. Add("historicalExecution") \in AnyCall /\ <<>> \in Seq(AnyCall)
    BY CallsAreCalls
  <2>5. Wires!Process(Add("historicalExecution").to, <<>>)
    BY <2>2, <2>3, <2>4, ProcessStep
  <2> QED
    BY <2>5 DEF Add, Wires!WiringNext, Wires!HistoricalDataListener, Wires!Historical
<1> QED
  BY <1>1, <1>2, <1>4, <1>5, <1>6, <1>7 DEF Handler

\* Everything else is a message from outside, the end of a process or the
\* start of one, or makes no call.
LEMMA OthersAreWired ==
  ASSUME BookingTypeOK, BookedInv, [BookingNext]_bookingVars, ~ Handler
  PROVE  [Wires!WiringNext]_(Wires!wiringVars)
<1>1. CASE \E product \in Products : \E t \in FileTrade(product) : ReadTrade(product, t)
  <2>1. pc = "idle" /\ pc' = "addTrade" /\ order = None /\ order' = None
    BY <1>1 DEF ReadTrade, BookTrade, BookedInv
  <2>2. CallsPending = <<>> /\ CallsPending' = <<Add("position")>>
    BY <2>1 DEF CallsPending
  <2>3. Wires!OnMessage("tradeBooking")
    BY <2>1, <2>2, Announced DEF Wires!OnMessage
  <2> QED
    BY <2>3 DEF Wires!WiringNext
<1>2. CASE \E o \in ExecutionOrder : ExecuteOrder(o)
  <2>1. pc = "idle" /\ pc' = "book" /\ order' # None
    BY <1>2, NoneAssumption DEF ExecuteOrder
  <2>2. /\ CallsPending = <<>>
        /\ CallsPending' = <<Add("tradeBooking"), Add("historicalExecution")>>
    BY <2>1, CallsAreCalls, JoinTwo DEF CallsPending
  <2>3. Wires!OnMessage("execution")
    BY <2>1, <2>2, Announced DEF Wires!OnMessage
  <2> QED
    BY <2>3 DEF Wires!WiringNext
<1>3. CASE BadLine \/ Crash
  <2>1. pc # "dead" /\ pc' = "dead"
    BY <1>3 DEF BadLine, Crash, Dies
  <2>2. Wires!Abort
    BY <2>1 DEF Wires!Abort, CallsPending
  <2> QED
    BY <2>2 DEF Wires!WiringNext
<1>4. CASE Restart
  <2>1. pc \in {"dead", "idle"} /\ pc' = "idle"
    BY <1>4 DEF Restart
  <2>2. CallsPending = <<>> /\ CallsPending' = <<>>
    BY <2>1 DEF CallsPending
  <2> QED
    BY <2>1, <2>2 DEF Wires!WiringNext, Wires!StartAgain, Wires!wiringVars
<1>5. CASE NextPhase \/ Stopped \/ UNCHANGED bookingVars
  <2>1. UNCHANGED <<pc, order>>
    BY <1>5 DEF NextPhase, Stopped, bookingVars, control
  <2> QED
    BY <2>1 DEF CallsPending, Wires!wiringVars
<1> QED
  BY <1>1, <1>2, <1>3, <1>4, <1>5 DEF BookingNext, OtherStep

(***************************************************************************)
(* Trade booking, position, risk and their historical services run in the  *)
(* order in which main registered them, nested as the framework nests      *)
(* them, through every end and every restart.                              *)
(***************************************************************************)
THEOREM BookingFollowsWiring == BookingSpec => BookingImplementsWiring
<1>1. BookingInit => Wires!WiringInit
  BY DEF BookingInit, Wires!WiringInit, CallsPending
<1>2. /\ BookingTypeOK /\ BookedInv /\ [BookingNext]_bookingVars
        => [Wires!WiringNext]_(Wires!wiringVars)
  BY HandlersAreWired, OthersAreWired
<1>3. BookingInit => BookedInv
  BY DEF BookingInit, MemoryInit, BookedInv, HistoryTypeOK
<1> QED
  BY <1>1, <1>2, <1>3, BookedInvStep, BookingTypeCorrect, PTL
  DEF BookingSpec, BookingImplementsWiring, Wires!WiringSpec

-----------------------------------------------------------------------------
(***************************************************************************)
(* Positions as sums.  NetOf is Net of any list of trades: what it is of   *)
(* one trade more.                                                         *)
(***************************************************************************)
TradesOf(log, n, product) == {i \in 1 .. n : log[i].trade.product = product}

TradesIn(log, n, product, book, side) ==
  {i \in TradesOf(log, n, product) :
     log[i].trade.book = book /\ log[i].trade.side = side}

TotalOf(log, n, product, book, side) ==
  SumFunctionOnSet([i \in 1 .. n |-> log[i].trade.quantity],
                   TradesIn(log, n, product, book, side))

NetOf(log, n, product) ==
  [book \in {log[i].trade.book : i \in TradesOf(log, n, product)} |->
     TotalOf(log, n, product, book, "BUY") - TotalOf(log, n, product, book, "SELL")]

LEMMA NetIsNetOf ==
  \A n, product : /\ Net(n, product) = NetOf(booked, n, product)
                  /\ Net(n, product)' = NetOf(booked', n, product)
BY DEF Net, NetOf, TotalOf, TradesIn, TradesOf, SumFunctionOnSet, FoldFunctionOnSet,
   MapThenFoldSet

LEMMA TradesInFinite ==
  ASSUME NEW log, NEW n \in Nat, NEW product, NEW book, NEW side
  PROVE  /\ IsFiniteSet(TradesIn(log, n, product, book, side))
         /\ TradesIn(log, n, product, book, side) \subseteq 1 .. n
<1>1. IsFiniteSet(1 .. n)
  BY FS_Interval
<1>2. TradesIn(log, n, product, book, side) \subseteq 1 .. n
  BY DEF TradesIn, TradesOf
<1> QED
  BY <1>1, <1>2, FS_Subset

LEMMA QuantityType ==
  ASSUME NEW log \in Seq(BookedTrade)
  PROVE  \A i \in 1 .. Len(log) : log[i].trade \in Trade /\ log[i].trade.quantity \in Int
<1> TAKE i \in 1 .. Len(log)
<1>1. log[i] \in BookedTrade
  OBVIOUS
<1>2. log[i].trade \in Trade
  BY <1>1 DEF BookedTrade
<1> QED
  BY <1>2 DEF Trade

LEMMA TotalOfType ==
  ASSUME NEW log \in Seq(BookedTrade), NEW n \in 0 .. Len(log),
         NEW product, NEW book, NEW side
  PROVE  TotalOf(log, n, product, book, side) \in Int
<1> DEFINE f == [i \in 1 .. n |-> log[i].trade.quantity]
           S == TradesIn(log, n, product, book, side)
<1>1. IsFiniteSet(S) /\ S \subseteq 1 .. n
  <2>1. n \in Nat
    OBVIOUS
  <2> QED
    BY <2>1, TradesInFinite
<1>2. \A i \in 1 .. n : f[i] \in Int
  BY QuantityType
<1>3. \A i \in S : f[i] \in Int
  BY <1>1, <1>2
<1> HIDE DEF f, S
<1>4. SumFunctionOnSet(f, S) \in Int
  BY <1>1, <1>3, SumType
<1> QED
  BY <1>4 DEF TotalOf, f, S

\* One trade more counts in its own book and side and nowhere else.
LEMMA TotalOfOneMore ==
  ASSUME NEW log \in Seq(BookedTrade), NEW n \in Nat, n < Len(log),
         NEW product, NEW book, NEW side
  PROVE  LET t == log[n + 1].trade
         IN  TotalOf(log, n + 1, product, book, side) =
               TotalOf(log, n, product, book, side) +
                 (IF t.product = product /\ t.book = book /\ t.side = side
                  THEN t.quantity ELSE 0)
<1> DEFINE t == log[n + 1].trade
           f == [i \in 1 .. n |-> log[i].trade.quantity]
           h == [i \in 1 .. n + 1 |-> log[i].trade.quantity]
           S == TradesIn(log, n, product, book, side)
           U == TradesIn(log, n + 1, product, book, side)
           mine == t.product = product /\ t.book = book /\ t.side = side
<1>1. IsFiniteSet(S) /\ S \subseteq 1 .. n
  BY TradesInFinite
<1>2. \A i \in 1 .. n + 1 : h[i] = log[i].trade.quantity /\ h[i] \in Int
  BY QuantityType
<1>3. \A i \in S : h[i] = f[i]
  BY <1>1
<1>4. U = IF mine THEN S \cup {n + 1} ELSE S
  <2>1. \A i : i \in 1 .. n + 1 <=> i \in 1 .. n \/ i = n + 1
    OBVIOUS
  <2> QED
    BY <2>1 DEF TradesIn, TradesOf
<1>5. n + 1 \notin S /\ \A i \in S \cup {n + 1} : h[i] \in Int
  BY <1>1, <1>2
<1>6. h[n + 1] = t.quantity
  BY <1>2
<1>7. TotalOf(log, n, product, book, side) \in Int
  BY TotalOfType
<1> HIDE DEF f, h, S, U, t
<1>8. SumFunctionOnSet(h, S) = SumFunctionOnSet(f, S)
  BY <1>1, <1>3, SumSame
<1>9. SumFunctionOnSet(h, S \cup {n + 1}) = SumFunctionOnSet(h, S) + h[n + 1]
  BY <1>1, <1>5, SumOfOneMore
<1>10. /\ TotalOf(log, n, product, book, side) = SumFunctionOnSet(f, S)
       /\ TotalOf(log, n + 1, product, book, side) = SumFunctionOnSet(h, U)
  BY DEF TotalOf, f, h, S, U
<1>11. CASE mine
  BY <1>4, <1>6, <1>8, <1>9, <1>10, <1>11 DEF t
<1>12. CASE ~ mine
  BY <1>4, <1>7, <1>8, <1>10, <1>12 DEF t
<1> QED
  BY <1>11, <1>12

\* Adding a trade to the net position of its book, as PositionWith does.
LEMMA NetOfOneMore ==
  ASSUME NEW log \in Seq(BookedTrade), NEW n \in Nat, n < Len(log), NEW product
  PROVE  LET t == log[n + 1].trade
             net == NetOf(log, n, product)
         IN  NetOf(log, n + 1, product) =
               IF t.product = product
               THEN Put(net, t.book, Lookup(net, t.book, 0) + Signed(t))
               ELSE net
<1> DEFINE t == log[n + 1].trade
           net == NetOf(log, n, product)
           B == {log[i].trade.book : i \in TradesOf(log, n, product)}
           more == {log[i].trade.book : i \in TradesOf(log, n + 1, product)}
           total(b, s) == TotalOf(log, n, product, b, s)
<1>1. t \in Trade
  BY QuantityType
<1>2. t.side \in {"BUY", "SELL"} /\ t.quantity \in Int
  BY <1>1 DEF Trade
<1>3. more = IF t.product = product THEN B \cup {t.book} ELSE B
  <2>1. \A i : i \in 1 .. n + 1 <=> i \in 1 .. n \/ i = n + 1
    OBVIOUS
  <2>2. TradesOf(log, n + 1, product) =
          TradesOf(log, n, product) \cup (IF t.product = product THEN {n + 1} ELSE {})
    BY <2>1 DEF TradesOf
  <2> QED
    BY <2>2
<1>4. \A b, s : total(b, s) \in Int
  BY TotalOfType
<1>5. \A b, s : TotalOf(log, n + 1, product, b, s) =
                  total(b, s) + (IF t.product = product /\ t.book = b /\ t.side = s
                                 THEN t.quantity ELSE 0)
  BY TotalOfOneMore
<1>6. ASSUME NEW b, b \notin B
      PROVE  total(b, "BUY") = 0 /\ total(b, "SELL") = 0
  <2>1. \A s : TradesIn(log, n, product, b, s) = {}
    BY <1>6 DEF TradesIn
  <2> QED
    BY <2>1, SumOfNone DEF TotalOf
<1> HIDE DEF t, B, total, more
<1>7. /\ net = [b \in B |-> total(b, "BUY") - total(b, "SELL")]
      /\ NetOf(log, n + 1, product) =
           [b \in more |-> TotalOf(log, n + 1, product, b, "BUY")
                             - TotalOf(log, n + 1, product, b, "SELL")]
  BY DEF NetOf, B, total, more
<1>8. CASE t.product # product
  <2>1. \A b : /\ TotalOf(log, n + 1, product, b, "BUY") = total(b, "BUY")
               /\ TotalOf(log, n + 1, product, b, "SELL") = total(b, "SELL")
    BY <1>4, <1>5, <1>8
  <2>2. more = B
    BY <1>3, <1>8
  <2> HIDE DEF net
  <2>3. NetOf(log, n + 1, product) = net
    BY <1>7, <2>1, <2>2
  <2> QED
    BY <1>8, <2>3 DEF t, net
<1>9. CASE t.product = product
  <2> DEFINE now == [b \in more |-> TotalOf(log, n + 1, product, b, "BUY")
                                      - TotalOf(log, n + 1, product, b, "SELL")]
             before == [b \in B |-> total(b, "BUY") - total(b, "SELL")]
  <2>1. ASSUME NEW b, b # t.book
        PROVE  /\ TotalOf(log, n + 1, product, b, "BUY") = total(b, "BUY")
               /\ TotalOf(log, n + 1, product, b, "SELL") = total(b, "SELL")
    BY <1>4, <1>5, <2>1
  <2>2. TotalOf(log, n + 1, product, t.book, "BUY")
          - TotalOf(log, n + 1, product, t.book, "SELL") =
          (total(t.book, "BUY") - total(t.book, "SELL")) + Signed(t)
    <3>1. /\ TotalOf(log, n + 1, product, t.book, "BUY") =
               total(t.book, "BUY") + (IF t.side = "BUY" THEN t.quantity ELSE 0)
          /\ TotalOf(log, n + 1, product, t.book, "SELL") =
               total(t.book, "SELL") + (IF t.side = "SELL" THEN t.quantity ELSE 0)
      BY <1>5, <1>9
    <3>2. total(t.book, "BUY") \in Int /\ total(t.book, "SELL") \in Int
      BY <1>4
    <3> QED
      BY <1>2, <3>1, <3>2 DEF Signed
  <2>3. Lookup(before, t.book, 0) = total(t.book, "BUY") - total(t.book, "SELL")
    BY <1>6 DEF Lookup
  <2>4. more = B \cup {t.book}
    BY <1>3, <1>9
  <2>5. now = Put(before, t.book, Lookup(before, t.book, 0) + Signed(t))
    BY <2>1, <2>2, <2>3, <2>4 DEF Put
  <2> QED
    BY <1>7, <1>9, <2>5 DEF t
<1> QED
  BY <1>8, <1>9 DEF t

\* The trades after the n-th do not matter to the position after the n-th.
LEMMA NetOfSame ==
  ASSUME NEW log, NEW longer, NEW n \in Nat, \A i \in 1 .. n : longer[i] = log[i]
  PROVE  \A product : NetOf(longer, n, product) = NetOf(log, n, product)
<1> TAKE product
<1>1. TradesOf(longer, n, product) = TradesOf(log, n, product)
  BY DEF TradesOf
<1>2. \A book, side : TradesIn(longer, n, product, book, side)
                        = TradesIn(log, n, product, book, side)
  BY <1>1 DEF TradesIn, TradesOf
<1>3. [i \in 1 .. n |-> longer[i].trade.quantity] = [i \in 1 .. n |-> log[i].trade.quantity]
  OBVIOUS
<1>4. \A book, side : TotalOf(longer, n, product, book, side)
                        = TotalOf(log, n, product, book, side)
  BY <1>2, <1>3 DEF TotalOf
<1>5. {longer[i].trade.book : i \in TradesOf(log, n, product)}
        = {log[i].trade.book : i \in TradesOf(log, n, product)}
  BY DEF TradesOf
<1> QED
  BY <1>1, <1>4, <1>5 DEF NetOf

LEMMA NetOfNone ==
  ASSUME NEW log, NEW n \in Nat, NEW product,
         \A i \in 1 .. n : log[i].trade.product # product
  PROVE  NetOf(log, n, product) = EmptyMap
<1>1. TradesOf(log, n, product) = {}
  BY DEF TradesOf
<1> QED
  BY <1>1 DEF NetOf, EmptyMap

-----------------------------------------------------------------------------
(***************************************************************************)
(* The position service and its file.  What the two properties leave out   *)
(* is the trade on its way: it is the last one booked, the positions do    *)
(* not have it until AddTrade, and the file has it when PersistPosition    *)
(* has run.                                                                *)
(***************************************************************************)
InFlight == pc \in {"addTrade", "addPosition", "persistRisk", "persistPosition"}

Added == Len(booked) - (IF pc = "addTrade" THEN 1 ELSE 0)

NetInv ==
  /\ InFlight => booked # <<>> /\ trade = booked[Len(booked)].trade
  /\ Alive =>
       /\ DOMAIN positions = {booked[i].trade.product : i \in 1 .. Added}
       /\ \A p \in DOMAIN positions : positions[p] = NetOf(booked, Added, p)

LEMMA AddTradeKeepsNet ==
  ASSUME BookingTypeOK, BookedInv, NetInv, AddTrade
  PROVE  NetInv'
<1> DEFINE n == Len(booked) - 1
           p == trade.product
<1>1. booked \in Seq(BookedTrade) /\ Len(booked) \in Nat /\ booked # <<>>
  BY DEF BookedInv, HistoryTypeOK, AddTrade, NetInv, InFlight
<1>2. n \in Nat /\ n < Len(booked) /\ n + 1 = Len(booked)
  BY <1>1
<1>3. /\ pc = "addTrade" /\ pc' = "addPosition" /\ Alive /\ Alive'
      /\ positions' = Put(positions, p, PositionWith(trade))
      /\ booked' = booked /\ trade' = trade
  BY DEF AddTrade, Alive, history
<1>4. /\ trade = booked[n + 1].trade /\ Added = n /\ Added' = n + 1
      /\ DOMAIN positions = {booked[i].trade.product : i \in 1 .. n}
      /\ \A x \in DOMAIN positions : positions[x] = NetOf(booked, n, x)
  BY <1>2, <1>3 DEF NetInv, InFlight, Added
<1>5. DOMAIN positions' = {booked[i].trade.product : i \in 1 .. n + 1}
  <2>1. \A i : i \in 1 .. n + 1 <=> i \in 1 .. n \/ i = n + 1
    BY <1>2
  <2> HIDE DEF n
  <2>2. DOMAIN positions' = DOMAIN positions \cup {booked[n + 1].trade.product}
    BY <1>3, <1>4 DEF Put
  <2> QED
    BY <1>4, <2>1, <2>2
<1>6. Lookup(positions, p, EmptyMap) = NetOf(booked, n, p)
  <2>1. CASE p \in DOMAIN positions
    BY <1>4, <2>1 DEF Lookup
  <2>2. CASE p \notin DOMAIN positions
    BY <1>2, <1>4, <2>2, NetOfNone DEF Lookup
  <2> QED
    BY <2>1, <2>2
<1>7. ASSUME NEW x \in DOMAIN positions'
      PROVE  positions'[x] = NetOf(booked, n + 1, x)
  <2>1. NetOf(booked, n + 1, x) =
          IF p = x
          THEN Put(NetOf(booked, n, x), trade.book,
                   Lookup(NetOf(booked, n, x), trade.book, 0) + Signed(trade))
          ELSE NetOf(booked, n, x)
    <3> HIDE DEF n
    <3> QED
      BY <1>1, <1>2, <1>4, NetOfOneMore
  <2>2. CASE x = p
    <3>1. positions'[x] = PositionWith(trade)
      BY <1>3, <2>2 DEF Put
    <3> HIDE DEF n
    <3> QED
      BY <1>6, <2>1, <2>2, <3>1 DEF PositionWith
  <2>3. CASE x # p
    <3>1. x \in DOMAIN positions /\ positions'[x] = positions[x]
      BY <1>3, <2>3 DEF Put
    <3> HIDE DEF n
    <3> QED
      BY <1>4, <2>1, <2>3, <3>1
  <2> QED
    BY <2>2, <2>3
<1> HIDE DEF n
<1> QED
  BY <1>1, <1>2, <1>3, <1>4, <1>5, <1>7 DEF NetInv, InFlight

\* A trade is booked: it is in flight, and not yet added.
LEMMA BookTradeKeepsNet ==
  ASSUME BookedInv, BookedInv', NetInv, NEW product, NEW t, BookTrade(product, t),
         pc \in {"idle", "book"}, UNCHANGED positions
  PROVE  NetInv'
<1>1. /\ booked' = Append(booked, [asked |-> product, trade |-> t]) /\ trade' = t
      /\ pc' = "addTrade" /\ booked \in Seq(BookedTrade) /\ Len(booked) \in Nat
  BY DEF BookTrade, BookedInv, HistoryTypeOK
<1>2. /\ Len(booked') = Len(booked) + 1 /\ booked'[Len(booked')].trade = t
      /\ \A i \in 1 .. Len(booked) : booked'[i] = booked[i]
  BY <1>1
<1>3. Added = Len(booked) /\ Added' = Len(booked)
  BY <1>1, <1>2 DEF Added
<1>4. \A p : NetOf(booked', Len(booked), p) = NetOf(booked, Len(booked), p)
  <2>1. Len(booked) \in Nat /\ \A i \in 1 .. Len(booked) : booked'[i] = booked[i]
    BY <1>1, <1>2
  <2> QED
    BY <2>1, NetOfSame, Zenon
<1>5. {booked'[i].trade.product : i \in 1 .. Len(booked)}
        = {booked[i].trade.product : i \in 1 .. Len(booked)}
  BY <1>2
<1>6. Alive /\ booked' # <<>>
  BY <1>1, <1>2 DEF Alive
<1> QED
  BY <1>1, <1>2, <1>3, <1>4, <1>5, <1>6 DEF NetInv, InFlight

LEMMA NetInvStep ==
  ASSUME BookingTypeOK, BookedInv, NetInv, [BookingNext]_bookingVars
  PROVE  NetInv'
<1>0. BookedInv'
  BY BookedInvStep
<1>1. CASE AddTrade
  BY <1>1, AddTradeKeepsNet
<1>2. CASE \E product \in Products : \E t \in FileTrade(product) : ReadTrade(product, t)
  BY <1>0, <1>2, BookTradeKeepsNet DEF ReadTrade
<1>3. CASE BookExecution
  BY <1>0, <1>3, BookTradeKeepsNet DEF BookExecution
<1>4. CASE Restart
  <2>1. booked' = <<>> /\ positions' = EmptyMap /\ pc' = "idle" /\ Added' = 0
    BY <1>4 DEF Restart, Added
  <2> QED
    BY <2>1 DEF NetInv, InFlight, EmptyMap
<1>5. ASSUME UNCHANGED <<booked, positions>>,
             \/ pc' = "dead"
             \/ UNCHANGED <<pc, trade>>
             \/ InFlight /\ pc # "addTrade" /\ pc' # "addTrade" /\ trade' = trade
             \/ ~ InFlight' /\ pc \notin {"addTrade", "dead"}
      PROVE  NetInv'
  <2>1. InFlight' => InFlight /\ trade' = trade
    BY <1>5 DEF InFlight
  <2>2. Alive' => Alive /\ Added' = Added
    BY <1>5 DEF Alive, Added, InFlight
  <2> QED
    BY <1>5, <2>1, <2>2 DEF NetInv
<1>6. CASE BadLine \/ Crash
  BY <1>5, <1>6 DEF BadLine, Crash, Dies, memory, history
<1>7. CASE Stopped \/ UNCHANGED bookingVars \/ NextPhase
  BY <1>5, <1>7 DEF Stopped, NextPhase, bookingVars, control, memory, history
<1>8. CASE \E o \in ExecutionOrder : ExecuteOrder(o)
  BY <1>5, <1>8 DEF ExecuteOrder, InFlight
<1>9. CASE AddPosition \/ PersistRisk
  BY <1>5, <1>9 DEF AddPosition, PersistRisk, InFlight, memory, history
<1>10. CASE PersistPosition \/ PersistExecution
  BY <1>5, <1>10 DEF PersistPosition, PersistExecution, InFlight, memory, history
<1> QED
  BY <1>1, <1>2, <1>3, <1>4, <1>6, <1>7, <1>8, <1>9, <1>10
  DEF BookingNext, OtherStep, Handler

LEMMA NetInvariant == BookingSpec => [](BookingTypeOK /\ BookedInv /\ NetInv)
<1>1. BookingInit => BookedInv /\ NetInv
  BY DEF BookingInit, MemoryInit, BookedInv, HistoryTypeOK, NetInv, InFlight, Added,
     EmptyMap
<1>2. BookingTypeOK /\ BookedInv /\ NetInv /\ [BookingNext]_bookingVars
        => BookedInv' /\ NetInv'
  BY BookedInvStep, NetInvStep
<1> QED
  BY <1>1, <1>2, BookingTypeCorrect, PTL DEF BookingSpec

(***************************************************************************)
(* Whatever trades come from whichever service, in any number, the         *)
(* position kept for each product is, book by book, what they bought less  *)
(* what they sold: AddPosition never loses or doubles one, although the    *)
(* booking service's own map overwrites trades that share an identifier.   *)
(***************************************************************************)
THEOREM PositionsAlwaysNetTrades == BookingSpec => []PositionsAreNetTrades
<1>1. BookingTypeOK /\ BookedInv /\ NetInv => PositionsAreNetTrades
  <2> SUFFICES ASSUME BookedInv, NetInv, Alive, pc # "addTrade"
               PROVE  /\ DOMAIN positions = {booked[i].trade.product : i \in DOMAIN booked}
                      /\ \A p \in DOMAIN positions : positions[p] = Net(Len(booked), p)
    BY DEF PositionsAreNetTrades
  <2>1. booked \in Seq(BookedTrade) /\ Added = Len(booked) /\ DOMAIN booked = 1 .. Len(booked)
    BY DEF BookedInv, HistoryTypeOK, Added
  <2> QED
    BY <2>1, NetIsNetOf DEF NetInv
<1> QED
  BY <1>1, NetInvariant, PTL

-----------------------------------------------------------------------------
(* Lines of positions.txt, those of earlier runs included. *)
AnyPosition == UNION {[B -> Int] : B \in SUBSET AllBooks}

AnyPositionLine == [product : Products \cup {NoProduct}, position : AnyPosition]

PositionsFileInv ==
  LET written == Len(positionsFile) - mark.positions
  IN  /\ positionsFile \in Seq(AnyPositionLine) /\ mark.positions \in Nat
      /\ written \in Nat
      /\ \/ written = Len(booked) /\ (Alive => ~ InFlight)
         \/ written = Len(booked) - 1 /\ (Alive => InFlight)
      /\ \A i \in 1 .. written :
           LET p == booked[i].trade.product
           IN  positionsFile[mark.positions + i] =
                 [product |-> p, position |-> NetOf(booked, i, p)]

\* The line written is the position after the last trade booked.
LEMMA PersistPositionKeepsFile ==
  ASSUME BookingTypeOK, BookedInv, NetInv, PositionsFileInv, TradeHasPosition,
         PersistPosition
  PROVE  PositionsFileInv'
<1> DEFINE start == mark.positions
           n == Len(booked)
           p == booked[n].trade.product
           line == [product |-> p, position |-> NetOf(booked, n, p)]
<1>1. booked \in Seq(BookedTrade) /\ n \in Nat /\ booked # <<>> /\ n > 0
  BY DEF BookedInv, HistoryTypeOK, PersistPosition, NetInv, InFlight
<1>2. /\ Alive /\ Alive' /\ InFlight /\ ~ InFlight' /\ Added = n
      /\ UNCHANGED <<booked, mark>>
      /\ trade = booked[n].trade /\ trade.product \in DOMAIN positions
  BY DEF PersistPosition, Alive, InFlight, Added, NetInv, TradeHasPosition
<1>3. PositionLine = line
  BY <1>2 DEF PositionLine, NetInv
<1>4. line \in AnyPositionLine
  <2>1. positions[p] \in AnyPosition
    <3>1. IsMap(positions[p], AllBooks, Int)
      BY <1>2 DEF BookingTypeOK
    <3>2. positions[p] \in [DOMAIN positions[p] -> Int]
      BY <3>1 DEF IsMap
    <3>3. DOMAIN positions[p] \in SUBSET AllBooks
      BY <3>1 DEF IsMap
    <3> QED
      BY <3>2, <3>3 DEF AnyPosition
  <2>2. NetOf(booked, n, p) = positions[p] /\ p \in Products \cup {NoProduct}
    BY <1>2 DEF NetInv, BookingTypeOK
  <2> QED
    BY <2>1, <2>2 DEF AnyPositionLine
<1>5. positionsFile \in Seq(AnyPositionLine) /\ start \in Nat
      /\ Len(positionsFile) - start = n - 1 /\ Len(positionsFile) \in Nat
  BY <1>1, <1>2 DEF PositionsFileInv
<1> HIDE DEF line, p, n, start
<1>6. positionsFile' = Append(positionsFile, line)
  BY <1>3 DEF PersistPosition, HistoricalProcessAdd
<1>7. /\ positionsFile' \in Seq(AnyPositionLine)
      /\ Len(positionsFile') = Len(positionsFile) + 1
      /\ \A i \in 1 .. Len(positionsFile) : positionsFile'[i] = positionsFile[i]
      /\ positionsFile'[Len(positionsFile) + 1] = line
  BY <1>4, <1>5, <1>6, AppendProperties
<1>8. Len(positionsFile') - start = n /\ Len(positionsFile) + 1 = start + n
  BY <1>1, <1>5, <1>7
<1>9. ASSUME NEW i \in 1 .. n
      PROVE  positionsFile'[start + i] =
               [product |-> booked[i].trade.product,
                position |-> NetOf(booked, i, booked[i].trade.product)]
  <2>1. CASE i = n
    BY <1>7, <1>8, <2>1 DEF line, p
  <2>2. CASE i # n
    <3>1. i \in 1 .. Len(positionsFile) - start /\ start + i \in 1 .. Len(positionsFile)
      BY <1>1, <1>5, <2>2
    <3>2. positionsFile[start + i] =
            [product |-> booked[i].trade.product,
             position |-> NetOf(booked, i, booked[i].trade.product)]
      BY <3>1 DEF PositionsFileInv, start
    <3> QED
      BY <1>7, <3>1, <3>2
  <2> QED
    BY <2>1, <2>2
<1> QED
  BY <1>1, <1>2, <1>5, <1>7, <1>8, <1>9 DEF PositionsFileInv, start, n

LEMMA BookTradeKeepsFile ==
  ASSUME BookedInv, BookedInv', PositionsFileInv, NEW product, NEW t,
         BookTrade(product, t), pc \in {"idle", "book"}, UNCHANGED <<positionsFile, mark>>
  PROVE  PositionsFileInv'
<1> DEFINE n == Len(booked)
<1>1. /\ booked' = Append(booked, [asked |-> product, trade |-> t])
      /\ pc' = "addTrade" /\ booked \in Seq(BookedTrade) /\ n \in Nat
  BY DEF BookTrade, BookedInv, HistoryTypeOK
<1>2. /\ Len(booked') = n + 1
      /\ \A i \in 1 .. n : booked'[i] = booked[i]
  BY <1>1
<1>3. Alive /\ ~ InFlight /\ InFlight'
  BY <1>1 DEF Alive, InFlight
<1>4. Len(positionsFile) - mark.positions = n
  BY <1>3 DEF PositionsFileInv
<1>5. ASSUME NEW i \in 1 .. n
      PROVE  \A p : NetOf(booked', i, p) = NetOf(booked, i, p)
  <2>1. i \in Nat /\ \A k \in 1 .. i : booked'[k] = booked[k]
    BY <1>1, <1>2
  <2> HIDE DEF n
  <2> QED
    BY <2>1, NetOfSame
<1> HIDE DEF n
<1> QED
  BY <1>1, <1>2, <1>3, <1>4, <1>5 DEF PositionsFileInv

LEMMA PositionsFileInvStep ==
  ASSUME BookingTypeOK, BookedInv, NetInv, PositionsFileInv, TradeHasPosition,
         [BookingNext]_bookingVars
  PROVE  PositionsFileInv'
<1>0. BookedInv'
  BY BookedInvStep
<1>1. CASE PersistPosition
  BY <1>1, PersistPositionKeepsFile
<1>2. CASE \E product \in Products : \E t \in FileTrade(product) : ReadTrade(product, t)
  BY <1>0, <1>2, BookTradeKeepsFile DEF ReadTrade, files
<1>3. CASE BookExecution
  BY <1>0, <1>3, BookTradeKeepsFile DEF BookExecution, files
<1>4. CASE Restart
  <2>1. /\ booked' = <<>> /\ pc' = "idle" /\ positionsFile' = positionsFile
        /\ mark'.positions = Len(positionsFile)
    BY <1>4 DEF Restart, files
  <2>2. Len(positionsFile) \in Nat
    BY DEF PositionsFileInv
  <2> QED
    BY <2>1, <2>2 DEF PositionsFileInv, InFlight
<1>5. ASSUME UNCHANGED <<booked, positionsFile, mark>>,
             Alive' => Alive /\ InFlight' = InFlight
      PROVE  PositionsFileInv'
  BY <1>5 DEF PositionsFileInv
<1>6. CASE BadLine \/ Crash
  BY <1>5, <1>6 DEF BadLine, Crash, Dies, files, history, Alive
<1>7. CASE Stopped \/ UNCHANGED bookingVars \/ NextPhase
  BY <1>5, <1>7 DEF Stopped, NextPhase, bookingVars, control, files, history, Alive, InFlight
<1>8. CASE \E o \in ExecutionOrder : ExecuteOrder(o)
  BY <1>5, <1>8 DEF ExecuteOrder, Alive, InFlight, files
<1>9. CASE AddTrade \/ AddPosition
  BY <1>5, <1>9 DEF AddTrade, AddPosition, Alive, InFlight, files, history
<1>10. CASE PersistRisk \/ PersistExecution
  BY <1>5, <1>10 DEF PersistRisk, PersistExecution, Alive, InFlight, files, history
<1> QED
  BY <1>1, <1>2, <1>3, <1>4, <1>6, <1>7, <1>8, <1>9, <1>10
  DEF BookingNext, OtherStep, Handler

(***************************************************************************)
(* Read in order, the lines a run adds to positions.txt are the running    *)
(* position after each of its trades, however long the run and however it  *)
(* ends.                                                                   *)
(***************************************************************************)
THEOREM PositionsFileAlwaysRunningNet == BookingSpec => []PositionsFileIsRunningNet
<1>1. BookingInit => PositionsFileInv
  BY DEF BookingInit, PositionsFileInv, InFlight
<1>2. ASSUME BookingTypeOK, PositionsFileInv
      PROVE  PositionsFileIsRunningNet
  <2>1. pc = "idle" => Alive /\ ~ InFlight
    BY DEF Alive, InFlight
  <2> QED
    BY <1>2, <2>1, NetIsNetOf DEF PositionsFileIsRunningNet, PositionsFileInv
<1> QED
  BY <1>1, <1>2, PositionsFileInvStep, NetInvariant, BookingInvariant, PTL DEF BookingSpec

=============================================================================
