------------------------------ MODULE Booking -------------------------------
(***************************************************************************)
(* From an execution or a line of trades.txt to positions, risk and files: *)
(* the execution, trade booking, position, risk and historical data        *)
(* services, wired as in main.cpp:58-64.                                   *)
(*                                                                         *)
(* The services call each other synchronously.  One action is the work one *)
(* handler does before it calls the next listener, and pc names the call   *)
(* about to be made, so that a process that dies between two handlers      *)
(* leaves exactly the files it had written.                                *)
(*                                                                         *)
(*   ExecuteOrder -> BookExecution -> AddTrade -> AddPosition              *)
(*       -> PersistRisk -> PersistPosition -> PersistExecution             *)
(*   ReadTrade    ---------------> AddTrade -> AddPosition                 *)
(*       -> PersistRisk -> PersistPosition                                 *)
(*                                                                         *)
(* Prices, order types and time stamps are left out: nothing here reads    *)
(* them.                                                                   *)
(***************************************************************************)
EXTENDS Integers, Sequences, Functions, Maps

CONSTANTS
  Products,      \* the keys of bondCreatorMap
  NoProduct,     \* the product identifier of a default-constructed Bond
  Ids,           \* order identifiers: what GenerateId may return
  FileIds,       \* trade identifiers in trades.txt
  FileBooks,     \* books named in trades.txt
  Quantities,
  pv01Values,    \* products with an entry in the table of functions.hpp
  None,          \* no order or trade in flight
  MaxLines,      \* bound: trades booked over all runs
  MaxDeaths      \* bound: abnormal ends, over all runs

ASSUME NoProductAssumption == NoProduct \notin Products
ASSUME QuantityAssumption == Quantities \subseteq Int
books == <<"TRSY1", "TRSY2", "TRSY3">>
AllIds == FileIds \cup Ids
AllBooks == FileBooks \cup {books[i] : i \in DOMAIN books}

OrdersNamed(ids) ==
  [product : Products, side : {"BID", "OFFER"}, orderId : ids,
   visibleQuantity : Quantities, hiddenQuantity : {0}]

ExecutionOrder == OrdersNamed(Ids)

Trade ==
  [product : Products \cup {NoProduct}, tradeId : AllIds, book : AllBooks,
   quantity : Int, side : {"BUY", "SELL"}]

ASSUME NoneAssumption == None \notin ExecutionOrder

VARIABLES
  phase,            \* the Subscribe call of main that runs
  pc,               \* the call about to be made
  order,            \* the arguments in flight
  trade,
  executionOrders,  \* ExecutionService, keyed on product
  tradeCount,       \* count of TradeBookingListenerFromExecution
  trades,           \* TradeBookingService, keyed on trade identifier
  positions,        \* PositionService: product -> book -> quantity
  risk,             \* RiskService: product -> PV01
  positionsFile,    \* the files, which outlive the process
  executionsFile,
  riskFile,
  deaths,           \* abnormal ends so far
  executed,         \* history: the orders executed in this run
  booked,           \* history: the trades booked in this run, with the
                    \*   product each was asked for
  mark,             \* history: the lengths of the files when the run began
  algoLines         \* history: lines of positionsFile due to executions

control  == <<phase, pc, order, trade>>
memory   == <<executionOrders, tradeCount, trades, positions, risk>>
files    == <<positionsFile, executionsFile, riskFile>>
history  == <<executed, booked, mark, algoLines>>
bookingVars == <<control, memory, files, deaths, history>>

-----------------------------------------------------------------------------
MemoryInit ==
  /\ executionOrders = EmptyMap
  /\ tradeCount = 0
  /\ trades = EmptyMap
  /\ positions = EmptyMap
  /\ risk = EmptyMap

BookingInit ==
  /\ phase = "trades" /\ pc = "idle" /\ order = None /\ trade = None
  /\ MemoryInit
  /\ positionsFile = <<>> /\ executionsFile = <<>> /\ riskFile = <<>>
  /\ deaths = 0
  /\ executed = <<>> /\ booked = <<>>
  /\ mark = [positions |-> 0, executions |-> 0]
  /\ algoLines = 0

(***************************************************************************)
(* The constructor of Trade assigns every member but product, which keeps  *)
(* the value a default-constructed Bond has.                               *)
(***************************************************************************)
MakeTrade(product, tradeId, book, quantity, side) ==
  [product |-> NoProduct, tradeId |-> tradeId, book |-> book,
   quantity |-> quantity, side |-> side]

\* Mutant: insert instead of assignment, which keeps the first of two trades.
BookTradeOnce(product, t) ==
  /\ trades' = Put(trades, t.tradeId, Lookup(trades, t.tradeId, t))
  /\ trade' = t
  /\ booked' = Append(booked, [asked |-> product, trade |-> t])
  /\ pc' = "addTrade"

\* TradeBookingService::OnMessage, up to the call of its listener.
BookTrade(product, t) ==
  /\ trades' = Put(trades, t.tradeId, t)
  /\ trade' = t
  /\ booked' = Append(booked, [asked |-> product, trade |-> t])
  /\ pc' = "addTrade"

LinesLeft == Len(positionsFile) + deaths < MaxLines

\* One line of trades.txt, read by TradeBookingConnector::Subscribe.
ReadTrade(product, t) ==
  /\ phase = "trades" /\ pc = "idle" /\ LinesLeft
  /\ BookTrade(product, t)
  /\ UNCHANGED <<phase, order, executionOrders, tradeCount, positions, risk>>
  /\ UNCHANGED <<files, deaths, executed, mark, algoLines>>

\* Mutant: main does not wait for the handlers of the last line.
NextPhaseEarly ==
  /\ pc # "dead"
  /\ \/ phase = "trades" /\ phase' = "marketdata"
     \/ phase = "marketdata" /\ phase' = "ended"
  /\ UNCHANGED <<pc, order, trade, memory, files, deaths, history>>

\* Subscribe reached the end of the file, and main goes on.
NextPhase ==
  /\ pc = "idle"
  /\ \/ phase = "trades" /\ phase' = "marketdata"
     \/ phase = "marketdata" /\ phase' = "ended"
  /\ UNCHANGED <<pc, order, trade, memory, files, deaths, history>>

(***************************************************************************)
(* ExecutionToAlgoExecutionListener::ProcessAdd: OnMessage stores the      *)
(* order, ExecuteOrder stores it again and calls the listeners.            *)
(***************************************************************************)
ExecuteOrder(o) ==
  /\ phase = "marketdata" /\ pc = "idle" /\ LinesLeft
  /\ executionOrders' = Put(executionOrders, o.product, o)
  /\ order' = o
  /\ executed' = Append(executed, o)
  /\ pc' = "book"
  /\ UNCHANGED <<phase, trade, tradeCount, trades, positions, risk>>
  /\ UNCHANGED <<files, deaths, booked, mark, algoLines>>

\* Mutant: an execution on the bid is booked as a purchase.
SideBookedSame(side) == IF side = "BID" THEN "BUY" ELSE "SELL"

SideBooked(side) == IF side = "BID" THEN "SELL" ELSE "BUY"

\* Mutant: two of the three books are used.
BookOfTurnTwo(count) == books[(count % 2) + 1]

\* books[count % books.size()], read after count++.
BookOfTurn(count) == books[(count % Len(books)) + 1]

\* The trade booked for an execution.
TradeOf(o, count) ==
  MakeTrade(o.product, o.orderId, BookOfTurn(count),
            o.visibleQuantity + o.hiddenQuantity, SideBooked(o.side))

\* TradeBookingListenerFromExecution::ProcessAdd.
BookExecution ==
  /\ pc = "book"
  /\ tradeCount' = tradeCount + 1
  /\ BookTrade(order.product, TradeOf(order, tradeCount'))
  /\ UNCHANGED <<phase, order, executionOrders, positions, risk>>
  /\ UNCHANGED <<files, deaths, executed, mark, algoLines>>

Signed(t) == IF t.side = "BUY" THEN t.quantity ELSE - t.quantity

\* Mutant: a second trade in the same book replaces the first.
PositionReplaced(t) ==
  Put(Lookup(positions, t.product, EmptyMap), t.book, Signed(t))

\* The position of the trade's product with the trade added to its book.
PositionWith(t) ==
  LET position == Lookup(positions, t.product, EmptyMap)
  IN  Put(position, t.book, Lookup(position, t.book, 0) + Signed(t))

\* PositionService::AddTrade and OnMessage.
AddTrade ==
  /\ pc = "addTrade"
  /\ positions' = Put(positions, trade.product, PositionWith(trade))
  /\ pc' = "addPosition"
  /\ UNCHANGED <<phase, order, trade, executionOrders, tradeCount, trades, risk>>
  /\ UNCHANGED <<files, deaths, history>>

\* Position::GetAggregatePosition.
Aggregate(position) == FoldFunction(LAMBDA q, sum : q + sum, 0, position)

\* GetPV01Value: "listed" stands for the product's value in the table.
GetPV01Value(product) == IF product \in pv01Values THEN "listed" ELSE "zero"

\* Mutant: risk is computed on the trade instead of on the position.
RiskOfTrade(product) ==
  [pv01 |-> GetPV01Value(product), quantity |-> Signed(trade)]

RiskOf(product) ==
  [pv01 |-> GetPV01Value(product), quantity |-> Aggregate(positions[product])]

\* Mutant: the listener is registered twice.
HistoricalProcessAddTwice(file, line) == Append(Append(file, line), line)

\* HistoricalDataListener::ProcessAdd appends a line, ProcessUpdate is empty.
HistoricalProcessAdd(file, line) == Append(file, line)
HistoricalProcessUpdate(file, line) == file

\* RiskService::AddPosition and OnMessage, up to its listener.
AddPosition ==
  /\ pc = "addPosition"
  /\ risk' = Put(risk, trade.product, RiskOf(trade.product))
  /\ pc' = "persistRisk"
  /\ UNCHANGED <<phase, order, trade, executionOrders, tradeCount, trades, positions>>
  /\ UNCHANGED <<files, deaths, history>>

\* The historical risk service, which is told of an update.
PersistRisk ==
  /\ pc = "persistRisk"
  /\ riskFile' = HistoricalProcessUpdate(riskFile, risk[trade.product])
  /\ pc' = "persistPosition"
  /\ UNCHANGED <<phase, order, trade, memory>>
  /\ UNCHANGED <<positionsFile, executionsFile, deaths, history>>

\* Mutant: the line shows the trade's book only.
LineOfTrade ==
  [product |-> trade.product,
   position |-> [b \in {trade.book} |-> positions[trade.product][b]]]

PositionLine == [product |-> trade.product, position |-> positions[trade.product]]

\* Mutant: the execution's last listener is never called.
PersistPositionOnly ==
  /\ pc = "persistPosition"
  /\ positionsFile' = HistoricalProcessAdd(positionsFile, PositionLine)
  /\ trade' = None /\ order' = None
  /\ pc' = "idle"
  /\ algoLines' = algoLines + (IF order = None THEN 0 ELSE 1)
  /\ UNCHANGED <<phase, memory, executionsFile, riskFile, deaths>>
  /\ UNCHANGED <<executed, booked, mark>>

\* The historical position service; for a line of trades.txt all is done.
PersistPosition ==
  /\ pc = "persistPosition"
  /\ positionsFile' = HistoricalProcessAdd(positionsFile, PositionLine)
  /\ trade' = None
  /\ IF order = None
     THEN pc' = "idle" /\ UNCHANGED algoLines
     ELSE pc' = "persistExecution" /\ algoLines' = algoLines + 1
  /\ UNCHANGED <<phase, order, memory, executionsFile, riskFile, deaths>>
  /\ UNCHANGED <<executed, booked, mark>>

\* The historical execution service, last of the execution's listeners.
PersistExecution ==
  /\ pc = "persistExecution"
  /\ executionsFile' = HistoricalProcessAdd(executionsFile, order)
  /\ order' = None
  /\ pc' = "idle"
  /\ UNCHANGED <<phase, trade, memory, positionsFile, riskFile, deaths, history>>

-----------------------------------------------------------------------------
Dies ==
  /\ deaths < MaxDeaths
  /\ deaths' = deaths + 1
  /\ pc' = "dead"
  /\ UNCHANGED <<phase, order, trade, memory, files, history>>

\* GetBond, ConvertPrice or stol throws on a line, before anything is stored.
BadLine == pc = "idle" /\ phase # "ended" /\ Dies

\* The process is killed between two handlers.
Crash == pc \notin {"idle", "dead"} /\ Dies

\* The program is run again: its memory is new, its files are appended to.
Restart ==
  /\ pc = "dead" \/ (pc = "idle" /\ phase = "ended" /\ LinesLeft)
  /\ phase' = "trades" /\ pc' = "idle" /\ order' = None /\ trade' = None
  /\ executionOrders' = EmptyMap /\ tradeCount' = 0 /\ trades' = EmptyMap
  /\ positions' = EmptyMap /\ risk' = EmptyMap
  /\ executed' = <<>> /\ booked' = <<>>
  /\ mark' = [positions |-> Len(positionsFile), executions |-> Len(executionsFile)]
  /\ UNCHANGED <<files, deaths, algoLines>>

Stopped ==
  /\ pc = "idle" /\ phase = "ended"
  /\ UNCHANGED bookingVars

Handler ==
  \/ BookExecution \/ AddTrade \/ AddPosition
  \/ PersistRisk \/ PersistPosition \/ PersistExecution

FileTrade(product) ==
  {MakeTrade(product, id, b, q, s) :
     id \in FileIds, b \in FileBooks, q \in Quantities, s \in {"BUY", "SELL"}}

\* Every step but the arrival of an order.
OtherStep ==
  \/ \E product \in Products : \E t \in FileTrade(product) : ReadTrade(product, t)
  \/ Handler
  \/ NextPhase
  \/ BadLine
  \/ Crash
  \/ Restart
  \/ Stopped

BookingNext == OtherStep \/ \E o \in ExecutionOrder : ExecuteOrder(o)

\* A handler that was called runs on: the program has one thread and never
\* waits.
BookingSpec == BookingInit /\ [][BookingNext]_bookingVars /\ WF_bookingVars(Handler)

-----------------------------------------------------------------------------
\* Types, and what a handler finds when it is called: main changes phase only
\* when no call is under way, and an order is in flight only where it is used.
BookingTypeOK ==
  /\ phase \in {"trades", "marketdata", "ended"}
  /\ pc \in {"idle", "book", "addTrade", "addPosition", "persistRisk",
             "persistPosition", "persistExecution", "dead"}
  /\ order \in ExecutionOrder \cup {None} /\ trade \in Trade \cup {None}
  /\ pc \in {"book", "persistExecution"} => order \in ExecutionOrder
  /\ pc \in {"addTrade", "addPosition", "persistRisk", "persistPosition"} => trade \in Trade
  /\ phase = "trades" => order = None
  /\ phase = "ended" => pc = "idle"
  /\ IsMap(executionOrders, Products, ExecutionOrder)
  /\ tradeCount \in Nat
  /\ IsMap(trades, AllIds, Trade)
  /\ DOMAIN positions \subseteq Products \cup {NoProduct}
  /\ \A p \in DOMAIN positions : IsMap(positions[p], AllBooks, Int)
  /\ DOMAIN risk \subseteq DOMAIN positions
  /\ executionsFile \in Seq(ExecutionOrder)
  /\ deaths \in Nat /\ algoLines \in Nat

\* What the first n trades of a run bought less what they sold, per book.
Net(n, product) ==
  LET mine == {i \in 1 .. n : booked[i].trade.product = product}
      Total(book, side) ==
        FoldFunctionOnSet(+, 0, [i \in 1 .. n |-> booked[i].trade.quantity],
          {i \in mine : booked[i].trade.book = book /\ booked[i].trade.side = side})
  IN  [book \in {booked[i].trade.book : i \in mine} |->
         Total(book, "BUY") - Total(book, "SELL")]

Alive == pc # "dead"

(***************************************************************************)
(* The position service agrees with the whole history of trades, book by   *)
(* book, whichever service the trades came from and even when two of them  *)
(* share an identifier and one overwrote the other in the booking          *)
(* service's own map.                                                      *)
(***************************************************************************)
PositionsAreNetTrades ==
  (Alive /\ pc # "addTrade") =>
    /\ DOMAIN positions = {booked[i].trade.product : i \in DOMAIN booked}
    /\ \A p \in DOMAIN positions : positions[p] = Net(Len(booked), p)

(***************************************************************************)
(* Risk is never computed on a position that has moved since: except while *)
(* the new position is being handed to it, the risk service's quantity is  *)
(* the aggregate of the position service's books.                          *)
(***************************************************************************)
RiskIsCurrent ==
  (Alive /\ pc # "addPosition") =>
    /\ DOMAIN risk = DOMAIN positions
    /\ \A p \in DOMAIN risk : risk[p].quantity = Aggregate(positions[p])

(***************************************************************************)
(* Read in order, the lines this run added to positions.txt are the        *)
(* running position after each of its trades: none is missing, repeated,   *)
(* out of order or written before the trade was added.                     *)
(***************************************************************************)
PositionsFileIsRunningNet ==
  LET written == Len(positionsFile) - mark.positions
  IN  /\ written = Len(booked) \/ (pc # "idle" /\ written = Len(booked) - 1)
      /\ \A i \in 1 .. written :
           LET p == booked[i].trade.product
           IN  positionsFile[mark.positions + i] =
                 [product |-> p, position |-> Net(i, p)]

(***************************************************************************)
(* The i-th execution of this run is the i-th line it added to             *)
(* executions.txt, and it was booked as one trade: under its identifier,   *)
(* for its whole quantity, on the opposite side, in the book whose turn it *)
(* was, starting from TRSY2.                                               *)
(***************************************************************************)
ExecutionsFileMatchesTrades ==
  \A i \in 1 .. Len(executionsFile) - mark.executions :
    LET o == executionsFile[mark.executions + i]
        b == booked[Len(booked) - tradeCount + i]
    IN  /\ o = executed[i]
        /\ b.asked = o.product
        /\ b.trade.tradeId = o.orderId
        /\ b.trade.quantity = o.visibleQuantity + o.hiddenQuantity
        /\ b.trade.side = "BUY" <=> o.side = "OFFER"
        /\ b.trade.book = <<"TRSY2", "TRSY3", "TRSY1">>[((i - 1) % 3) + 1]

(***************************************************************************)
(* Over all runs and however they ended, every execution on file has its   *)
(* position line on file, and the executions whose position line is on     *)
(* file without them are at most one per abnormal end.                     *)
(***************************************************************************)
JournalsAgree ==
  LET missing == algoLines - Len(executionsFile)
  IN  0 <= missing /\ missing <= deaths + (IF pc = "persistExecution" THEN 1 ELSE 0)

(***************************************************************************)
(* Every order executed ends as a line of executions.txt, unless the       *)
(* process dies first.                                                     *)
(***************************************************************************)
ExecutionReachesFile ==
  \A n \in 1 .. MaxLines :
    (Alive /\ Len(executed) = n)
      ~> (~ Alive \/ Len(executionsFile) - mark.executions >= n)

(***************************************************************************)
(* The calls still to be made at each pc are those the listeners main      *)
(* registered would make.  Whichever service a trade came from, its        *)
(* position and risk are dealt with before the execution's own line, and   *)
(* the risk listener is told of an update.                                 *)
(***************************************************************************)
Add(listener) == [to |-> listener, event |-> "add"]

CallsPending ==
  LET execution == IF order = None THEN <<>> ELSE <<Add("historicalExecution")>>
      After(calls) == calls \o execution
      position == Add("historicalPosition")
  IN  CASE pc = "book"             -> After(<<Add("tradeBooking")>>)
        [] pc = "addTrade"         -> After(<<Add("position")>>)
        [] pc = "addPosition"      -> After(<<Add("risk"), position>>)
        [] pc = "persistRisk"      ->
             After(<<[to |-> "historicalRisk", event |-> "update"], position>>)
        [] pc = "persistPosition"  -> After(<<position>>)
        [] pc = "persistExecution" -> execution
        [] OTHER                   -> <<>>

Wires ==
  INSTANCE Wiring WITH Sources <- {"tradeBooking", "execution"},
                       alive <- (pc # "dead"), pending <- CallsPending
BookingImplementsWiring == Wires!WiringSpec

(***************************************************************************)
(* "Position Service to manage positions across multiple books and         *)
(* secruties.  Keyed on product identifier." (positionservice.hpp:82-83):  *)
(* a product that was traded has a position of its own.                    *)
(***************************************************************************)
PositionKeyedOnProduct ==
  pc = "idle" => {booked[i].asked : i \in DOMAIN booked} \subseteq DOMAIN positions

(***************************************************************************)
(* main.cpp:64 registers the historical risk service with the risk         *)
(* service, and README.md:128 lists RISK among the data it persists: when  *)
(* a position is on file, so is the risk computed from it.                 *)
(***************************************************************************)
RiskPersisted ==
  (pc = "idle" /\ deaths = 0) => Len(riskFile) = Len(positionsFile)

=============================================================================
