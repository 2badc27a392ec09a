# Bond trading system: TLA+ models, checks and proofs

This directory models the C++ program under `src/tradingsystem/`: a bond
trading back end made of twelve services that read four files and append to
six. It says what each service does to its own state and to the files, checks
that on small instances with TLC, and proves the most important facts for all
values of the constants with TLAPS. Source references are
`file:line` under `src/tradingsystem/`.

## The system

The program has **one thread**. `main.cpp` builds the services, registers
listeners (53-65), then runs four `Subscribe` loops one after the other:
prices, trades, market data, inquiries (68-91). Every line a loop reads is
handled to the end before the next: services call their listeners
synchronously and in registration order, so a "message" is a nested call.
Nothing catches an exception, so a bad cell or an unknown CUSIP ends the
process. The output files are opened for append and outlive it. There are no
tests in the repository.

```
prices.txt     -> pricing -> algo streaming -> streaming -> [streaming.txt]
                     \-----> GUI -> [gui.txt]
trades.txt     -> trade booking -> position -> risk -> (risk.txt, never written)
                       ^               \----> [positions.txt]
marketdata.txt -> market data -> algo execution -> execution
                       (trade booking is called by execution, then [executions.txt])
inquiries.txt  -> inquiry <-> its connector ; inquiry -> [allinquiries.txt]
```

| Component | State | Operations | What makes it correct |
|---|---|---|---|
| market data (`marketdataservice.hpp`) | a book per product; two stacks and a line count local to `Subscribe` | `Subscribe`, `OnMessage`, `GetBidOffer` | a book is the feed up to the window that closed it; best quotes have price-time priority |
| algo execution (`algoexecutionservice.hpp`) | last execution per product; `count` | `AlgoExecuteOrder` | executions are on the book now stored; sides alternate |
| execution (`executionservice.hpp`) | last order per product | `OnMessage`, `ExecuteOrder` | every order ends in the booking chain and on file |
| trade booking (`tradebookingservice.hpp`) | trades by identifier; `count` | `Subscribe`, `OnMessage`, listener `ProcessAdd` | side, quantity and book of a trade follow from the order and its turn |
| position (`positionservice.hpp`) | product -> book -> quantity | `AddTrade`, `OnMessage` | positions are the net of all trades |
| risk (`riskservice.hpp`) | PV01 and quantity per product | `AddPosition`, `OnMessage` | quantity is that of the current position |
| historical data (`historicaldataservice.hpp`) | files | `PersistData`, `Publish`, `ProcessAdd`, `ProcessUpdate` | one line per event, in order, across runs |
| GUI (`guiservice.hpp`) | last price per product; `millisec` | `OnMessage`, `Publish` | lines at least `throttle` apart; no drift from the clock |
| inquiry (`inquiryservice.hpp`) | inquiries by identifier | `Subscribe`, `OnMessage`, `SendQuote`, connector `Publish` | one quote and two DONE lines each; ends DONE |
| pricing, algo streaming, streaming | last price or stream per product; `count` | `Subscribe`, `OnMessage`, `AlgoPublishPrice`, `PublishPrice` | what is streamed is what was read, in every run anew |
| utilities (`functions.hpp`) | clock | `GetBond`, `GetPV01Value`, `ConvertPrice`, `GetMillisecond`, `GenerateId` | a price text survives the way to a number and back; two identifiers are equal only if the readings they were made from are |
| service framework (`soa.hpp`) | a vector of listeners per service | `AddListener`, `ProcessAdd`, `ProcessUpdate` | each listener is called once per event, in registration order, before the caller goes on |
| main program (`main.cpp`) | the services; which loop runs | the wiring, four `Subscribe` loops | whatever dies where, the files are in program order and only the last line is lost |

Hard behaviours: state that should be local to a window or a call and is not;
copies against references when services call each other; counters in different
services that must stay in step; a process that dies between two handlers and
is run again over files it appends to; a clock that wraps. The full list, with
lines and the properties aimed at each, is `hazards` in `PROJECT.json`.
Of three no property is about: an execution on the indeterminate best order of a
book whose side is still empty, a fraction of two digits, and a line with too few
cells. The first and the last are undefined behaviour, and of none does the
repository say what should happen.

## Modules

| Module | Models | Notes |
|---|---|---|
| `Wiring` | `soa.hpp` as wired by `main.cpp:53-65` | who calls whom with which callback, as the sequence of calls still to be made; one action per callback, data left out |
| `TradingSystem` | `main.cpp` and the six files | extends `Wiring` with the four loops, deaths anywhere, reruns; a file line is the stamp (run, phase, input line) of its cause |
| `Maps` | `std::map` | a function on the keys present |
| `MarketData`, `MCMarketData` | market data | one action per iteration of `Subscribe`; `AlignedSpec` is the same program on feeds whose windows are about one product |
| `AlgoOrders` | abstract | what algo execution promises the services behind it: one order at a time, alternating sides, nothing hidden |
| `AlgoExecution`, `MCAlgoExecution` | algo execution with market data | the step that publishes a book decides on an order, as the call is synchronous |
| `Booking` | execution, trade booking, position, risk, historical position, risk and execution | one action per handler up to its next call; implements `Wiring` |
| `ExecutionFlow` | `Booking` behind `AlgoOrders` | orders are sent only as `AlgoOrders` allows |
| `Ids` | `GenerateId`, its generator and its clock | 32-bit arithmetic as in the code, with the quotient by a double written in integers |
| `TimedFlow`, `MCTimedFlow` | `ExecutionFlow` with `Ids` and a clock | identifiers are made, not chosen, so that they repeat when the program makes them repeat |
| `Prices` | `ConvertPrice`, both ways | texts `99-16+` and numbers in units of 1/512 |
| `Streaming`, `MCStreaming` | pricing, algo streaming, streaming, historical streaming, GUI map | one action per handler; files hold texts, services hold numbers; implements `Wiring` |
| `Gui` | the GUI throttle | one action per price update; time explicit |
| `Inquiry` | inquiry, its connector, historical inquiry | one action per call up to the next or to its line of the file; implements `Wiring` |
| `*_proofs` | theorems | see below |

How they compose: `AlgoExecution` extends `MarketData` and implements
`AlgoOrders`; `ExecutionFlow` puts `AlgoOrders` in front of `Booking`, and
`TimedFlow` gives it a clock; `Booking`, `Streaming` and `Inquiry`, each with
its own data, implement `Wiring`; `TradingSystem` is built on `Wiring`, with
the whole program in it and no data but the line each call is about. So the
order of calls that `TradingSystem` relies on is the one the detailed modules
of these chains are shown to follow. (Market data and algo execution are in
`Wiring` too, from the same lines of the code, without a refinement:
`AlgoExecution` takes their three nested calls in one step.)

**State.** A variable keeps the name of the C++ member where there is one
(`PidOrderBooksMap`, `algoExecutions`, `millisec`, `inquiries`); two members
called `count` are `algoCount` and `tradeCount`. Files are sequences of lines;
what is `_data` in the C++ is `order`, `trade`, `price`, `stream` or `data`.
Variables marked *history* in a module (`feed`, `executed`, `booked`,
`received`, `mark`, `past`, `algoLines`, `times`, `died`) are not state of the program: no guard
reads them and properties compare the state with them. (`AlignedSpec` is the
one exception: there `feed` restricts the input.) `progress` in
`TradingSystem` is kept for every run; of a run that is over it is history.

**Steps.** `MarketData`, `AlgoExecution` and `Gui` keep nothing that outlives
the process, so the whole handler is one action. `Booking`, `Inquiry` and
`Streaming` write files, so they are cut where the process may die between two
effects: `pc` names the call about to be made. `Wiring` and `TradingSystem` are
cut at every callback, and `pending` is the rest of the C++ call stack, flat:
the calls to be made if nothing else happens, next first. Within one action a file line
and an assignment to memory cannot be told apart by a crash, because memory is
lost with the process. A line is written as a whole (`endl` flushes it).

**Deaths and reruns.** `Crash` ends the process between two handlers,
`BadLine`, `MalformedLine` and `UnknownCusip` are the exceptions nobody
catches, `Restart` runs the program again with new memory and the old files.
`TradingSystem` has `Dies` for all of them and `Rerun`; of the throttle it says
only that a price may or may not get a line in `gui.txt`.

The program keeps no note of how far it came: it reads its input files from
their first line each time, and appends. In `Streaming` this is modelled with
`prices.txt` itself: a file chosen in the initial state, which no step changes,
read by every run from its first line (`fed` is what the run has read, and so
its place in the file). A line that cannot be read stops every run at the same
place. It follows that the output repeats: after two runs that were not
interrupted each price is in `streaming.txt` twice, and after a run that died
half-way the lines it had written are written again by the next.
`EachRunStreamsPricesAgain` says exactly that, and that nothing else is there.
`Booking` and `Inquiry` take the lines of a run from sets of possible lines,
whatever an earlier run was given, and their properties are about the lines of
one run or count lines of all.

**Data.** Prices in `MarketData` are integers (multiples of 1/256). In `Prices`
and `Streaming` a price on file is a text of a whole, two digits and a third
character, and a number is in units of 1/512, in which the mid of two written
prices is whole; all of them are exact in a double. `TextOf` cuts off to 1/256
as `ConvertPrice` does, so half a tick is lost on the GUI. The 1/128 spread of
`AlgoExecution` is `Spread = 2`. An `Order` nobody assigned reads as any member
of `Indeterminate`. Quantities fit a `long` with room to spare, so they are not
given a width; the generator of identifiers is the one place where 32 bits
matter, and `TimedFlow_proofs` shows that it stays within them. An identifier in
`Ids` is the sequence of its characters' positions in the base string. A trade
keeps no price, an order in `Booking` no type: nothing there reads them.
`GetPV01Value` is "listed" or "zero".

**Faithful to the code, not to its comments.** Some things in the models look
like modelling mistakes and are what the code does: `MakeTrade` ignores its
product, `HistoricalProcessUpdate` returns the file unchanged, the stacks of
`MarketData` are never reset, `SendQuote` prices a copy. Five runs marked
*violation* show what each does to a statement of the repository.

## Runs

| Run | Result | What it shows |
|---|---|---|
| `algo_execution` | pass | a stored book is the feed up to the last window closed for its product, and its best quotes have price, then time priority; the stored execution is on the stored book; once tight, always executed; refinement of `AlgoOrders` |
| `booking` | pass | positions are net trades, risk is current, both files are in step with the run, the journals agree across deaths, every execution reaches its file; refinement of `Wiring` |
| `execution_flow` | pass | on a clock: the side counter and the book counter stay in step, identifiers tell readings apart and nothing else, a trade is kept until its reading repeats |
| `gui` | pass | lines at least the throttle apart; drops exact modulo a second |
| `inquiry` | pass | three lines per inquiry, DONE in the map, answers owed across deaths, completion; refinement of `Wiring` |
| `streaming` | pass | streams are the prices read, as texts; four maps agree between lines; the mid shown lies in the market; `streaming.txt` is one block per run, each the whole of `prices.txt` or, of a run that died, a beginning of it; every price read is distributed; refinement of `Wiring` |
| `trading_system` | pass | the six files are in the order of runs, phases and lines; only the last line read before a death is lost; executions on file have their positions; a run that does not die ends |
| `market_data_keyed` | violation | a product's book holds other products' orders (`marketdataservice.hpp:126` against 229) |
| `position_keyed` | violation | a traded product has no position (`positionservice.hpp:82-83` against `tradebookingservice.hpp:32-38`) |
| `risk_persisted` | violation | `risk.txt` stays empty (`main.cpp:64` against `riskservice.hpp:107`) |
| `gui_updates_shown` | violation | an update one second after the last line is dropped (`src/README.md:53` against `guiservice.hpp:124`) |
| `inquiry_quote` | violation | the quote of 100 never reaches the connector (`inquiryservice.hpp:105` against 108) |

The outputs kept in `src/tradingsystem/cmake-build-debug/` agree with three of
these: every line of `positions.txt` there is for the empty identifier, there
is no `risk.txt`, and each inquiry of `allinquiries.txt` has a RECEIVED line at
100-000 followed by two DONE lines at its own price. Its `streaming.txt` shows
the reruns: 36755 lines are six runs over the 6126 lines of `data/prices.txt`,
each starting again with a size of 10000000; five are the whole file, and the
first lacks the first line, which this version of `Subscribe` would not skip.
The outputs in `results/` are not of this version: there is a `risk.txt` of
1284 lines, which the present code cannot write, and an `allinquiries.txt` of
60 lines, each DONE. Only the identifiers of its `executions.txt` are cited
below.

**Bounds.** `MaxLines` bounds input, `MaxDeaths` abnormal ends, `MaxRuns` the
runs of the program, `MaxTime` the
clock.

- `algo_execution`: `bookDepth = 1` gives windows of two lines. Two windows
  are enough for a book to be extended, replaced by another product's and left
  behind; the third, on feeds about one product, gives an execution the turn of
  the other side (`FeedBound` in `MCAlgoExecution` says which feeds get how
  far). Prices 1 and 4 with spread 2 make quotes that cross and quotes that do
  not, two quantities make ties distinguishable, and one CUSIP is unknown.
  Products are symmetric, because no definition tells them apart.
- `booking`: three trades allow two sources, two books and a repeated
  identifier; one death anywhere and a rerun, or a rerun after a normal end.
  One product is enough because the constructor of `Trade` merges products.
- `execution_flow`: five executions go round the three books and start again.
  The program starts at 999 ms, and delays of 0, 1 and 1000 ms give the same
  reading at once, a whole second later, and a reading of exactly zero, which
  is not used as a seed. Two seconds that agree to the millisecond and two zero
  readings in different seconds are both in reach. (`results/executions.txt`
  has 612 lines and 467 different identifiers; 611 of the lines have the
  identifier that `GenerateId` makes of a millisecond from 1 to 999.)
- `streaming`: 99-31+ and 99-317 are three ticks apart, so the mid of the one
  and the other is half a tick, and they differ in the character that is
  special; both orders of the two give spreads of either sign. `prices.txt` is
  any file of up to three lines, with an unreadable one at any place; as the
  services do not tell products apart, its first line is about a given one.
  Three lines let the sizes alternate and go back, and an odd number of them
  shows a counter that is not reset. Three runs are two that are over, in every
  way each, and one behind them that can disturb what they wrote.
- `trading_system`: five lines over two runs reach every phase in the first run
  and leave lines for the second, or die in any stage of any call; a bound of
  two runs leaves one death with a rerun behind it and one without.
- `gui`: 2.6 seconds is two wraps of the clock; delays sit on both sides of the
  throttle (299, 300), of a second less the throttle (701), and on a second.
- `inquiry`: four inquiries and two deaths; two identifiers so that one can
  come back after another.

`CHECK_DEADLOCK` is on everywhere: where the program may stop, the model has an
action that says so (`Stopped`, `SkipLine`, `NoMoreUpdates`).

**Fairness.** `Booking`, `ExecutionFlow`, `Inquiry` and `Streaming` assume weak
fairness of `Handler`, the disjunction of the calls that have been made: the
thread is running, takes no lock and waits for nothing. `TradingSystem` assumes
it of `Program`, the loops and the handlers together: the input files are of
finite length, and a loop reads on until the end of its own. `TimedFlow` states
safety only and assumes none. No fairness is assumed for deaths or reruns, nor,
outside `TradingSystem`, for input, and each liveness property allows the
process to die.

## Proofs

Each holds for every value of the constants that satisfies the named
assumptions of the modules.

- `AlgoExecution_proofs`. `AlgoTypeCorrect`, `ExecutionNeverStale`,
  `TightnessLatches`, `AlgoExecutionImplementsAlgoOrders`. The invariant adds
  what the properties rest on: every stored book is a prefix, side by side, of
  the stacks as they are now; the counters count lines and orders; a line read
  is in the stack of its side, so that once the first window was two-sided no
  book has an empty side; a product with an execution has a book, and that book
  is tight. That books are prefixes of stacks that only grow is why tightness latches: the two quotes
  that crossed are still in every later book, and best quotes are at least as
  good. For the refinement, a step that publishes and crosses is a
  `SendOrder`, every other step a stutter. `BestAlwaysHasPriority`: the loops
  of `GetBidOffer`, for a book of any size, end on a price no other order beats
  and that no earlier order has, by induction over the scan. `BookAlwaysIsFeed`:
  the stacks are the two sides of the whole feed, so a book published is the
  feed up to there; that the book stored for a product stays what it is when
  the feed grows needs that selecting a side of the first n lines looks at no
  line behind them.
- `Booking_proofs`. `BookingTypeCorrect`, `JournalsAlwaysAgree`,
  `RiskAlwaysCurrent`, `ExecutionsFileAlwaysMatches`, `BookingFollowsWiring`.
  The type invariant carries the control facts a handler needs
  (`pc = "addTrade"` has a trade, no order is in flight in the trades phase).
  The journal invariant counts: lines owed are at most the deaths plus the one
  in flight. That risk is current between lines rests on what it is while a
  trade is on its way: the position is ahead of the risk from `AddTrade` to
  `AddPosition` and for the traded product only. For the file, the order and
  the trade in flight are those the history ends with, and the book of the i-th
  algo trade is a function of i. `PositionsAlwaysNetTrades` is about sums: the
  position of the traded product is one trade behind between `BookTrade` and
  `AddTrade` and nowhere else, and a sum over the trades of a book grows by the
  trade that is added. `PositionsFileAlwaysRunningNet` carries this to the file:
  line n of a run is the net of its first n trades, and later trades do not
  change that net. The refinement of `Wiring` maps each handler
  to one callback; the calls owed at each `pc` are `CallsPending`.
- `Gui_proofs`. `GuiTypeCorrect`, `ThrottleAlwaysHolds`,
  `DropsAreModuloSecond`. The service does not know the time; the invariant is
  that `millisec` is the time of the last line less a whole number of seconds.
  The distance of two readings is then the true distance modulo a second, hence
  never more than it, for any throttle.
- `TimedFlow_proofs`, about `ExecutionFlow`, `Ids` and the two together.
  - `FlowImplementsBooking`: every step of the composed system is a step of
    `Booking`, so its theorems apply. `BooksAlwaysAlternate` needs two facts
    that are not part of it: the orders executed are `tradeCount` and the one
    in flight, if any, so that the turn of an order and the turn of its trade
    are the same number; and the book and the side of the i-th algo trade are
    functions of i alone.
  - `GeneratorIsExact`: for seeds from 0 to `m - 1`, Schrage's form of the
    generator is `a * seed % m`, within 32 bits. `IndexIsCutOff`: the integer
    form of `seed / (double)m * 36` is its integer part and a position of the
    base string. `IdsAreTwelveCharacters`: so every call makes twelve of them.
  - `IdsTellSeeds`: two seeds never make the same identifier. Suppose nine
    draws in a row select the same characters. Each seed is then within `c`
    (a thirty-sixth of `m`) of the other run's, and each difference of seeds is
    `a` times the one before, modulo `m`. `NineSmallDifferences` has nine
    combinations, with coefficients of at most 12, of the nine differences
    that are multiples of `m` for that reason and smaller than `m` because the
    differences are small: so they are zero, and nine independent equations
    make the differences zero. (The coefficients are short vectors of the
    lattice of the multiplier; any other nine that the prover accepts do.)
  - `TimedFlowImplementsFlow`, `BooksAlternateUnderTheClock`: what was proved
    of `ExecutionFlow` holds when identifiers are made by the clock and repeat.
    `ReadingsAlwaysDecideIds`, `IdsAlwaysTellReadings`,
    `TradesKeptWhileIdsTellReadings` and `TradesAlwaysKeptUntilReadingRepeats`
    are the two properties of the run `execution_flow` for all times. The
    invariant has the time of each order (`TimesInv`) and, of `Booking` alone,
    that the trade found under an identifier is the one booked for the last
    execution that had it (`TradesKept`).
  - Two assumptions. `ClockIds \subseteq Ids`: the constant `Ids`, from which
    `Booking` takes identifiers, has all those `GenerateId` makes;
    `TwelveCharactersAreEnough` says which set is sure to. And
    `1000 <= Epoch`, `Second(now) < m` in the last two: the clock is between a
    quarter of an hour after its zero in 1970 and January 2038. Outside of
    that a whole second may be, modulo `m`, the seed of a millisecond or of
    another second, and the properties can be false.
- `Streaming_proofs`. `TextIsNumberToATick` and `TextSurvives` are about
  `Prices` alone. `StreamingTypeCorrect`, `StreamFileAlwaysFollowsFeed`,
  `ServicesAlwaysAgree`, `MidAlwaysShownInMarket`,
  `EachRunAlwaysStreamsPricesAgain`, `StreamingFollowsWiring` are about the chain, for any prices and products.
  The invariant has five parts: the price and stream in flight are those of the
  last line read (`FlightInv`); the file has a line for every line read but the
  one on its way (`FileInv`); two services next to each other agree unless the
  call between them is due (`AgreeInv`); each map holds the last price read for
  a product (`LastInv`); and each run that is over wrote a beginning of the
  lines due for `prices.txt`, ahead of where this run began (`PastInv`): when a
  run ends, `FileInv` makes it the last of these, and what is written later is
  behind them. The mid shown is in the market because cutting off to a tick is
  monotone and the bid is a whole number of ticks.
- `Inquiry_proofs`. `InquiryTypeCorrect`, `FileAlwaysTellsEachInquiry`,
  `StoredAlwaysLatest`, `QuotesAlwaysAnswered`, `InquiryFollowsWiring`. The
  inquiry in flight is the last one received, at the state its `pc` implies
  (`FlightInv`); the lines of this run are three to an inquiry less those still
  to come (`FileInv`); every other identifier has its last inquiry, done
  (`MapInv`). `QuotesAreAnswered` counts
  lines of both kinds over all runs; its invariant says which answers are still
  owed by the calls in flight, and that a death forfeits at most those
  (`AnswersInv`). The refinement needs that the connector is never called with
  an inquiry that is not RECEIVED, where it would make no call.
- `TradingSystem_proofs`. `SystemTypeCorrect`, `OnlyLastLineEverLost`,
  `ExecutionsAlwaysHavePositions`, `FilesAlwaysInProgramOrder`, for any number
  of lines, runs and deaths. Everything rests on `StageInv`: the calls pending
  are always those of one of sixteen stages of a line, given with what waits
  behind each (`At`), and a handler takes a stage to a next one
  (`HandlerMoves`). On top of it, nothing is on file that was not read
  (`StampsRead`), and a file that is still ahead of a stage has nothing of the
  line in flight, one that is behind it has its line (`InFlightInv`). Then a
  line appended is never before a line on file, and the last handler of a line
  leaves it on file.
- `Induction_proofs`: what the proofs above use of induction. The library's
  induction theorems take the property as an operator, which the provers cannot
  instantiate; here it is the set of the numbers (`NatSetInduction`), or of the
  subsets of a finite set (`SubsetInduction`), that have it. From these follow
  that a recursive function over `0 .. n` exists and is unique (`StepsExist`,
  `StepsAgree`), that a scan that replaces its best only by a better one ends on
  the first of the largest (`FirstOfLargest`), and that a sum over a finite set,
  which takes elements in an order `CHOOSE` picks, does not depend on it
  (`SumOfOneMore`, `SumSame`).

Together: 45 theorems in seven modules, of which 36 state a property of a run:
every invariant, every action property and every refinement that a passing run
checks (the two about identifiers up to 2038).

Only model-checked: the liveness properties (`ExecutionReachesFile`,
`InquiryCompletes`, `PriceIsDistributed`, `RunEnds`), as the prover has no
rules for fairness. The four refinements are of safety.

## Not modelled

- `products.hpp` (value classes with getters and comparisons; `IRSwap` is
  unused) and the build files, among them the compiler's own test programs under
  `cmake-build-debug/`.
- `AggregateDepth`, `GetBucketedRisk` (neither would compile if instantiated),
  `InquiryListener` (never instantiated), `RejectInquiry`, `OnMessage` of the
  algo services and the second `GetPV01Value` (never called), `ProcessRemove`
  (called nowhere).
- A line of `trades.txt` or `prices.txt` with too few cells, which indexes past
  the end of a vector: of what that may do, only the end of the process is a
  step of the models.
- Console output, the connectors that only print, the logger, time stamps.

This leaves three components `partly` in `PROJECT.json` (trade booking,
inquiry, conversions), for the operations above and no others, and one
`not_modelled` (products).

## What is left

The plan this project followed is done: each component, the chains between
them, the clock, the prices and the whole program with its files. What a later
hand could add is market data and algo execution as a refinement of `Wiring`,
with `PublishBook` of `AlgoExecution` cut at its two calls.
