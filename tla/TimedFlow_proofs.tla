-------------------------- MODULE TimedFlow_proofs ---------------------------
(***************************************************************************)
(* Theorems about ExecutionFlow, Ids and the two together.                 *)
(***************************************************************************)
EXTENDS TimedFlow, Booking_proofs

-----------------------------------------------------------------------------
\* Which orders arrive is all that ExecutionFlow restricts.
LEMMA FlowStepIsBookingStep == [FlowNext]_bookingVars => [BookingNext]_bookingVars
BY DEF FlowNext, AlgoExecutes, BookingNext

(***************************************************************************)
(* The services behind the algo execution service run as Booking says:     *)
(* what is proved of Booking holds of them.                                *)
(***************************************************************************)
THEOREM FlowImplementsBooking == FlowSpec => BookingSpec
BY FlowStepIsBookingStep, PTL DEF FlowSpec, BookingSpec

-----------------------------------------------------------------------------
(***************************************************************************)
(* The counter of the algo execution service is the number of orders sent, *)
(* so the side of an order follows from its place alone; Booking's own     *)
(* invariant says the same of the book of its trade.                       *)
(***************************************************************************)
SidesInTurn == \A i \in 1 .. Len(executed) : executed[i].side = Algo!SideOfTurn(i - 1)

LEMMA OtherStepsExecuteNothing ==
  ASSUME OtherStep, ~ Restart
  PROVE  UNCHANGED executed
BY DEF OtherStep, Handler, ReadTrade, BookExecution, AddTrade, AddPosition, PersistRisk,
   PersistPosition, PersistExecution, NextPhase, BadLine, Crash, Dies, Stopped,
   bookingVars, history

LEMMA SidesInTurnStep ==
  ASSUME HistoryTypeOK, SidesInTurn, [FlowNext]_bookingVars
  PROVE  SidesInTurn'
<1>1. CASE \E o \in ExecutionOrder : AlgoExecutes(o)
  <2>1. PICK o \in ExecutionOrder : Algo!SendOrder(o) /\ ExecuteOrder(o)
    BY <1>1 DEF AlgoExecutes
  <2>2. /\ executed' = Append(executed, o) /\ o.side = Algo!SideOfTurn(Len(executed))
        /\ Len(executed) \in Nat
    BY <2>1 DEF Algo!SendOrder, HistoryTypeOK
  <2>3. /\ Len(executed') = Len(executed) + 1
        /\ \A i \in 1 .. Len(executed) : executed'[i] = executed[i]
        /\ executed'[Len(executed) + 1] = o
    BY <2>1, <2>2, AppendProperties DEF HistoryTypeOK
  <2> SUFFICES ASSUME NEW i \in 1 .. Len(executed) + 1
               PROVE  executed'[i].side = Algo!SideOfTurn(i - 1)
    BY <2>3 DEF SidesInTurn
  <2>4. CASE i = Len(executed) + 1
    BY <2>2, <2>3, <2>4
  <2>5. CASE i \in 1 .. Len(executed)
    BY <2>3, <2>5 DEF SidesInTurn
  <2> QED
    BY <2>2, <2>4, <2>5
<1>2. CASE Restart
  BY <1>2 DEF Restart, SidesInTurn
<1>3. CASE UNCHANGED executed
  BY <1>3 DEF SidesInTurn
<1> QED
  BY <1>1, <1>2, <1>3, OtherStepsExecuteNothing DEF FlowNext, bookingVars, history

LEMMA FlowInvariant == FlowSpec => [](BookingTypeOK /\ BookedInv /\ SidesInTurn)
<1>1. BookingInit => BookedInv /\ SidesInTurn
  BY DEF BookingInit, MemoryInit, BookedInv, HistoryTypeOK, SidesInTurn
<1>2. BookingTypeOK /\ BookedInv /\ SidesInTurn /\ [FlowNext]_bookingVars
        => BookedInv' /\ SidesInTurn'
  <2>1. BookedInv => HistoryTypeOK
    BY DEF BookedInv
  <2> QED
    BY <2>1, FlowStepIsBookingStep, BookedInvStep, SidesInTurnStep
<1> QED
  BY <1>1, <1>2, FlowImplementsBooking, BookingTypeCorrect, PTL DEF FlowSpec

-----------------------------------------------------------------------------
\* Three turns make a round of the books, and no book comes twice in one.
LEMMA BooksRotate ==
  ASSUME NEW i \in Nat
  PROVE  /\ BookOfTurn(i) # BookOfTurn(i + 1)
         /\ BookOfTurn(i) # BookOfTurn(i + 2)
         /\ BookOfTurn(i) = BookOfTurn(i + 3)
<1>1. \A n \in Nat : BookOfTurn(n) = books[(n % 3) + 1]
  BY DEF BookOfTurn, books
<1>2. books[1] = "TRSY1" /\ books[2] = "TRSY2" /\ books[3] = "TRSY3"
  BY DEF books
<1>3. \/ i % 3 = 0 /\ (i + 1) % 3 = 1 /\ (i + 2) % 3 = 2
      \/ i % 3 = 1 /\ (i + 1) % 3 = 2 /\ (i + 2) % 3 = 0
      \/ i % 3 = 2 /\ (i + 1) % 3 = 0 /\ (i + 2) % 3 = 1
  OBVIOUS
<1>4. (i + 3) % 3 = i % 3
  OBVIOUS
<1> QED
  BY <1>1, <1>2, <1>3, <1>4

\* An odd number of turns later the side is the other one.
LEMMA SidesAlternate ==
  ASSUME NEW i \in Nat
  PROVE  SideBooked(Algo!SideOfTurn(i)) # SideBooked(Algo!SideOfTurn(i + 3))
<1>1. i % 2 = 0 <=> (i + 3) % 2 # 0
  OBVIOUS
<1> QED
  BY <1>1 DEF SideBooked, Algo!SideOfTurn

\* The i-th trade of a run is the one due for its i-th execution.
LEMMA AlgoTradeIsBooked ==
  ASSUME BookedInv, NEW i \in 1 .. tradeCount
  PROVE  AlgoTrade(i) = TradeOf(executed[i], i)
<1>1. AlgoEntry(i) = EntryOf(executed[i], i)
  BY DEF BookedInv
<1>2. AlgoTrade(i) = AlgoEntry(i).trade
  BY DEF AlgoTrade, AlgoEntry
<1> QED
  BY <1>1, <1>2 DEF EntryOf

\* Both counters follow from the number of the execution alone.
LEMMA TurnsAlternate ==
  ASSUME BookingTypeOK, BookedInv, SidesInTurn
  PROVE  BooksAlternate
<1> SUFFICES ASSUME NEW i \in 1 .. tradeCount, NEW j \in 1 .. tradeCount
             PROVE  /\ j \in {i + 1, i + 2} => AlgoTrade(i).book # AlgoTrade(j).book
                    /\ j = i + 3 => /\ AlgoTrade(i).book = AlgoTrade(j).book
                                    /\ AlgoTrade(i).side # AlgoTrade(j).side
  BY DEF BooksAlternate
<1>1. /\ tradeCount \in Nat /\ tradeCount <= Len(executed) /\ Len(executed) \in Nat
  BY DEF BookingTypeOK, BookedInv, HistoryTypeOK
<1>2. i \in Nat /\ j \in Nat /\ i - 1 \in Nat /\ (i + 3) - 1 = (i - 1) + 3
  BY <1>1
<1>3. /\ AlgoTrade(i) = TradeOf(executed[i], i)
      /\ AlgoTrade(j) = TradeOf(executed[j], j)
  BY AlgoTradeIsBooked
<1>4. /\ executed[i].side = Algo!SideOfTurn(i - 1)
      /\ executed[j].side = Algo!SideOfTurn(j - 1)
  BY <1>1 DEF SidesInTurn
<1>5. /\ AlgoTrade(i).book = BookOfTurn(i)
      /\ AlgoTrade(j).book = BookOfTurn(j)
      /\ AlgoTrade(i).side = SideBooked(Algo!SideOfTurn(i - 1))
      /\ AlgoTrade(j).side = SideBooked(Algo!SideOfTurn(j - 1))
  BY <1>3, <1>4 DEF TradeOf, MakeTrade
<1> QED
  BY <1>2, <1>5, BooksRotate, SidesAlternate

(***************************************************************************)
(* The sides chosen in one service and the books chosen in another stay in *)
(* step for ever: algo trades take the books in turn, and two trades that  *)
(* follow each other in one book are on opposite sides.                    *)
(***************************************************************************)
THEOREM BooksAlwaysAlternate == FlowSpec => []BooksAlternate
BY FlowInvariant, TurnsAlternate, PTL

-----------------------------------------------------------------------------
(***************************************************************************)
(* The generator multiplies modulo m, and none of its numbers is ever as   *)
(* large as m or as small as -m: it does the same whether long has 32 or   *)
(* 64 bits.                                                                *)
(***************************************************************************)
THEOREM GeneratorIsExact ==
  ASSUME NEW seed \in Int, 0 <= seed, seed < m
  PROVE  LET k == seed \div q
         IN  /\ NextSeed(seed) \in Int /\ 0 <= NextSeed(seed) /\ NextSeed(seed) < m
             /\ \E n \in Int : a * seed = m * n + NextSeed(seed)
             /\ 0 <= a * (seed - k * q) /\ a * (seed - k * q) < m
             /\ 0 <= k * r /\ k * r < m
             /\ 0 <= k * q /\ k * q <= seed
<1> DEFINE k == seed \div q
           x == seed % q
<1>1. q = 54542 /\ r = 1481 /\ m = 39373 * 54542 + 1481 /\ a = 39373
  BY SMT DEF q, r, m, a
<1>2. seed \in Int /\ 0 <= seed /\ seed < 2147483647
  BY SMT DEF m
<1>3. k \in Int /\ x \in Int /\ seed = k * 54542 + x /\ 0 <= x /\ x < 54542
  BY SMT, <1>1, <1>2
<1> HIDE DEF k, x
<1>4. 0 <= k /\ k <= 39373
  BY SMT, <1>2, <1>3
<1>5. seed - k * q = x /\ k * r = 1481 * k
  BY SMT, <1>1, <1>3
<1>6. NextSeed(seed) = LET next == 39373 * x - 1481 * k
                       IN  IF next < 0 THEN next + m ELSE next
  BY SMT, <1>1, <1>5 DEF NextSeed, k
<1>7. a * seed = m * k + (39373 * x - 1481 * k)
  BY SMT, <1>1, <1>3
<1>8. a * seed = m * (k - 1) + (39373 * x - 1481 * k + m)
  BY SMT, <1>1, <1>3
<1>9. /\ NextSeed(seed) \in Int /\ 0 <= NextSeed(seed) /\ NextSeed(seed) < m
      /\ \E n \in Int : a * seed = m * n + NextSeed(seed)
  <2>1. CASE 39373 * x - 1481 * k < 0
    <3>1. NextSeed(seed) = 39373 * x - 1481 * k + m
      BY SMT, <1>6, <2>1
    <3>2. a * seed = m * (k - 1) + NextSeed(seed) /\ k - 1 \in Int
      BY SMT, <1>3, <1>8, <3>1
    <3>3. NextSeed(seed) \in Int /\ 0 <= NextSeed(seed) /\ NextSeed(seed) < m
      BY SMT, <1>1, <1>3, <1>4, <2>1, <3>1
    <3> QED
      BY SMT, <3>2, <3>3
  <2>2. CASE 39373 * x - 1481 * k >= 0
    <3>1. NextSeed(seed) = 39373 * x - 1481 * k
      BY SMT, <1>3, <1>6, <2>2
    <3>2. a * seed = m * k + NextSeed(seed)
      BY SMT, <1>7, <3>1
    <3>3. NextSeed(seed) \in Int /\ 0 <= NextSeed(seed) /\ NextSeed(seed) < m
      BY SMT, <1>1, <1>3, <1>4, <2>2, <3>1
    <3> QED
      BY SMT, <1>3, <3>2, <3>3
  <2> QED
    BY SMT, <1>3, <2>1, <2>2
<1>10. /\ 0 <= a * (seed - k * q) /\ a * (seed - k * q) < m
       /\ 0 <= k * r /\ k * r < m /\ 0 <= k * q /\ k * q <= seed
  BY SMT, <1>1, <1>3, <1>4, <1>5
<1> QED
  BY SMT, <1>9, <1>10 DEF k

(***************************************************************************)
(* The character drawn is the one at 36 times the fraction, cut off: there *)
(* are 36 of them, so no index is past the end of the base string.         *)
(***************************************************************************)
THEOREM IndexIsCutOff ==
  ASSUME NEW seed \in Int, 0 <= seed, seed < m
  PROVE  /\ IndexOf(seed) \in 0 .. 35
         /\ m * IndexOf(seed) <= 36 * seed /\ 36 * seed < m * (IndexOf(seed) + 1)
<1> DEFINE i == seed \div c
           x == seed % c
<1>1. c = 59652323 /\ m = 36 * 59652323 + 19
  BY SMT DEF c, m
<1>2. seed \in Int /\ 0 <= seed /\ seed < 2147483647
  BY SMT DEF m
<1>3. i \in Int /\ x \in Int /\ seed = i * 59652323 + x /\ 0 <= x /\ x < 59652323
  BY SMT, <1>1, <1>2
<1>4. IndexOf(seed) = IF 19 * i <= 36 * x THEN i ELSE i - 1
  BY SMT DEF IndexOf
<1> HIDE DEF i, x
<1>5. 0 <= i /\ i <= 36
  BY SMT, <1>2, <1>3
<1>6. 36 * seed = m * i + (36 * x - 19 * i)
  BY SMT, <1>1, <1>3
<1>7. CASE 19 * i <= 36 * x
  BY SMT, <1>1, <1>2, <1>3, <1>4, <1>5, <1>6, <1>7
<1>8. CASE 19 * i > 36 * x
  BY SMT, <1>1, <1>2, <1>3, <1>4, <1>5, <1>6, <1>8
<1> QED
  BY SMT, <1>3, <1>5, <1>7, <1>8


-----------------------------------------------------------------------------
(***************************************************************************)
(* GenerateId.  A turn of its loops draws a seed from the last one and     *)
(* adds the character the seed selects.                                    *)
(***************************************************************************)
Seeds == {s \in Nat : s < m}

Draw == [seed : Seeds, id : Seq(0 .. 35)]

DrawnAfter(v) ==
  [seed |-> NextSeed(v.seed), id |-> Append(v.id, IndexOf(NextSeed(v.seed)))]

LEMMA DrawType ==
  ASSUME NEW v \in Draw
  PROVE  DrawnAfter(v) \in Draw /\ Len(DrawnAfter(v).id) = Len(v.id) + 1
<1>1. v.seed \in Int /\ 0 <= v.seed /\ v.seed < m /\ v.id \in Seq(0 .. 35)
  BY DEF Draw, Seeds
<1> DEFINE seed == NextSeed(v.seed)
<1>2. seed \in Int /\ 0 <= seed /\ seed < m
  BY <1>1, GeneratorIsExact
<1>3. IndexOf(seed) \in 0 .. 35
  BY <1>2, IndexIsCutOff
<1>4. seed \in Seeds
  BY <1>2 DEF Seeds
<1> HIDE DEF seed
<1>5. /\ Append(v.id, IndexOf(seed)) \in Seq(0 .. 35)
      /\ Len(Append(v.id, IndexOf(seed))) = Len(v.id) + 1
  BY <1>1, <1>3, AppendProperties
<1> QED
  BY <1>4, <1>5 DEF Draw, DrawnAfter, seed

LEMMA SeedType ==
  ASSUME NEW time \in Nat
  PROVE  Seed(time) \in Seeds
<1>1. Millisecond(time) \in 0 .. 999 /\ Second(time) \in Nat
  BY EpochAssumption, SMT DEF Millisecond, Second
<1>2. ASSUME NEW s \in Nat PROVE s % m \in Nat /\ s % m < m
  BY SMT DEF m
<1>3. CASE Millisecond(time) = 0
  BY <1>1, <1>2, <1>3 DEF Seed, Seeds
<1>4. CASE Millisecond(time) # 0
  BY <1>1, <1>4, SMT DEF Seed, Seeds, m
<1> QED
  BY <1>3, <1>4

\* The loops make a run of twelve draws from the seed of the reading.
IsDrawn(drawn, time) ==
  /\ drawn[0] = [seed |-> Seed(time), id |-> <<>>]
  /\ \A n \in 1 .. 12 : drawn[n] = DrawnAfter(drawn[n - 1])
  /\ GenerateId(time) = drawn[12].id

LEMMA DrawnExists ==
  ASSUME NEW time \in Nat
  PROVE  \E drawn : IsDrawn(drawn, time)
<1> DEFINE base == [seed |-> Seed(time), id |-> <<>>]
           step == [n \in 1 .. 12 |-> [v \in Draw |-> DrawnAfter(v)]]
           Loop(g) == g = [n \in 0 .. 12 |->
                             IF n = 0 THEN base
                             ELSE LET before == g[n - 1]
                                      seed   == NextSeed(before.seed)
                                  IN  [seed |-> seed,
                                       id   |-> Append(before.id, IndexOf(seed))]]
           drawn == CHOOSE g : Loop(g)
<1>1. base \in Draw
  BY SeedType DEF Draw
<1>2. step \in [1 .. 12 -> [Draw -> Draw]]
  BY DrawType
<1> HIDE DEF base
<1>3. PICK g : g \in [0 .. 12 -> Draw] /\ AreSteps(g, base, step, 12)
  <2>1. 12 \in Nat
    OBVIOUS
  <2> HIDE DEF step
  <2> QED
    BY <1>1, <1>2, <2>1, StepsExist
<1>4. \A n \in 1 .. 12 : n - 1 \in 0 .. 12 /\ g[n - 1] \in Draw
  BY <1>3
<1>5. \A n \in 1 .. 12 : step[n][g[n - 1]] = DrawnAfter(g[n - 1])
  BY <1>4
<1> HIDE DEF step
<1>6. g = [n \in 0 .. 12 |-> IF n = 0 THEN base ELSE step[n][g[n - 1]]]
  BY <1>3 DEF AreSteps
<1>7. \A n \in 0 .. 12 : n # 0 => n \in 1 .. 12
  OBVIOUS
<1>8. Loop(g)
  BY <1>5, <1>6, <1>7, Zenon DEF DrawnAfter
<1>9. Loop(drawn) /\ GenerateId(time) = drawn[12].id
  BY <1>8 DEF GenerateId, base
<1> HIDE DEF drawn
<1>10. /\ drawn[0] = base
       /\ \A n \in 1 .. 12 : drawn[n] = DrawnAfter(drawn[n - 1])
  <2>1. 0 \in 0 .. 12 /\ \A n \in 1 .. 12 : n \in 0 .. 12 /\ n # 0
    OBVIOUS
  <2> QED
    BY <1>9, <2>1, Zenon DEF DrawnAfter
<1> QED
  BY <1>9, <1>10 DEF IsDrawn, base

\* Each draw keeps the characters drawn before and adds that of its own seed.
LEMMA DrawnCharacters ==
  ASSUME NEW time \in Nat, NEW drawn, IsDrawn(drawn, time)
  PROVE  \A n \in 0 .. 12 :
           /\ drawn[n] \in Draw /\ Len(drawn[n].id) = n
           /\ \A k \in 1 .. n : drawn[n].id[k] = IndexOf(drawn[k].seed)
<1> DEFINE Holds(n) == /\ drawn[n] \in Draw /\ Len(drawn[n].id) = n
                       /\ \A k \in 1 .. n : drawn[n].id[k] = IndexOf(drawn[k].seed)
           T == {n \in Nat : n <= 12 => Holds(n)}
<1>1. 0 \in T
  <2>1. drawn[0] \in Draw /\ Len(drawn[0].id) = 0
    BY SeedType DEF IsDrawn, Draw
  <2> QED
    BY <2>1
<1>2. ASSUME NEW n \in T PROVE n + 1 \in T
  <2> SUFFICES ASSUME n + 1 <= 12 PROVE Holds(n + 1)
    OBVIOUS
  <2>1. n \in Nat /\ n + 1 \in 1 .. 12 /\ (n + 1) - 1 = n
    OBVIOUS
  <2>2. Holds(n)
    BY <2>1
  <2>3. drawn[n + 1] = DrawnAfter(drawn[n])
    BY <2>1 DEF IsDrawn
  <2>4. drawn[n + 1] \in Draw /\ Len(drawn[n + 1].id) = n + 1
    BY <2>2, <2>3, DrawType
  <2>5. /\ drawn[n].id \in Seq(0 .. 35)
        /\ drawn[n + 1].id = Append(drawn[n].id, IndexOf(drawn[n + 1].seed))
    BY <2>2, <2>3 DEF Draw, DrawnAfter
  <2>6. /\ \A k \in 1 .. n : drawn[n + 1].id[k] = drawn[n].id[k]
        /\ drawn[n + 1].id[n + 1] = IndexOf(drawn[n + 1].seed)
    BY <2>2, <2>5
  <2>7. \A k \in 1 .. n + 1 : k \in 1 .. n \/ k = n + 1
    BY <2>1
  <2> QED
    BY <2>2, <2>4, <2>6, <2>7
<1>3. T = Nat
  <2>1. T \in SUBSET Nat
    OBVIOUS
  <2> HIDE DEF T
  <2> QED
    BY <1>1, <1>2, <2>1, NatSetInduction
<1>4. ASSUME NEW n \in 0 .. 12 PROVE Holds(n)
  <2>1. n \in T /\ n <= 12
    BY <1>3
  <2> HIDE DEF Holds
  <2> QED
    BY <2>1
<1> QED
  BY <1>4

(***************************************************************************)
(* Whenever it is called, GenerateId makes twelve characters of the base   *)
(* string: its 36 letters and digits, never the terminator after them.     *)
(***************************************************************************)
THEOREM IdsAreTwelveCharacters ==
  ASSUME NEW time \in Nat
  PROVE  GenerateId(time) \in Seq(0 .. 35) /\ Len(GenerateId(time)) = 12
<1>1. PICK drawn : IsDrawn(drawn, time)
  BY DrawnExists
<1>2. drawn[12] \in Draw /\ Len(drawn[12].id) = 12
  <2>1. 12 \in 0 .. 12
    OBVIOUS
  <2> QED
    BY <1>1, <2>1, DrawnCharacters
<1> QED
  BY <1>1, <1>2 DEF IsDrawn, Draw

\* Of the time GenerateId sees only the reading.
LEMMA ReadingMakesId ==
  ASSUME NEW t, NEW u, SameReading(t, u)
  PROVE  GenerateId(t) = GenerateId(u)
<1>1. Seed(t) = Seed(u)
  BY DEF Seed, SameReading
<1> QED
  BY <1>1 DEF GenerateId


-----------------------------------------------------------------------------
(***************************************************************************)
(* Different seeds make different identifiers.  If two runs of the         *)
(* generator draw the same character, their seeds are at most c apart, and *)
(* the differences d1, d2, ... of the seeds of nine draws in a row are all *)
(* that small while each is a multiple of d1 modulo m.  Nine sums of small *)
(* multiples of them are then multiples of m that are smaller than m,      *)
(* hence zero, and nine such equations leave only d1 = 0.                  *)
(***************************************************************************)
LEMMA Sizes == m = 2147483647 /\ a = 39373 /\ c = 59652323
BY SMT DEF m, a, c

LEMMA SmallMultiple ==
  ASSUME NEW x \in Int, NEW n \in Int, x = m * n, - m < x, x < m
  PROVE  x = 0
BY Sizes, SMT

LEMMA CloseSeeds ==
  ASSUME NEW s \in Seeds, NEW u \in Seeds, IndexOf(s) = IndexOf(u)
  PROVE  - c <= s - u /\ s - u <= c
<1>1. /\ s \in Int /\ 0 <= s /\ s < m
      /\ u \in Int /\ 0 <= u /\ u < m
  BY DEF Seeds
<1>2. /\ IndexOf(s) \in 0 .. 35
      /\ m * IndexOf(s) <= 36 * s /\ 36 * s < m * (IndexOf(s) + 1)
      /\ m * IndexOf(s) <= 36 * u /\ 36 * u < m * (IndexOf(s) + 1)
  BY <1>1, IndexIsCutOff
<1> DEFINE i == IndexOf(s)
<1> HIDE DEF i
<1>3. /\ i \in Int
      /\ m * i <= 36 * s /\ 36 * s < m * (i + 1)
      /\ m * i <= 36 * u /\ 36 * u < m * (i + 1)
  BY <1>2, SMT DEF i
<1> QED
  BY <1>1, <1>3, Sizes, SMT

LEMMA NextDifference ==
  ASSUME NEW s \in Seeds, NEW u \in Seeds
  PROVE  /\ NextSeed(s) \in Seeds
         /\ \E n \in Int : NextSeed(s) - NextSeed(u) = a * (s - u) - m * n
<1>1. /\ s \in Int /\ 0 <= s /\ s < m
      /\ u \in Int /\ 0 <= u /\ u < m
  BY DEF Seeds
<1>2. /\ NextSeed(s) \in Int /\ 0 <= NextSeed(s) /\ NextSeed(s) < m
      /\ \E n \in Int : a * s = m * n + NextSeed(s)
  BY <1>1, GeneratorIsExact
<1>3. /\ NextSeed(u) \in Int
      /\ \E n \in Int : a * u = m * n + NextSeed(u)
  BY <1>1, GeneratorIsExact
<1>4. PICK n1 \in Int : a * s = m * n1 + NextSeed(s)
  BY <1>2
<1>5. PICK n2 \in Int : a * u = m * n2 + NextSeed(u)
  BY <1>3
<1> DEFINE x == NextSeed(s)
           y == NextSeed(u)
<1>6. /\ a * s = m * n1 + x /\ a * u = m * n2 + y
      /\ x \in Int /\ y \in Int
  BY <1>2, <1>3, <1>4, <1>5
<1> HIDE DEF x, y
<1>7. x - y = a * (s - u) - m * (n1 - n2) /\ n1 - n2 \in Int
  BY <1>1, <1>6, Sizes, SMT
<1>8. NextSeed(s) \in Seeds
  BY <1>2 DEF Seeds
<1> QED
  BY <1>7, <1>8 DEF x, y

(***************************************************************************)
(* The arithmetic.  N holds the quotients of the differences by m.         *)
(***************************************************************************)
LEMMA NineSmallDifferences ==
  ASSUME NEW d \in [0 .. 9 -> Int], - m < d[0], d[0] < m,
         NEW N \in [1 .. 9 -> Int],
         \A k \in 1 .. 9 : /\ d[k] = a * d[k - 1] - m * N[k]
                           /\ - c <= d[k] /\ d[k] <= c
  PROVE  d[0] = 0
<1> DEFINE d0 == d[0]
           d1 == d[1]
           d2 == d[2]
           d3 == d[3]
           d4 == d[4]
           d5 == d[5]
           d6 == d[6]
           d7 == d[7]
           d8 == d[8]
           d9 == d[9]
           n1 == N[1]
           n2 == N[2]
           n3 == N[3]
           n4 == N[4]
           n5 == N[5]
           n6 == N[6]
           n7 == N[7]
           n8 == N[8]
           n9 == N[9]
           q1 == 0
           q2 == n2
           q3 == a * q2 + n3
           q4 == a * q3 + n4 - 28422 * d1
           q5 == a * q4 + n5 - 28395 * d1
           q6 == a * q5 + n6 - 37483 * d1
           q7 == a * q6 + n7 - 29740 * d1
           q8 == a * q7 + n8 - 8851 * d1
           q9 == a * q8 + n9 - 38691 * d1
<1>1. /\ d0 \in Int /\ d1 \in Int /\ d2 \in Int /\ d3 \in Int /\ d4 \in Int
      /\ d5 \in Int /\ d6 \in Int /\ d7 \in Int /\ d8 \in Int /\ d9 \in Int
      /\ n1 \in Int /\ n2 \in Int /\ n3 \in Int /\ n4 \in Int /\ n5 \in Int
      /\ n6 \in Int /\ n7 \in Int /\ n8 \in Int /\ n9 \in Int
  OBVIOUS
<1>2. /\ - m < d0 /\ d0 < m
      /\ - c <= d1 /\ d1 <= c
      /\ - c <= d2 /\ d2 <= c
      /\ - c <= d3 /\ d3 <= c
      /\ - c <= d4 /\ d4 <= c
      /\ - c <= d5 /\ d5 <= c
      /\ - c <= d6 /\ d6 <= c
      /\ - c <= d7 /\ d7 <= c
      /\ - c <= d8 /\ d8 <= c
      /\ - c <= d9 /\ d9 <= c
  OBVIOUS
<1>3. /\ d1 = a * d0 - m * n1
      /\ d2 = a * d1 - m * n2
      /\ d3 = a * d2 - m * n3
      /\ d4 = a * d3 - m * n4
      /\ d5 = a * d4 - m * n5
      /\ d6 = a * d5 - m * n6
      /\ d7 = a * d6 - m * n7
      /\ d8 = a * d7 - m * n8
      /\ d9 = a * d8 - m * n9
  <2>1. \A k \in 1 .. 9 : d[k] = a * d[k - 1] - m * N[k]
    OBVIOUS
  <2>2. /\ 1 \in 1 .. 9 /\ 1 - 1 = 0 /\ 2 \in 1 .. 9 /\ 2 - 1 = 1
        /\ 3 \in 1 .. 9 /\ 3 - 1 = 2 /\ 4 \in 1 .. 9 /\ 4 - 1 = 3
        /\ 5 \in 1 .. 9 /\ 5 - 1 = 4 /\ 6 \in 1 .. 9 /\ 6 - 1 = 5
        /\ 7 \in 1 .. 9 /\ 7 - 1 = 6 /\ 8 \in 1 .. 9 /\ 8 - 1 = 7
        /\ 9 \in 1 .. 9 /\ 9 - 1 = 8
    OBVIOUS
  <2> QED
    BY <2>1, <2>2
<1> HIDE DEF d0, d1, d2, d3, d4, d5, d6, d7, d8, d9, n1, n2, n3, n4, n5, n6, n7, n8, n9
<1>4. d2 = 39373 * d1 - m * q2 /\ q2 \in Int
  BY <1>1, <1>3, Sizes, SMT
<1>5. d3 = 1550233129 * d1 - m * q3 /\ q3 \in Int
  <2> HIDE DEF q2
  <2> QED
    BY <1>1, <1>3, <1>4, Sizes, SMT
<1>6. d4 = 1548773083 * d1 - m * q4 /\ q4 \in Int
  <2> HIDE DEF q3
  <2> QED
    BY <1>1, <1>3, <1>5, Sizes, SMT
<1>7. d5 = 2044440394 * d1 - m * q5 /\ q5 \in Int
  <2> HIDE DEF q4
  <2> QED
    BY <1>1, <1>3, <1>6, Sizes, SMT
<1>8. d6 = 1622092461 * d1 - m * q6 /\ q6 \in Int
  <2> HIDE DEF q5
  <2> QED
    BY <1>1, <1>3, <1>7, Sizes, SMT
<1>9. d7 = 482805173 * d1 - m * q7 /\ q7 \in Int
  <2> HIDE DEF q6
  <2> QED
    BY <1>1, <1>3, <1>8, Sizes, SMT
<1>10. d8 = 2110316932 * d1 - m * q8 /\ q8 \in Int
  <2> HIDE DEF q7
  <2> QED
    BY <1>1, <1>3, <1>9, Sizes, SMT
<1>11. d9 = 1218777559 * d1 - m * q9 /\ q9 \in Int
  <2> HIDE DEF q8
  <2> QED
    BY <1>1, <1>3, <1>10, Sizes, SMT
<1> HIDE DEF q2, q3, q4, q5, q6, q7, q8, q9
<1>12. 3 * d1 + 3 * d2 - 2 * d3 - 2 * d4 + d5 - 3 * d6 + d7 + 3 * d8 - 7 * d9 = 0
  <2> DEFINE x == 3 * d1 + 3 * d2 - 2 * d3 - 2 * d4 + d5 - 3 * d6 + d7 + 3 * d8 - 7 * d9
             n == - 5 * d1 - 3 * q2 + 2 * q3 + 2 * q4 - q5 + 3 * q6 - q7 - 3 * q8 + 7 * q9
  <2>1. x \in Int /\ n \in Int /\ x = m * n
    BY <1>1, <1>4, <1>5, <1>6, <1>7, <1>8, <1>9, <1>10, <1>11, Sizes, SMT
  <2>2. - m < x /\ x < m
    BY <1>1, <1>2, Sizes, SMT
  <2> HIDE DEF x, n
  <2>3. x = 0
    BY <2>1, <2>2, SmallMultiple
  <2> QED
    BY <2>3 DEF x
<1>13. d2 + 6 * d3 + 8 * d4 - 3 * d5 + d6 + 4 * d7 + 2 * d8 + 2 * d9 = 0
  <2> DEFINE x == d2 + 6 * d3 + 8 * d4 - 3 * d5 + d6 + 4 * d7 + 2 * d8 + 2 * d9
             n == 12 * d1 - q2 - 6 * q3 - 8 * q4 + 3 * q5 - q6 - 4 * q7 - 2 * q8 - 2 * q9
  <2>1. x \in Int /\ n \in Int /\ x = m * n
    BY <1>1, <1>4, <1>5, <1>6, <1>7, <1>8, <1>9, <1>10, <1>11, Sizes, SMT
  <2>2. - m < x /\ x < m
    BY <1>1, <1>2, Sizes, SMT
  <2> HIDE DEF x, n
  <2>3. x = 0
    BY <2>1, <2>2, SmallMultiple
  <2> QED
    BY <2>3 DEF x
<1>14. d1 + 6 * d2 + 8 * d3 - 3 * d4 + d5 + 4 * d6 + 2 * d7 + 2 * d8 = 0
  <2> DEFINE x == d1 + 6 * d2 + 8 * d3 - 3 * d4 + d5 + 4 * d6 + 2 * d7 + 2 * d8
             n == 10 * d1 - 6 * q2 - 8 * q3 + 3 * q4 - q5 - 4 * q6 - 2 * q7 - 2 * q8
  <2>1. x \in Int /\ n \in Int /\ x = m * n
    BY <1>1, <1>4, <1>5, <1>6, <1>7, <1>8, <1>9, <1>10, <1>11, Sizes, SMT
  <2>2. - m < x /\ x < m
    BY <1>1, <1>2, Sizes, SMT
  <2> HIDE DEF x, n
  <2>3. x = 0
    BY <2>1, <2>2, SmallMultiple
  <2> QED
    BY <2>3 DEF x
<1>15. d1 + d2 - 2 * d3 - 3 * d4 + d5 + 12 * d6 + 5 * d7 - 2 * d8 - d9 = 0
  <2> DEFINE x == d1 + d2 - 2 * d3 - 3 * d4 + d5 + 12 * d6 + 5 * d7 - 2 * d8 - d9
             n == 5 * d1 - q2 + 2 * q3 + 3 * q4 - q5 - 12 * q6 - 5 * q7 + 2 * q8 + q9
  <2>1. x \in Int /\ n \in Int /\ x = m * n
    BY <1>1, <1>4, <1>5, <1>6, <1>7, <1>8, <1>9, <1>10, <1>11, Sizes, SMT
  <2>2. - m < x /\ x < m
    BY <1>1, <1>2, Sizes, SMT
  <2> HIDE DEF x, n
  <2>3. x = 0
    BY <2>1, <2>2, SmallMultiple
  <2> QED
    BY <2>3 DEF x
<1>16. d1 + 4 * d2 + 3 * d3 - d4 - 6 * d5 + d6 + 11 * d8 + 3 * d9 = 0
  <2> DEFINE x == d1 + 4 * d2 + 3 * d3 - d4 - 6 * d5 + d6 + 11 * d8 + 3 * d9
             n == 9 * d1 - 4 * q2 - 3 * q3 + q4 + 6 * q5 - q6 - 11 * q8 - 3 * q9
  <2>1. x \in Int /\ n \in Int /\ x = m * n
    BY <1>1, <1>4, <1>5, <1>6, <1>7, <1>8, <1>9, <1>10, <1>11, Sizes, SMT
  <2>2. - m < x /\ x < m
    BY <1>1, <1>2, Sizes, SMT
  <2> HIDE DEF x, n
  <2>3. x = 0
    BY <2>1, <2>2, SmallMultiple
  <2> QED
    BY <2>3 DEF x
<1>17. 5 * d1 + 10 * d2 - 8 * d5 - 3 * d6 + 4 * d7 + d8 = 0
  <2> DEFINE x == 5 * d1 + 10 * d2 - 8 * d5 - 3 * d6 + 4 * d7 + d8
             n == - 8 * d1 - 10 * q2 + 8 * q5 + 3 * q6 - 4 * q7 - q8
  <2>1. x \in Int /\ n \in Int /\ x = m * n
    BY <1>1, <1>4, <1>5, <1>6, <1>7, <1>8, <1>9, <1>10, <1>11, Sizes, SMT
  <2>2. - m < x /\ x < m
    BY <1>1, <1>2, Sizes, SMT
  <2> HIDE DEF x, n
  <2>3. x = 0
    BY <2>1, <2>2, SmallMultiple
  <2> QED
    BY <2>3 DEF x
<1>18. 5 * d1 - 2 * d3 + 5 * d4 + 8 * d5 + 3 * d6 - 2 * d7 + 6 * d9 = 0
  <2> DEFINE x == 5 * d1 - 2 * d3 + 5 * d4 + 8 * d5 + 3 * d6 - 2 * d7 + 6 * d9
             n == 15 * d1 + 2 * q3 - 5 * q4 - 8 * q5 - 3 * q6 + 2 * q7 - 6 * q9
  <2>1. x \in Int /\ n \in Int /\ x = m * n
    BY <1>1, <1>4, <1>5, <1>6, <1>7, <1>8, <1>9, <1>10, <1>11, Sizes, SMT
  <2>2. - m < x /\ x < m
    BY <1>1, <1>2, Sizes, SMT
  <2> HIDE DEF x, n
  <2>3. x = 0
    BY <2>1, <2>2, SmallMultiple
  <2> QED
    BY <2>3 DEF x
<1>19. 7 * d1 - 4 * d2 + 7 * d3 + d4 - 4 * d5 - 4 * d6 + d7 + 2 * d8 - 2 * d9 = 0
  <2> DEFINE x == 7 * d1 - 4 * d2 + 7 * d3 + d4 - 4 * d5 - 4 * d6 + d7 + 2 * d8 - 2 * d9
             n == 4 * q2 - 7 * q3 - q4 + 4 * q5 + 4 * q6 - q7 - 2 * q8 + 2 * q9
  <2>1. x \in Int /\ n \in Int /\ x = m * n
    BY <1>1, <1>4, <1>5, <1>6, <1>7, <1>8, <1>9, <1>10, <1>11, Sizes, SMT
  <2>2. - m < x /\ x < m
    BY <1>1, <1>2, Sizes, SMT
  <2> HIDE DEF x, n
  <2>3. x = 0
    BY <2>1, <2>2, SmallMultiple
  <2> QED
    BY <2>3 DEF x
<1>20. 3 * d1 - 5 * d2 - 2 * d4 + 5 * d5 + d6 + 7 * d7 + 3 * d8 + 6 * d9 = 0
  <2> DEFINE x == 3 * d1 - 5 * d2 - 2 * d4 + 5 * d5 + d6 + 7 * d7 + 3 * d8 + 6 * d9
             n == 12 * d1 + 5 * q2 + 2 * q4 - 5 * q5 - q6 - 7 * q7 - 3 * q8 - 6 * q9
  <2>1. x \in Int /\ n \in Int /\ x = m * n
    BY <1>1, <1>4, <1>5, <1>6, <1>7, <1>8, <1>9, <1>10, <1>11, Sizes, SMT
  <2>2. - m < x /\ x < m
    BY <1>1, <1>2, Sizes, SMT
  <2> HIDE DEF x, n
  <2>3. x = 0
    BY <2>1, <2>2, SmallMultiple
  <2> QED
    BY <2>3 DEF x
<1>21. d1 = 0
  BY <1>1, <1>12, <1>13, <1>14, <1>15, <1>16,
     <1>17, <1>18, <1>19, <1>20, Sizes, SMT
<1>22. d0 = 0
  <2> DEFINE n == 1451472705 * n1 - 26612 * d0
  <2>1. d0 = m * n /\ n \in Int
    BY <1>1, <1>3, <1>21, Sizes, SMT
  <2> HIDE DEF n
  <2> QED
    BY <1>1, <1>2, <2>1, SmallMultiple
<1> QED
  BY <1>22 DEF d0

\* Nine characters in a row are enough to know the seed before them.
LEMMA NineDrawsTellSeeds ==
  ASSUME NEW s \in [0 .. 9 -> Seeds], NEW u \in [0 .. 9 -> Seeds],
         \A k \in 1 .. 9 : /\ s[k] = NextSeed(s[k - 1]) /\ u[k] = NextSeed(u[k - 1])
                           /\ IndexOf(s[k]) = IndexOf(u[k])
  PROVE  s[0] = u[0]
<1> DEFINE d == [k \in 0 .. 9 |-> s[k] - u[k]]
           Quotient(k, n) == d[k] = a * d[k - 1] - m * n
           N == [k \in 1 .. 9 |-> CHOOSE n \in Int : Quotient(k, n)]
<1>1. \A k \in 0 .. 9 : s[k] \in Seeds /\ u[k] \in Seeds /\ s[k] \in Int /\ u[k] \in Int
  BY DEF Seeds
<1>2. d \in [0 .. 9 -> Int]
  BY <1>1
<1>3. - m < d[0] /\ d[0] < m
  <2>1. /\ s[0] \in Int /\ 0 <= s[0] /\ s[0] < m
        /\ u[0] \in Int /\ 0 <= u[0] /\ u[0] < m
    BY <1>1 DEF Seeds
  <2>2. d[0] = s[0] - u[0]
    OBVIOUS
  <2> HIDE DEF d
  <2> QED
    BY <2>1, <2>2, Sizes, SMT
<1>4. ASSUME NEW k \in 1 .. 9
      PROVE  /\ \E n \in Int : Quotient(k, n)
             /\ - c <= d[k] /\ d[k] <= c
  <2>1. /\ k - 1 \in 0 .. 9 /\ k \in 0 .. 9
        /\ d[k] = s[k] - u[k] /\ d[k - 1] = s[k - 1] - u[k - 1]
    OBVIOUS
  <2>2. \E n \in Int : s[k] - u[k] = a * (s[k - 1] - u[k - 1]) - m * n
    <3>1. s[k - 1] \in Seeds /\ u[k - 1] \in Seeds
      BY <1>1, <2>1
    <3>2. \E n \in Int : NextSeed(s[k - 1]) - NextSeed(u[k - 1]) =
                            a * (s[k - 1] - u[k - 1]) - m * n
      BY <3>1, NextDifference
    <3> QED
      BY <3>2
  <2>3. - c <= s[k] - u[k] /\ s[k] - u[k] <= c
    <3>1. s[k] \in Seeds /\ u[k] \in Seeds /\ IndexOf(s[k]) = IndexOf(u[k])
      BY <1>1, <2>1
    <3> QED
      BY <3>1, CloseSeeds
  <2> HIDE DEF d
  <2> QED
    BY <2>1, <2>2, <2>3
<1> HIDE DEF d
<1>5. \A k \in 1 .. 9 : N[k] \in Int /\ Quotient(k, N[k])
  <2> HIDE DEF Quotient
  <2> QED
    BY <1>4
<1>6. N \in [1 .. 9 -> Int]
  BY <1>5
<1> HIDE DEF N
<1>7. d[0] = 0
  BY <1>2, <1>3, <1>4, <1>5, <1>6, NineSmallDifferences
<1> QED
  BY <1>1, <1>7 DEF d


(***************************************************************************)
(* The other half of what identifiers are for: GenerateId never makes the  *)
(* same identifier from two seeds, so of the twelve characters nine are    *)
(* enough and a collision is always one of readings.                       *)
(***************************************************************************)
THEOREM IdsTellSeeds ==
  ASSUME NEW t \in Nat, NEW u \in Nat, GenerateId(t) = GenerateId(u)
  PROVE  Seed(t) = Seed(u)
<1>1. PICK v : IsDrawn(v, t)
  BY DrawnExists
<1>2. PICK w : IsDrawn(w, u)
  BY DrawnExists
<1> DEFINE s1 == [k \in 0 .. 9 |-> v[k].seed]
           s2 == [k \in 0 .. 9 |-> w[k].seed]
<1>3. v[12].id = w[12].id
  BY <1>1, <1>2 DEF IsDrawn
<1>4. /\ \A k \in 0 .. 9 : k \in 0 .. 12
      /\ \A k \in 1 .. 9 : k \in 1 .. 12 /\ k - 1 \in 0 .. 9 /\ k \in 0 .. 9
      /\ 12 \in 0 .. 12 /\ 0 \in 0 .. 9
  OBVIOUS
<1>5. /\ \A k \in 0 .. 9 : v[k] \in Draw /\ w[k] \in Draw
      /\ \A k \in 1 .. 12 : /\ v[12].id[k] = IndexOf(v[k].seed)
                            /\ w[12].id[k] = IndexOf(w[k].seed)
  BY <1>1, <1>2, <1>4, DrawnCharacters
<1>6. s1 \in [0 .. 9 -> Seeds] /\ s2 \in [0 .. 9 -> Seeds]
  BY <1>5 DEF Draw
<1>7. ASSUME NEW k \in 1 .. 9
      PROVE  /\ s1[k] = NextSeed(s1[k - 1]) /\ s2[k] = NextSeed(s2[k - 1])
             /\ IndexOf(s1[k]) = IndexOf(s2[k])
  <2>1. /\ s1[k] = v[k].seed /\ s1[k - 1] = v[k - 1].seed
        /\ s2[k] = w[k].seed /\ s2[k - 1] = w[k - 1].seed
    BY <1>4
  <2>2. v[k] = DrawnAfter(v[k - 1]) /\ w[k] = DrawnAfter(w[k - 1])
    BY <1>1, <1>2, <1>4 DEF IsDrawn
  <2>3. v[k].seed = NextSeed(v[k - 1].seed) /\ w[k].seed = NextSeed(w[k - 1].seed)
    BY <2>2 DEF DrawnAfter
  <2>4. IndexOf(v[k].seed) = IndexOf(w[k].seed)
    BY <1>3, <1>4, <1>5, Zenon
  <2> HIDE DEF s1, s2
  <2> QED
    BY <2>1, <2>3, <2>4, Zenon
<1>8. s1[0] = Seed(t) /\ s2[0] = Seed(u)
  <2>1. s1[0] = v[0].seed /\ s2[0] = w[0].seed
    BY <1>4
  <2>2. v[0].seed = Seed(t) /\ w[0].seed = Seed(u)
    BY <1>1, <1>2 DEF IsDrawn
  <2> HIDE DEF s1, s2
  <2> QED
    BY <2>1, <2>2
<1> HIDE DEF s1, s2
<1>9. s1[0] = s2[0]
  BY <1>6, <1>7, NineDrawsTellSeeds
<1> QED
  BY <1>8, <1>9

(***************************************************************************)
(* From the thousandth second of the clock to its m-th (in 2038), a second *)
(* is its own seed and never that of a millisecond.                        *)
(***************************************************************************)
SecondsAreSeeds(time) == 1000 <= Second(time) /\ Second(time) < m

LEMMA SeedTellsReading ==
  ASSUME NEW t \in Nat, NEW u \in Nat, SecondsAreSeeds(t), SecondsAreSeeds(u),
         Seed(t) = Seed(u)
  PROVE  SameReading(t, u)
<1>1. /\ Millisecond(t) \in 0 .. 999 /\ Second(t) \in Nat
      /\ Millisecond(u) \in 0 .. 999 /\ Second(u) \in Nat
  BY EpochAssumption, SMT DEF Millisecond, Second
<1>2. ASSUME NEW n \in Nat, n < m PROVE n % m = n
  BY <1>2, SMT DEF m
<1>3. /\ 1000 <= Second(t) /\ Second(t) % m = Second(t)
      /\ 1000 <= Second(u) /\ Second(u) % m = Second(u)
  BY <1>1, <1>2 DEF SecondsAreSeeds
<1> QED
  BY <1>1, <1>3 DEF Seed, SameReading

-----------------------------------------------------------------------------
(***************************************************************************)
(* The trades the booking service still has.  It is keyed on identifiers,  *)
(* so the trade found under that of an execution is the one booked for the *)
(* last execution with the same identifier.  This holds of Booking alone.  *)
(***************************************************************************)
IsLastNamed(log, count, j, id) ==
  /\ log[j].orderId = id
  /\ \A n \in j + 1 .. count : log[n].orderId # id

\* map keeps the trades of the first count orders of log.
Keeps(map, log, count) ==
  \A i \in 1 .. count :
    /\ log[i].orderId \in DOMAIN map
    /\ \E j \in i .. count : /\ IsLastNamed(log, count, j, log[i].orderId)
                             /\ map[log[i].orderId] = TradeOf(log[j], j)

TradesKept == Keeps(trades, executed, tradeCount)

LEMMA KeepsOneMore ==
  ASSUME NEW map, NEW log, NEW count \in Nat, Keeps(map, log, count)
  PROVE  LET next == log[count + 1]
         IN  Keeps(Put(map, next.orderId, TradeOf(next, count + 1)), log, count + 1)
<1> DEFINE k == count + 1
           last == log[k].orderId
           more == Put(map, last, TradeOf(log[k], k))
<1>1. /\ DOMAIN more = DOMAIN map \cup {last}
      /\ more[last] = TradeOf(log[k], k)
      /\ \A id \in DOMAIN map : id # last => more[id] = map[id]
  BY DEF Put
<1> SUFFICES ASSUME NEW i \in 1 .. k
             PROVE  /\ log[i].orderId \in DOMAIN more
                    /\ \E j \in i .. k : /\ IsLastNamed(log, k, j, log[i].orderId)
                                         /\ more[log[i].orderId] = TradeOf(log[j], j)
  BY DEF Keeps
<1> HIDE DEF more
<1>2. CASE log[i].orderId = last
  <2>1. k \in i .. k /\ k + 1 .. k = {}
    OBVIOUS
  <2>2. IsLastNamed(log, k, k, last)
    BY <2>1 DEF IsLastNamed
  <2> HIDE DEF k
  <2> QED
    BY <1>1, <1>2, <2>1, <2>2
<1>3. CASE log[i].orderId # last
  <2> DEFINE id == log[i].orderId
  <2>1. i \in 1 .. count
    BY <1>3
  <2>2. PICK j \in i .. count :
          IsLastNamed(log, count, j, id) /\ map[id] = TradeOf(log[j], j)
    BY <2>1 DEF Keeps
  <2>3. id \in DOMAIN map
    BY <2>1 DEF Keeps
  <2>4. j \in i .. k /\ \A n \in j + 1 .. k : n \in j + 1 .. count \/ n = k
    BY <2>1
  <2>5. IsLastNamed(log, k, j, id)
    <3> HIDE DEF k
    <3> QED
      BY <1>3, <2>2, <2>4 DEF IsLastNamed
  <2>6. more[id] = map[id]
    BY <1>1, <1>3, <2>3
  <2> QED
    BY <1>1, <2>2, <2>3, <2>4, <2>5, <2>6
<1> QED
  BY <1>2, <1>3

\* Only the first count orders matter.
LEMMA KeepsSame ==
  ASSUME NEW map, NEW log, NEW longer, NEW count \in Nat, Keeps(map, log, count),
         \A i \in 1 .. count : longer[i] = log[i]
  PROVE  Keeps(map, longer, count)
<1> SUFFICES ASSUME NEW i \in 1 .. count
             PROVE  /\ longer[i].orderId \in DOMAIN map
                    /\ \E j \in i .. count :
                         /\ IsLastNamed(longer, count, j, longer[i].orderId)
                         /\ map[longer[i].orderId] = TradeOf(longer[j], j)
  BY DEF Keeps
<1>1. longer[i] = log[i] /\ log[i].orderId \in DOMAIN map
  BY DEF Keeps
<1>2. PICK j \in i .. count :
        IsLastNamed(log, count, j, log[i].orderId) /\ map[log[i].orderId] = TradeOf(log[j], j)
  BY DEF Keeps
<1>3. j \in 1 .. count /\ \A n \in j + 1 .. count : n \in 1 .. count
  OBVIOUS
<1>4. longer[j] = log[j] /\ IsLastNamed(longer, count, j, log[i].orderId)
  BY <1>2, <1>3 DEF IsLastNamed
<1> QED
  BY <1>1, <1>2, <1>4

LEMMA TradesKeptStep ==
  ASSUME BookingTypeOK, BookedInv, TradesKept, [BookingNext]_bookingVars
  PROVE  TradesKept'
<1>1. CASE \E product \in Products : \E t \in FileTrade(product) : ReadTrade(product, t)
  <2>1. tradeCount = 0 /\ tradeCount' = tradeCount
    BY <1>1 DEF ReadTrade, BookedInv
  <2> QED
    BY <2>1 DEF TradesKept, Keeps
<1>2. CASE \E o \in ExecutionOrder : ExecuteOrder(o)
  <2>1. PICK o \in ExecutionOrder : ExecuteOrder(o)
    BY <1>2
  <2>2. /\ UNCHANGED <<trades, tradeCount>>
        /\ executed' = Append(executed, o) /\ executed \in Seq(ExecutionOrder)
        /\ tradeCount \in Nat /\ tradeCount <= Len(executed)
    BY <2>1 DEF ExecuteOrder, BookedInv, HistoryTypeOK, BookingTypeOK
  <2>3. \A i \in 1 .. tradeCount : executed'[i] = executed[i]
    BY <2>2, AppendProperties
  <2>4. Keeps(trades, executed', tradeCount)
    BY <2>2, <2>3, KeepsSame DEF TradesKept
  <2> QED
    BY <2>2, <2>4 DEF TradesKept
<1>3. CASE BookExecution
  <2> DEFINE k == tradeCount + 1
  <2>1. /\ tradeCount' = k /\ executed' = executed /\ pc = "book" /\ Alive
        /\ BookTrade(order.product, TradeOf(order, k))
    BY <1>3 DEF BookExecution, Alive
  <2>2. order # None /\ tradeCount \in Nat
    BY <2>1, NoneAssumption DEF BookingTypeOK
  <2>3. order = executed[k]
    BY <2>1, <2>2 DEF BookedInv
  <2>4. TradeOf(order, k).tradeId = order.orderId
    BY DEF TradeOf, MakeTrade
  <2>5. trades' = Put(trades, executed[k].orderId, TradeOf(executed[k], k))
    BY <2>1, <2>3, <2>4 DEF BookTrade
  <2>6. Keeps(Put(trades, executed[k].orderId, TradeOf(executed[k], k)), executed, k)
    BY <2>2, KeepsOneMore DEF TradesKept
  <2> HIDE DEF k
  <2>7. Keeps(trades', executed', tradeCount')
    BY <2>1, <2>5, <2>6
  <2> QED
    BY <2>7 DEF TradesKept
<1>4. CASE Restart
  <2>1. tradeCount' = 0
    BY <1>4 DEF Restart
  <2> QED
    BY <2>1 DEF TradesKept, Keeps
<1>5. CASE \/ AddTrade \/ AddPosition \/ PersistRisk \/ PersistPosition \/ PersistExecution
           \/ NextPhase \/ BadLine \/ Crash \/ Stopped \/ UNCHANGED bookingVars
  <2>1. UNCHANGED <<trades, tradeCount, executed>>
    BY <1>5 DEF AddTrade, AddPosition, PersistRisk, PersistPosition, PersistExecution,
       NextPhase, BadLine, Crash, Dies, Stopped, bookingVars, memory, history
  <2> QED
    BY <2>1 DEF TradesKept
<1> QED
  BY <1>1, <1>2, <1>3, <1>4, <1>5 DEF BookingNext, OtherStep, Handler


-----------------------------------------------------------------------------
(***************************************************************************)
(* TimedFlow.  Its theorems are about an Ids that has every identifier     *)
(* GenerateId makes: IdsAreTwelveCharacters says that the sequences of     *)
(* twelve characters are enough.                                           *)
(***************************************************************************)
ClockIds == {GenerateId(time) : time \in Nat}

LEMMA TwelveCharactersAreEnough ==
  ASSUME {id \in Seq(0 .. 35) : Len(id) = 12} \subseteq Ids
  PROVE  ClockIds \subseteq Ids
BY IdsAreTwelveCharacters DEF ClockIds

\* The order made at a time is one the services can take.
LEMMA ClockOrders ==
  ASSUME ClockIds \subseteq Ids, NEW time \in Nat,
         NEW o \in OrdersNamed({GenerateId(time)})
  PROVE  o \in ExecutionOrder /\ o.orderId = GenerateId(time)
<1>1. GenerateId(time) \in Ids
  BY DEF ClockIds
<1> HIDE DEF GenerateId
<1> QED
  BY <1>1 DEF ExecutionOrder, OrdersNamed

\* Every order was made at the time the history has for it.
TimesInv ==
  /\ now \in Nat
  /\ times \in Seq(Nat) /\ Len(times) = Len(executed)
  /\ \A i \in 1 .. Len(executed) : /\ executed[i].orderId = GenerateId(times[i])
                                   /\ times[i] <= now

LEMMA TimedStepIsFlowStep ==
  ASSUME ClockIds \subseteq Ids, now \in Nat, [TimedNext]_timedVars
  PROVE  [FlowNext]_bookingVars /\ now' \in Nat /\ now <= now'
<1>1. CASE TimedExecutes
  <2>1. PICK delay \in Delays :
          /\ now' = now + delay
          /\ \E o \in OrdersNamed({GenerateId(now')}) : AlgoExecutes(o)
    BY <1>1 DEF TimedExecutes
  <2>2. now' \in Nat /\ now <= now'
    BY <2>1, TimeAssumption
  <2>3. \E o \in ExecutionOrder : AlgoExecutes(o)
    BY <2>1, <2>2, ClockOrders
  <2> QED
    BY <2>2, <2>3 DEF FlowNext
<1>2. CASE TimedOther
  BY <1>2 DEF TimedOther, FlowNext
<1>3. CASE UNCHANGED timedVars
  BY <1>3 DEF timedVars
<1> QED
  BY <1>1, <1>2, <1>3 DEF TimedNext

LEMMA TimesInvStep ==
  ASSUME ClockIds \subseteq Ids, HistoryTypeOK, TimesInv, [TimedNext]_timedVars
  PROVE  TimesInv'
<1>1. now' \in Nat /\ now <= now'
  BY TimedStepIsFlowStep DEF TimesInv
<1>2. CASE TimedExecutes
  <2>1. PICK o \in OrdersNamed({GenerateId(now')}) : AlgoExecutes(o)
    BY <1>2 DEF TimedExecutes
  <2>2. o \in ExecutionOrder /\ o.orderId = GenerateId(now')
    BY <1>1, <2>1, ClockOrders
  <2>3. executed' = Append(executed, o) /\ times' = Append(times, now')
    BY <1>2, <2>1 DEF TimedExecutes, AlgoExecutes, ExecuteOrder
  <2>4. /\ executed \in Seq(ExecutionOrder) /\ times \in Seq(Nat)
        /\ Len(times) = Len(executed) /\ Len(executed) \in Nat
    BY DEF HistoryTypeOK, TimesInv
  <2>5. /\ Len(executed') = Len(executed) + 1 /\ executed'[Len(executed) + 1] = o
        /\ \A i \in 1 .. Len(executed) : executed'[i] = executed[i]
    BY <2>2, <2>3, <2>4, AppendProperties
  <2>6. /\ Len(times') = Len(executed) + 1 /\ times'[Len(executed) + 1] = now'
        /\ \A i \in 1 .. Len(executed) : times'[i] = times[i]
        /\ times' \in Seq(Nat)
    BY <1>1, <2>3, <2>4, AppendProperties
  <2> HIDE DEF GenerateId
  <2>7. ASSUME NEW i \in 1 .. Len(executed')
        PROVE  executed'[i].orderId = GenerateId(times'[i]) /\ times'[i] <= now'
    <3>1. i \in 1 .. Len(executed) \/ i = Len(executed) + 1
      BY <2>4, <2>5
    <3>2. CASE i \in 1 .. Len(executed)
      <4>1. /\ executed'[i] = executed[i] /\ times'[i] = times[i]
            /\ executed[i].orderId = GenerateId(times[i]) /\ times[i] <= now
        BY <2>5, <2>6, <3>2 DEF TimesInv
      <4>2. times[i] \in Nat
        BY <2>4, <3>2
      <4>3. times[i] <= now'
        BY <1>1, <4>1, <4>2 DEF TimesInv
      <4> QED
        BY <4>1, <4>3
    <3>3. CASE i = Len(executed) + 1
      BY <1>1, <2>2, <2>5, <2>6, <3>3
    <3> QED
      BY <3>1, <3>2, <3>3
  <2> QED
    BY <1>1, <2>5, <2>6, <2>7 DEF TimesInv
<1>3. CASE TimedOther
  <2>1. times' = IF executed' = <<>> THEN <<>> ELSE times
    BY <1>3 DEF TimedOther
  <2>2. executed' = <<>> \/ executed' = executed
    BY <1>3, OtherStepsExecuteNothing DEF TimedOther, Restart
  <2> HIDE DEF GenerateId
  <2>3. CASE executed' = <<>>
    BY <1>1, <2>1, <2>3 DEF TimesInv
  <2>4. CASE executed' # <<>>
    BY <1>1, <2>1, <2>2, <2>4 DEF TimesInv
  <2> QED
    BY <2>3, <2>4
<1>4. CASE UNCHANGED timedVars
  <2> HIDE DEF GenerateId
  <2> QED
    BY <1>4 DEF timedVars, bookingVars, history, TimesInv
<1> QED
  BY <1>2, <1>3, <1>4 DEF TimedNext

TimedInv ==
  /\ BookingTypeOK /\ TradeHasPosition
  /\ BookedInv /\ SidesInTurn /\ TradesKept
  /\ TimesInv

LEMMA TimedInvariant == ASSUME ClockIds \subseteq Ids PROVE TimedSpec => []TimedInv
<1>1. TimedInit => TimedInv
  <2> SUFFICES ASSUME TimedInit PROVE TimedInv
    OBVIOUS
  <2>1. BookingTypeOK /\ TradeHasPosition
    BY BookingInitType DEF TimedInit
  <2>2. /\ executed = <<>> /\ booked = <<>> /\ tradeCount = 0 /\ times = <<>>
        /\ now \in Nat
    BY TimeAssumption DEF TimedInit, BookingInit, MemoryInit
  <2>3. BookedInv /\ SidesInTurn
    BY DEF TimedInit, BookingInit, MemoryInit, BookedInv, HistoryTypeOK, SidesInTurn
  <2>4. TradesKept
    BY <2>2 DEF TradesKept, Keeps
  <2>5. TimesInv
    BY <2>2 DEF TimesInv
  <2> QED
    BY <2>1, <2>3, <2>4, <2>5 DEF TimedInv
<1>2. TimedInv /\ [TimedNext]_timedVars => TimedInv'
  <2> SUFFICES ASSUME TimedInv, [TimedNext]_timedVars PROVE TimedInv'
    OBVIOUS
  <2>1. [FlowNext]_bookingVars
    BY TimedStepIsFlowStep DEF TimedInv, TimesInv
  <2>2. [BookingNext]_bookingVars
    BY <2>1, FlowStepIsBookingStep
  <2>3. HistoryTypeOK
    BY DEF TimedInv, BookedInv
  <2>4. BookingTypeOK' /\ TradeHasPosition'
    BY <2>2, BookingTypeStep DEF TimedInv
  <2>5. BookedInv' /\ TradesKept'
    BY <2>2, BookedInvStep, TradesKeptStep DEF TimedInv
  <2>6. SidesInTurn' /\ TimesInv'
    BY <2>1, <2>3, SidesInTurnStep, TimesInvStep DEF TimedInv
  <2> QED
    BY <2>4, <2>5, <2>6 DEF TimedInv
<1> QED
  BY <1>1, <1>2, PTL DEF TimedSpec

(***************************************************************************)
(* The clock adds nothing to what ExecutionFlow lets happen: its orders    *)
(* are orders of the algo execution service, so every safety property of   *)
(* ExecutionFlow and Booking holds with identifiers that repeat.           *)
(***************************************************************************)
FlowSafety == BookingInit /\ [][FlowNext]_bookingVars

THEOREM TimedFlowImplementsFlow ==
  ASSUME ClockIds \subseteq Ids PROVE TimedSpec => FlowSafety
<1>1. TimedInit => BookingInit
  BY DEF TimedInit
<1>2. TimedInv /\ [TimedNext]_timedVars => [FlowNext]_bookingVars
  BY TimedStepIsFlowStep DEF TimedInv, TimesInv
<1> QED
  BY <1>1, <1>2, TimedInvariant, PTL DEF TimedSpec, FlowSafety

(***************************************************************************)
(* Under the clock too, algo trades take the books in turn and sides       *)
(* alternate in each book, whichever identifiers collide.                  *)
(***************************************************************************)
THEOREM BooksAlternateUnderTheClock ==
  ASSUME ClockIds \subseteq Ids PROVE TimedSpec => []BooksAlternate
<1>1. TimedInv => BooksAlternate
  BY TurnsAlternate DEF TimedInv
<1> QED
  BY <1>1, TimedInvariant, PTL

(***************************************************************************)
(* Two orders of a run made in the same millisecond of different seconds   *)
(* (or in the same millisecond) always have the same identifier: the half  *)
(* of IdsTellReadings that does not depend on the time of day.             *)
(***************************************************************************)
ReadingsDecideIds ==
  \A i, j \in DOMAIN executed :
    SameReading(times[i], times[j]) => executed[i].orderId = executed[j].orderId

THEOREM ReadingsAlwaysDecideIds ==
  ASSUME ClockIds \subseteq Ids PROVE TimedSpec => []ReadingsDecideIds
<1>1. TimedInv => ReadingsDecideIds
  <2> SUFFICES ASSUME TimedInv, NEW i \in DOMAIN executed, NEW j \in DOMAIN executed,
                      SameReading(times[i], times[j])
               PROVE  executed[i].orderId = executed[j].orderId
    BY DEF ReadingsDecideIds
  <2>1. DOMAIN executed = 1 .. Len(executed)
    BY DEF TimedInv, BookedInv, HistoryTypeOK
  <2>2. GenerateId(times[i]) = GenerateId(times[j])
    BY ReadingMakesId
  <2> HIDE DEF GenerateId
  <2> QED
    BY <2>1, <2>2 DEF TimedInv, TimesInv
<1> QED
  BY <1>1, TimedInvariant, PTL

(***************************************************************************)
(* In every state in which identifiers tell readings apart, the booking    *)
(* service has the trade of an execution until its reading repeats, and    *)
(* from then on the later one: nothing else loses a trade.                 *)
(***************************************************************************)
THEOREM TradesKeptWhileIdsTellReadings ==
  ASSUME ClockIds \subseteq Ids
  PROVE  TimedSpec => [](IdsTellReadings => TradeKeptUntilReadingRepeats)
<1>1. TimedInv /\ IdsTellReadings => TradeKeptUntilReadingRepeats
  <2> SUFFICES ASSUME TimedInv, IdsTellReadings, NEW i \in 1 .. tradeCount
               PROVE  \E j \in i .. tradeCount :
                        /\ SameReading(times[i], times[j])
                        /\ \A n \in j + 1 .. tradeCount : ~ SameReading(times[i], times[n])
                        /\ trades[AlgoTrade(i).tradeId] = AlgoTrade(j)
    BY DEF TradeKeptUntilReadingRepeats
  <2> DEFINE id == executed[i].orderId
  <2>1. BookedInv /\ tradeCount \in Nat /\ 1 .. tradeCount \subseteq DOMAIN executed
    BY DEF TimedInv, BookedInv, HistoryTypeOK, BookingTypeOK
  <2>2. PICK j \in i .. tradeCount :
          IsLastNamed(executed, tradeCount, j, id) /\ trades[id] = TradeOf(executed[j], j)
    BY DEF TimedInv, TradesKept, Keeps
  <2>3. \A n \in j .. tradeCount : n \in 1 .. tradeCount
    BY <2>1, <2>2
  <2>4. \A n \in 1 .. tradeCount : id = executed[n].orderId <=> SameReading(times[i], times[n])
    BY <2>1 DEF IdsTellReadings
  <2>5. SameReading(times[i], times[j])
    BY <2>2, <2>3, <2>4 DEF IsLastNamed
  <2>6. \A n \in j + 1 .. tradeCount : ~ SameReading(times[i], times[n])
    <3>1. \A n \in j + 1 .. tradeCount : n \in 1 .. tradeCount /\ executed[n].orderId # id
      BY <2>1, <2>2 DEF IsLastNamed
    <3> QED
      BY <2>4, <3>1
  <2>7. AlgoTrade(i).tradeId = id /\ AlgoTrade(j) = TradeOf(executed[j], j)
    <3>1. AlgoTrade(i) = TradeOf(executed[i], i) /\ AlgoTrade(j) = TradeOf(executed[j], j)
      BY <2>1, <2>3, AlgoTradeIsBooked
    <3> QED
      BY <3>1 DEF TradeOf, MakeTrade
  <2> QED
    BY <2>2, <2>5, <2>6, <2>7
<1> QED
  BY <1>1, TimedInvariant, PTL

(***************************************************************************)
(* As long as the clock has not reached 2038 the identifiers of a run tell *)
(* its readings apart, and agree on the same reading: whatever the times   *)
(* of its executions, an identifier comes again exactly when the reading   *)
(* of the clock does.                                                      *)
(***************************************************************************)
LEMMA ReadingsToldApart ==
  ASSUME 1000 <= Epoch, TimedInv, Second(now) < m
  PROVE  IdsTellReadings
<1> SUFFICES ASSUME NEW i \in DOMAIN executed, NEW j \in DOMAIN executed
             PROVE  executed[i].orderId = executed[j].orderId
                      <=> SameReading(times[i], times[j])
  BY DEF IdsTellReadings
<1>1. /\ executed[i].orderId = GenerateId(times[i]) /\ times[i] \in Nat
      /\ executed[j].orderId = GenerateId(times[j]) /\ times[j] \in Nat
  <2>1. i \in 1 .. Len(executed) /\ j \in 1 .. Len(executed)
    BY DEF TimedInv, BookedInv, HistoryTypeOK
  <2> HIDE DEF GenerateId
  <2> QED
    BY <2>1 DEF TimedInv, TimesInv
<1>2. ASSUME NEW k \in DOMAIN executed PROVE SecondsAreSeeds(times[k])
  <2>1. times[k] \in Nat /\ now \in Nat /\ times[k] <= now
    BY DEF TimedInv, TimesInv, BookedInv, HistoryTypeOK
  <2> QED
    BY <2>1, EpochAssumption, SMT DEF SecondsAreSeeds, Second, m
<1> HIDE DEF GenerateId
<1>3. ASSUME executed[i].orderId = executed[j].orderId
      PROVE  SameReading(times[i], times[j])
  <2>1. Seed(times[i]) = Seed(times[j])
    BY <1>1, <1>3, IdsTellSeeds
  <2> QED
    BY <1>1, <1>2, <2>1, SeedTellsReading
<1>4. ASSUME SameReading(times[i], times[j])
      PROVE  executed[i].orderId = executed[j].orderId
  BY <1>1, <1>4, ReadingMakesId
<1> QED
  BY <1>3, <1>4

THEOREM IdsAlwaysTellReadings ==
  ASSUME ClockIds \subseteq Ids, 1000 <= Epoch
  PROVE  TimedSpec => [](Second(now) < m => IdsTellReadings)
<1>1. TimedInv => (Second(now) < m => IdsTellReadings)
  BY ReadingsToldApart
<1> QED
  BY <1>1, TimedInvariant, PTL

(***************************************************************************)
(* Until then, the booking service has the trade of an execution until the *)
(* reading of its order repeats, and after that the later trade.           *)
(***************************************************************************)
THEOREM TradesAlwaysKeptUntilReadingRepeats ==
  ASSUME ClockIds \subseteq Ids, 1000 <= Epoch
  PROVE  TimedSpec => [](Second(now) < m => TradeKeptUntilReadingRepeats)
BY IdsAlwaysTellReadings, TradesKeptWhileIdsTellReadings, PTL

=============================================================================
