----------------------------- MODULE Gui_proofs -----------------------------
(***************************************************************************)
(* The throttle of the GUI service, for every throttle, every start and    *)
(* every spacing of the updates.                                           *)
(*                                                                         *)
(* The service never knows the time: it keeps millisec, which is the time  *)
(* of the last line less a whole number of seconds.  That congruence is    *)
(* what makes the distance of two clock readings a lower bound on the      *)
(* distance of two times, and it is not part of the property.              *)
(***************************************************************************)
EXTENDS Gui, TLAPS

\* millisec is the last line's time up to whole seconds, and never ahead.
ReadingInStep ==
  /\ millisec \in Nat /\ LastShown \in Nat /\ now \in Nat
  /\ millisec <= LastShown /\ LastShown <= now
  /\ (LastShown - millisec) % Second = 0

\* The lines are in the order of their times, the last being LastShown.
LinesInOrder ==
  /\ shown \in Seq(Line)
  /\ \A i \in DOMAIN shown : shown[i].time <= LastShown

GuiInv ==
  /\ IsMap(guis, Products, PriceValues)
  /\ ReadingInStep
  /\ LinesInOrder
  /\ ThrottleHolds

-----------------------------------------------------------------------------
\* Storing a price keeps the map of prices a map of prices.
LEMMA PutPrice ==
  ASSUME NEW map, IsMap(map, Products, PriceValues),
         NEW p \in Products, NEW v \in PriceValues
  PROVE  IsMap(Put(map, p, v), Products, PriceValues)
BY DEF IsMap, Put

\* What a reading that is moved forward to a time keeps of that time.
LEMMA ReadingMoved ==
  ASSUME NEW m \in Nat, NEW time \in Nat, m <= time
  PROVE  (time - (m + ((time - m) % 1000))) % 1000 = 0
<1> DEFINE d == time - m
<1>1. d \in Nat
  OBVIOUS
<1>2. (d - (d % 1000)) % 1000 = 0
  BY <1>1
<1>3. time - (m + (d % 1000)) = d - (d % 1000)
  BY <1>1
<1> QED  BY <1>2, <1>3

\* The distance Publish computes is the real one modulo a second, measured
\* from millisec or, what is the same, from the last line.
LEMMA ElapsedIsModulo ==
  ASSUME ReadingInStep, NEW time \in Nat, now <= time
  PROVE  /\ Elapsed(time) = (time - millisec) % Second
         /\ Elapsed(time) = (time - LastShown) % Second
         /\ Elapsed(time) \in 0 .. time - LastShown
         /\ CaughtUp(GetMillisecond(time)) = millisec + Elapsed(time)
         /\ Elapsed(time) >= throttle => time - LastShown >= throttle
<1> DEFINE reading == time % 1000
<1>1. /\ millisec \in Nat /\ LastShown \in Nat /\ now \in Nat
      /\ millisec <= LastShown /\ LastShown <= time
      /\ (LastShown - millisec) % 1000 = 0
  BY DEF ReadingInStep, Second
<1>2. reading \in 0 .. 999 /\ reading % 1000 = reading
  OBVIOUS
<1>3. Elapsed(time) = (time - millisec) % 1000
  <2>1. CASE reading >= millisec
    <3>1. Elapsed(time) = reading - millisec
      BY <1>1, <1>2, <2>1 DEF Elapsed, CaughtUp, GetMillisecond, Second
    <3>2. (time - millisec) % 1000 = reading - millisec
      BY <1>1, <1>2, <2>1
    <3> QED  BY <3>1, <3>2
  <2>2. CASE ~ (reading >= millisec)
    <3>1. Elapsed(time) = (reading - millisec) % 1000
      BY <1>1, <1>2, <2>2 DEF Elapsed, CaughtUp, GetMillisecond, Second
    <3>2. (time - millisec) % 1000 = (reading - millisec) % 1000
      BY <1>1, <1>2
    <3> QED  BY <3>1, <3>2
  <2> QED  BY <2>1, <2>2
<1>4. (time - millisec) % 1000 = (time - LastShown) % 1000
  BY <1>1
<1>5. (time - LastShown) % 1000 \in 0 .. time - LastShown
  BY <1>1
<1>6. CaughtUp(GetMillisecond(time)) \in Int
  BY <1>1, <1>2 DEF CaughtUp, GetMillisecond, Second
<1>7. CaughtUp(GetMillisecond(time)) = millisec + Elapsed(time)
  BY <1>1, <1>6 DEF Elapsed
<1>8. Elapsed(time) >= throttle => time - LastShown >= throttle
  BY <1>1, <1>3, <1>4, <1>5, ThrottleAssumption
<1> QED  BY <1>3, <1>4, <1>5, <1>7, <1>8 DEF Second

-----------------------------------------------------------------------------
LEMMA InitInv ==
  GuiInit => GuiInv
<1> SUFFICES ASSUME GuiInit PROVE GuiInv
  OBVIOUS
<1>1. now \in Nat /\ guis = EmptyMap /\ millisec = 0 /\ shown = <<>>
  BY StartAssumption DEF GuiInit
<1>2. LastShown = 0
  BY <1>1 DEF LastShown
<1>3. IsMap(guis, Products, PriceValues)
  BY <1>1 DEF IsMap, EmptyMap
<1>4. ReadingInStep
  BY <1>1, <1>2 DEF ReadingInStep, Second
<1>5. LinesInOrder /\ ThrottleHolds
  BY <1>1 DEF LinesInOrder, ThrottleHolds
<1> QED  BY <1>3, <1>4, <1>5 DEF GuiInv

\* What a step does to the lines and to millisec.
LEMMA UpdateStep ==
  ASSUME GuiInv, NEW product \in Products, NEW price \in PriceValues,
         NEW delay \in Delays, Update(product, price, delay)
  PROVE  GuiInv' /\ (shown' = shown <=> (now' - LastShown) % Second < throttle)
<1> DEFINE line == [time |-> now', product |-> product, price |-> price]
<1>1. /\ IsMap(guis, Products, PriceValues) /\ ReadingInStep /\ LinesInOrder
      /\ ThrottleHolds
  BY DEF GuiInv
<1>2. now' \in Nat /\ now <= now' /\ throttle \in Nat
  BY <1>1, DelayAssumption, ThrottleAssumption DEF Update, ReadingInStep
<1>3. /\ Elapsed(now') = (now' - millisec) % Second
      /\ Elapsed(now') = (now' - LastShown) % Second
      /\ Elapsed(now') \in 0 .. now' - LastShown
      /\ CaughtUp(GetMillisecond(now')) = millisec + Elapsed(now')
      /\ Elapsed(now') >= throttle => now' - LastShown >= throttle
  BY <1>1, <1>2, ElapsedIsModulo
<1>4. /\ now' \in Nat /\ LastShown \in Nat /\ millisec \in Nat
      /\ millisec <= LastShown /\ LastShown <= now' /\ throttle \in Nat
  BY <1>1, <1>2 DEF ReadingInStep
<1>5. IsMap(guis, Products, PriceValues)'
  BY <1>1, PutPrice DEF Update, IsMap
<1>6. CASE Elapsed(now') >= throttle
  <2>1. /\ millisec' = millisec + Elapsed(now')
        /\ shown' = Append(shown, line)
    BY <1>3, <1>6 DEF Update, Publish
  <2>2. /\ shown \in Seq(Line)
        /\ \A i \in DOMAIN shown : shown[i].time <= LastShown
        /\ millisec \in Nat /\ LastShown \in Nat /\ now \in Nat
        /\ millisec <= LastShown /\ LastShown <= now
        /\ (LastShown - millisec) % 1000 = 0
    BY <1>1 DEF LinesInOrder, ReadingInStep, Second
  <2>3. line \in Line
    BY <1>2 DEF Line
  <2>4. /\ Len(shown') = Len(shown) + 1 /\ Len(shown) \in Nat
        /\ shown'[Len(shown) + 1] = line
        /\ \A i \in 1 .. Len(shown) : shown'[i] = shown[i]
        /\ shown' \in Seq(Line)
        /\ DOMAIN shown = 1 .. Len(shown) /\ DOMAIN shown' = 1 .. Len(shown')
    BY <2>1, <2>2, <2>3
  <2>5. \A i \in 1 .. Len(shown) :
           shown[i].time \in Nat /\ shown[i].time <= LastShown
    <3> SUFFICES ASSUME NEW i \in 1 .. Len(shown)
                 PROVE  shown[i].time \in Nat /\ shown[i].time <= LastShown
      OBVIOUS
    <3>1. shown[i] \in Line
      BY <2>2
    <3> QED  BY <2>2, <2>4, <3>1 DEF Line
  <2>6. LastShown' = now'
    BY <2>4 DEF LastShown
  <2>7. ReadingInStep'
    <3>1. millisec' \in Nat /\ millisec' <= now'
      BY <1>2, <1>3, <2>1, <2>2
    <3>2. (now' - millisec') % 1000 = 0
      <4>1. millisec <= now'
        BY <1>4
      <4>2. millisec' = millisec + ((now' - millisec) % 1000)
        BY <1>3, <2>1 DEF Second
      <4> QED  BY <1>4, <4>1, <4>2, ReadingMoved
    <3>3. (LastShown' - millisec') % 1000 = 0
      BY <2>6, <3>2
    <3>4. LastShown' \in Nat /\ millisec' <= LastShown' /\ LastShown' <= now'
      BY <1>2, <2>6, <3>1
    <3> QED  BY <1>2, <3>1, <3>3, <3>4 DEF ReadingInStep, Second
  <2>8. LinesInOrder'
    BY <1>2, <2>2, <2>4, <2>6, <2>5 DEF LinesInOrder
  <2>9. ThrottleHolds'
    <3> SUFFICES ASSUME NEW i \in DOMAIN shown', NEW j \in DOMAIN shown', i < j
                 PROVE  shown'[j].time - shown'[i].time >= throttle
      BY DEF ThrottleHolds
    <3>1. CASE j <= Len(shown)
      <4>1. shown'[j] = shown[j] /\ shown'[i] = shown[i]
            /\ i \in DOMAIN shown /\ j \in DOMAIN shown
        BY <2>4, <3>1
      <4> QED  BY <1>1, <4>1 DEF ThrottleHolds
    <3>2. CASE j = Len(shown) + 1
      <4>1. shown'[j].time = now' /\ shown'[i] = shown[i] /\ i \in DOMAIN shown
        BY <2>4, <3>2
      <4>2. shown[i].time \in Nat /\ shown[i].time <= LastShown
        BY <2>4, <2>5, <4>1
      <4>3. now' - LastShown >= throttle
        BY <1>3, <1>6
      <4> QED  BY <1>2, <2>2, <4>1, <4>2, <4>3
    <3> QED  BY <2>4, <3>1, <3>2
  <2>10. shown' # shown
    BY <2>4
  <2> QED  BY <1>2, <1>3, <1>5, <1>6, <2>2, <2>7, <2>8, <2>9, <2>10 DEF GuiInv
<1>7. CASE ~ (Elapsed(now') >= throttle)
  <2>1. millisec' = millisec /\ shown' = shown
    BY <1>7 DEF Update, Publish
  <2>2. LastShown' = LastShown
    BY <2>1 DEF LastShown
  <2>3. ReadingInStep'
    BY <1>1, <1>2, <2>1, <2>2 DEF ReadingInStep
  <2>4. LinesInOrder' /\ ThrottleHolds'
    BY <1>1, <2>1, <2>2 DEF LinesInOrder, ThrottleHolds
  <2>5. Elapsed(now') < throttle
    BY <1>1, <1>2, <1>3, <1>7 DEF ReadingInStep
  <2> QED  BY <1>3, <1>5, <2>1, <2>3, <2>4, <2>5 DEF GuiInv
<1> QED  BY <1>6, <1>7

LEMMA NextInv ==
  GuiInv /\ [GuiNext]_guiVars => GuiInv'
<1> SUFFICES ASSUME GuiInv, [GuiNext]_guiVars PROVE GuiInv'
  OBVIOUS
<1>1. CASE \E product \in Products, price \in PriceValues, delay \in Delays :
             Update(product, price, delay)
  BY <1>1, UpdateStep
<1>2. CASE UNCHANGED guiVars
  BY <1>2 DEF guiVars, GuiInv, ReadingInStep, LinesInOrder, ThrottleHolds,
              LastShown
<1> QED  BY <1>1, <1>2 DEF GuiNext, NoMoreUpdates

\* The invariant holds throughout.
LEMMA InvHolds == GuiSpec => []GuiInv
BY InitInv, NextInv, PTL DEF GuiSpec

-----------------------------------------------------------------------------
\* Type correctness; in particular millisec never runs ahead of the clock.
THEOREM GuiTypeCorrect == GuiSpec => []GuiTypeOK
<1>1. GuiInv => GuiTypeOK
  BY DEF GuiInv, ReadingInStep, LinesInOrder, GuiTypeOK
<1> QED  BY <1>1, InvHolds, PTL

\* Two lines of gui.txt are at least the throttle apart in real time, even
\* for a throttle longer than the second the clock wraps in.
THEOREM ThrottleAlwaysHolds == GuiSpec => []ThrottleHolds
<1>1. GuiInv => ThrottleHolds
  BY DEF GuiInv
<1> QED  BY <1>1, InvHolds, PTL

\* An update is dropped exactly when it is short of the throttle modulo a
\* second: the readings do not drift over any number of lines and seconds.
THEOREM DropsAreModuloSecond == GuiSpec => DroppedModuloSecond
<1>1. GuiInv /\ [GuiNext]_guiVars
        => [shown' = shown <=> (now' - LastShown) % Second < throttle]_guiVars
  BY UpdateStep DEF GuiNext, NoMoreUpdates
<1>2. GuiSpec => [][GuiNext]_guiVars
  BY PTL DEF GuiSpec
<1> QED  BY <1>1, <1>2, InvHolds, PTL DEF DroppedModuloSecond

=============================================================================
