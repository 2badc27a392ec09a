-------------------------------- MODULE Gui ---------------------------------
(***************************************************************************)
(* The GUI service and its throttle (guiservice.hpp), fed by the pricing   *)
(* service (main.cpp:54).  GetMillisecond returns the milliseconds within  *)
(* the current second, so the service tells how long ago it last showed a  *)
(* price from two readings of a clock that wraps every second.             *)
(*                                                                         *)
(* One action is one price update with everything GUIService::OnMessage    *)
(* does for it.  Time is that of the system clock in milliseconds; it does *)
(* not run backwards.                                                      *)
(***************************************************************************)
EXTENDS Integers, Sequences, Maps

CONSTANTS
  Products,
  PriceValues,
  throttle,     \* 300 in the constructor
  StartTimes,   \* when the program may start, within a second
  Delays,       \* time that may pass between two updates
  MaxTime       \* bound: when the last update arrives

ASSUME ThrottleAssumption == throttle \in Nat
ASSUME StartAssumption == StartTimes \subseteq Nat
ASSUME DelayAssumption == Delays \subseteq Nat

Second == 1000   \* the clock GetMillisecond reads wraps here

\* A line of gui.txt, with the time it was written.
Line == [time : Nat, product : Products, price : PriceValues]

VARIABLES
  now,        \* the system clock
  guis,       \* the service's prices, keyed on product
  millisec,   \* the reading stored when a price was last shown
  shown       \* the lines of gui.txt, oldest first

guiVars == <<now, guis, millisec, shown>>

GuiInit ==
  /\ now \in StartTimes
  /\ guis = EmptyMap
  /\ millisec = 0
  /\ shown = <<>>

GetMillisecond(time) == time % Second

\* Mutant: the reading is moved past the stored one by one second at most.
CaughtUpOnce(reading) == IF reading < millisec THEN reading + Second ELSE reading

\* Mutant: the loop runs its body once before it looks.
CaughtUpOneMore(reading) ==
  reading + Second +
    (IF reading + Second >= millisec THEN 0
     ELSE millisec - reading - Second + ((reading - millisec) % Second))

\* The loop that adds seconds to a reading until it is not before millisec.
CaughtUp(reading) ==
  IF reading >= millisec THEN reading
  ELSE millisec + ((reading - millisec) % Second)

\* Mutant: the distance between the two readings, whichever is ahead.
ElapsedAbsolute(time) ==
  LET reading == GetMillisecond(time)
  IN  IF reading >= millisec % Second THEN reading - (millisec % Second)
                                      ELSE (millisec % Second) - reading

\* _millisecNow - _millisec, as Publish computes it.
Elapsed(time) == CaughtUp(GetMillisecond(time)) - millisec

\* GUIConnector::Publish.
Publish(product, price, time) ==
  IF Elapsed(time) >= throttle
  THEN /\ millisec' = CaughtUp(GetMillisecond(time))
       /\ shown' = Append(shown, [time |-> time, product |-> product, price |-> price])
  ELSE UNCHANGED <<millisec, shown>>

\* GUIService::OnMessage, for an update that arrives after a delay.
Update(product, price, delay) ==
  /\ now + delay <= MaxTime
  /\ now' = now + delay
  /\ guis' = Put(guis, product, price)
  /\ Publish(product, price, now')

\* The price feed is at its end.
NoMoreUpdates == UNCHANGED guiVars

GuiNext ==
  \/ \E product \in Products, price \in PriceValues, delay \in Delays :
       Update(product, price, delay)
  \/ NoMoreUpdates

GuiSpec == GuiInit /\ [][GuiNext]_guiVars

-----------------------------------------------------------------------------
\* Types; in particular the reading kept never runs ahead of the clock, however
\* often seconds were added to it.
GuiTypeOK ==
  /\ now \in Nat
  /\ IsMap(guis, Products, PriceValues)
  /\ millisec \in 0 .. now
  /\ shown \in Seq(Line)

\* When a price was last shown; the service's clock starts at zero.
LastShown == IF shown = <<>> THEN 0 ELSE shown[Len(shown)].time

(***************************************************************************)
(* Two lines of gui.txt are never less than the throttle apart in real     *)
(* time, although the service only sees a clock that wraps every second.   *)
(***************************************************************************)
ThrottleHolds ==
  \A i, j \in DOMAIN shown : i < j => shown[j].time - shown[i].time >= throttle

(***************************************************************************)
(* An update is dropped exactly when the real time since the last line,    *)
(* modulo one second, is short of the throttle: the readings kept in       *)
(* millisec never drift from the clock, over any number of seconds.        *)
(***************************************************************************)
DroppedModuloSecond ==
  [][shown' = shown <=> (now' - LastShown) % Second < throttle]_guiVars

(***************************************************************************)
(* "The service includes a throttling mechanism to control the frequency   *)
(* of GUI updates, essential for real-time display" (README.md:53): an     *)
(* update that arrives when the throttle has run out since the last line   *)
(* is shown.                                                               *)
(***************************************************************************)
ShownWhenThrottleRunsOut ==
  [][(shown # <<>> /\ now' - LastShown >= throttle) => shown' # shown]_guiVars

=============================================================================
