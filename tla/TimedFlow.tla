----------------------------- MODULE TimedFlow ------------------------------
(***************************************************************************)
(* ExecutionFlow with a clock: order identifiers come from GenerateId,     *)
(* which knows of the time only the millisecond within the second, and the *)
(* trade booking service is keyed on them.                                 *)
(***************************************************************************)
EXTENDS ExecutionFlow, Ids

CONSTANTS
  StartTimes,  \* times at which the program may be started
  Delays       \* how long after one execution the next may come

ASSUME TimeAssumption == StartTimes \subseteq Nat /\ Delays \subseteq Nat

VARIABLES
  now,    \* the time of the last execution
  times   \* history: the times at which the orders of this run were made

timedVars == <<bookingVars, now, times>>

TimedInit == BookingInit /\ now \in StartTimes /\ times = <<>>

\* AlgoExecuteOrder makes the identifier, and the order is executed.
TimedExecutes ==
  \E delay \in Delays :
    /\ now' = now + delay
    /\ times' = Append(times, now')
    /\ \E o \in OrdersNamed({GenerateId(now')}) : AlgoExecutes(o)

\* Any other step; the history is that of one run.
TimedOther ==
  /\ OtherStep
  /\ UNCHANGED now
  /\ times' = IF executed' = <<>> THEN <<>> ELSE times

TimedNext == TimedExecutes \/ TimedOther

TimedSpec == TimedInit /\ [][TimedNext]_timedVars

-----------------------------------------------------------------------------
(***************************************************************************)
(* An identifier is as unique as the reading it was made from and no more: *)
(* two executions have the same one if they were made in the same          *)
(* millisecond, or in the same millisecond of two different seconds, and   *)
(* twelve characters of any other reading never agree.                     *)
(***************************************************************************)
IdsTellReadings ==
  \A i, j \in DOMAIN executed :
    executed[i].orderId = executed[j].orderId <=> SameReading(times[i], times[j])

(***************************************************************************)
(* The trade booking service can be asked for the trade of an execution    *)
(* until the reading repeats, and from then on vends the later trade under *)
(* the earlier one's identifier; a trade is lost in no other way.          *)
(***************************************************************************)
TradeKeptUntilReadingRepeats ==
  \A i \in 1 .. tradeCount :
    \E j \in i .. tradeCount :
      /\ SameReading(times[i], times[j])
      /\ \A n \in j + 1 .. tradeCount : ~ SameReading(times[i], times[n])
      /\ trades[AlgoTrade(i).tradeId] = AlgoTrade(j)

=============================================================================
