------------------------ MODULE TradingSystem_proofs ------------------------
(***************************************************************************)
(* Theorems about TradingSystem, for every number of lines and of runs.    *)
(*                                                                         *)
(* They rest on the calls that may be pending: for one line read, the      *)
(* handlers run one after the other through stages, each named for the     *)
(* listener that is called next; in "quote", "answer" and "last" that is   *)
(* the historical inquiry service.                                         *)
(***************************************************************************)
EXTENDS TradingSystem, SequenceTheorems, TLAPS

C(listener) == [to |-> listener, event |-> "add"]

ToldOfInquiry == {"quote", "answer", "last"}

\* The call that is made in a stage.
First(s) ==
  [to    |-> IF s \in ToldOfInquiry THEN "historicalInquiry" ELSE s,
   event |-> IF s = "historicalRisk" THEN "update" ELSE "add"]

\* The call of the execution's last listener, made for marketdata.txt only.
ExecutionBehind(p) == IF p = 3 THEN <<C("historicalExecution")>> ELSE <<>>

\* The calls that wait behind it.
Behind(p, s) ==
  CASE s \in {"algoStreaming", "streaming", "historicalStreaming"} -> <<C("gui")>>
    [] s \in {"tradeBooking", "position", "historicalPosition"} -> ExecutionBehind(p)
    [] s \in {"risk", "historicalRisk"} -> <<C("historicalPosition")>> \o ExecutionBehind(p)
    [] s = "quote" -> <<C("inquiryConnector")>>
    [] s = "answer" -> <<C("historicalInquiry")>>
    [] OTHER -> <<>>

StagesOf(p) ==
  CASE p = 1 -> {"algoStreaming", "streaming", "historicalStreaming", "gui"}
    [] p = 2 -> {"position", "risk", "historicalRisk", "historicalPosition"}
    [] p = 3 -> {"algoExecution", "execution", "tradeBooking", "position", "risk",
                 "historicalRisk", "historicalPosition", "historicalExecution"}
    [] p = 4 -> {"quote", "inquiryConnector", "answer", "last"}

FirstStage == <<"algoStreaming", "position", "algoExecution", "quote">>

NextStages(p, s) ==
  CASE s = "algoStreaming"       -> {"streaming"}
    [] s = "streaming"           -> {"historicalStreaming"}
    [] s = "historicalStreaming" -> {"gui"}
    [] s = "algoExecution"       -> {"execution", "returned"}
    [] s = "execution"           -> {"tradeBooking"}
    [] s = "tradeBooking"        -> {"position"}
    [] s = "position"            -> {"risk"}
    [] s = "risk"                -> {"historicalRisk"}
    [] s = "historicalRisk"      -> {"historicalPosition"}
    [] s = "historicalPosition"  -> IF p = 3 THEN {"historicalExecution"} ELSE {"returned"}
    [] s = "quote"               -> {"inquiryConnector"}
    [] s = "inquiryConnector"    -> {"answer"}
    [] s = "answer"              -> {"last"}
    [] OTHER                     -> {"returned"}

At(s) ==
  IF s = "returned" THEN pending = <<>>
  ELSE phase \in Phase /\ s \in StagesOf(phase) /\ pending = <<First(s)>> \o Behind(phase, s)

-----------------------------------------------------------------------------
(* The stages. *)

LEMMA Phases == Phase = 1 .. 4 /\ Ended = 5
BY DEF Phase, Ended, phases

LEMMA Journals ==
  Journal = {"historicalStreaming", "historicalExecution", "historicalPosition",
             "historicalRisk", "historicalInquiry", "gui"}
BY DEF Journal, Historical

Listener ==
  {"pricing", "algoStreaming", "streaming", "marketData", "algoExecution", "execution",
   "tradeBooking", "position", "risk", "inquiry", "historicalStreaming",
   "historicalExecution", "historicalPosition", "historicalRisk", "historicalInquiry",
   "gui", "inquiryConnector"}

LEMMA CallsAre == Call = [to : Listener, event : {"add", "update"}]
<1>1. DOMAIN listeners \cup Historical \cup {"gui", "inquiryConnector"} = Listener
  BY DEF listeners, Historical, Listener
<1> QED
  BY <1>1 DEF Call, Event

LEMMA CallTypes ==
  /\ \A l \in Listener : C(l) \in Call
  /\ \A p \in Phase : \A s \in StagesOf(p) : First(s) \in Call /\ Behind(p, s) \in Seq(Call)
<1>1. \A l \in Listener : C(l) \in Call
  BY CallsAre DEF C
<1>2. ASSUME NEW p \in Phase, NEW s \in StagesOf(p)
      PROVE  First(s) \in Call
  BY <1>2, CallsAre, Phases DEF First, StagesOf, Listener, ToldOfInquiry
<1>3. ASSUME NEW p \in Phase, NEW s \in StagesOf(p)
      PROVE  Behind(p, s) \in Seq(Call)
  <2>1. \A l \in Listener : <<C(l)>> \in Seq(Call)
    BY <1>1
  <2>2. ExecutionBehind(p) \in Seq(Call)
    BY <2>1 DEF ExecutionBehind, Listener
  <2>3. <<C("historicalPosition")>> \o ExecutionBehind(p) \in Seq(Call)
    <3> DEFINE first == <<C("historicalPosition")>>
               rest  == ExecutionBehind(p)
    <3>1. first \in Seq(Call) /\ rest \in Seq(Call)
      BY <2>1, <2>2 DEF Listener
    <3> HIDE DEF first, rest
    <3>2. first \o rest \in Seq(Call)
      BY <3>1
    <3> QED
      BY <3>2 DEF first, rest
  <2>4. /\ <<C("gui")>> \in Seq(Call) /\ <<C("inquiryConnector")>> \in Seq(Call)
        /\ <<C("historicalInquiry")>> \in Seq(Call) /\ <<>> \in Seq(Call)
    BY <2>1 DEF Listener
  <2> HIDE DEF C, ExecutionBehind
  <2> QED
    BY <2>2, <2>3, <2>4, Zenon DEF Behind
<1> QED
  BY <1>1, <1>2, <1>3

LEMMA Concat ==
  ASSUME NEW b \in Call, NEW c \in Call, NEW rest \in Seq(Call)
  PROVE  /\ <<b>> \o rest # <<>> /\ <<b>> \o rest \in Seq(Call)
         /\ Head(<<b>> \o rest) = b /\ Tail(<<b>> \o rest) = rest
         /\ <<>> \o rest = rest /\ <<b>> \o <<>> = <<b>>
         /\ <<b>> \o <<c>> = <<b, c>>
         /\ <<b, c>> \o rest = <<b>> \o (<<c>> \o rest)
         /\ <<b, c>> \o <<>> = <<b>> \o <<c>>
         /\ (<<b>> \o <<c>>) \o <<>> = <<b>> \o <<c>>
<1>1. <<b>> \in Seq(Call) /\ <<c>> \in Seq(Call) /\ <<b, c>> \in Seq(Call)
  OBVIOUS
<1>2. <<b>> \o <<c>> = <<b, c>>
  <2> DEFINE s == <<b>> \o <<c>>
             t == <<b, c>>
  <2>1. s \in Seq(Call) /\ Len(s) = 2 /\ Len(t) = 2 /\ t \in Seq(Call)
    BY <1>1
  <2>2. s[1] = t[1] /\ s[2] = t[2]
    BY <1>1
  <2>3. \A i \in 1 .. 2 : i = 1 \/ i = 2
    OBVIOUS
  <2> HIDE DEF s, t
  <2>4. s = t
    BY <2>1, <2>2, <2>3, SeqEqual
  <2> QED
    BY <2>4 DEF s, t
<1>3. (<<b>> \o <<c>>) \o rest = <<b>> \o (<<c>> \o rest)
  BY <1>1, ConcatAssociative
<1>4. <<b, c>> \o rest = <<b>> \o (<<c>> \o rest)
  BY <1>2, <1>3
<1>5. /\ <<b>> \o rest # <<>> /\ <<b>> \o rest \in Seq(Call)
      /\ Head(<<b>> \o rest) = b /\ Tail(<<b>> \o rest) = rest
      /\ <<>> \o rest = rest /\ <<b>> \o <<>> = <<b>>
  OBVIOUS
<1>6. <<b, c>> \o <<>> = <<b, c>>
  BY <1>1
<1> QED
  BY <1>2, <1>4, <1>5, <1>6

LEMMA StageCalls ==
  ASSUME NEW p \in Phase, NEW s \in StagesOf(p)
  PROVE  /\ <<First(s)>> \o Behind(p, s) \in Seq(Call)
         /\ <<First(s)>> \o Behind(p, s) # <<>>
<1> DEFINE b == First(s)
           rest == Behind(p, s)
<1>1. b \in Call /\ rest \in Seq(Call)
  BY CallTypes
<1> HIDE DEF b, rest
<1>2. <<b>> \o rest \in Seq(Call) /\ <<b>> \o rest # <<>>
  BY <1>1, Concat
<1> QED
  BY <1>2 DEF b, rest

\* The sequence of calls that a stage stands for.
LEMMA AtFacts ==
  ASSUME NEW s, At(s)
  PROVE  /\ pending = <<>> <=> s = "returned"
         /\ pending \in Seq(Call)
         /\ s # "returned" =>
              /\ phase \in Phase /\ s \in StagesOf(phase)
              /\ Head(pending) = First(s) /\ Tail(pending) = Behind(phase, s)
              /\ Behind(phase, s) \in Seq(Call)
<1>1. CASE s = "returned"
  BY <1>1 DEF At
<1>2. CASE s # "returned"
  <2>1. phase \in Phase /\ s \in StagesOf(phase) /\ pending = <<First(s)>> \o Behind(phase, s)
    BY <1>2 DEF At
  <2>2. First(s) \in Call /\ Behind(phase, s) \in Seq(Call)
    BY <2>1, CallTypes
  <2> DEFINE b == First(s)
             rest == Behind(phase, s)
  <2> HIDE DEF b, rest
  <2>3. pending = <<b>> \o rest /\ b \in Call /\ rest \in Seq(Call)
    BY <2>1, <2>2 DEF b, rest
  <2>4. pending # <<>> /\ pending \in Seq(Call) /\ Head(pending) = b /\ Tail(pending) = rest
    BY <2>3, Concat
  <2> QED
    BY <1>2, <2>1, <2>2, <2>4 DEF b, rest
<1> QED
  BY <1>1, <1>2

\* A stage belongs to its phase.
LEMMA StageOfPhase ==
  ASSUME NEW p \in Phase
  PROVE  /\ "algoStreaming" \in StagesOf(p) <=> p = 1
         /\ "streaming" \in StagesOf(p) <=> p = 1
         /\ "historicalStreaming" \in StagesOf(p) <=> p = 1
         /\ "gui" \in StagesOf(p) <=> p = 1
         /\ "position" \in StagesOf(p) <=> p \in {2, 3}
         /\ "risk" \in StagesOf(p) <=> p \in {2, 3}
         /\ "historicalRisk" \in StagesOf(p) <=> p \in {2, 3}
         /\ "historicalPosition" \in StagesOf(p) <=> p \in {2, 3}
         /\ "algoExecution" \in StagesOf(p) <=> p = 3
         /\ "execution" \in StagesOf(p) <=> p = 3
         /\ "tradeBooking" \in StagesOf(p) <=> p = 3
         /\ "historicalExecution" \in StagesOf(p) <=> p = 3
         /\ "quote" \in StagesOf(p) <=> p = 4
         /\ "inquiryConnector" \in StagesOf(p) <=> p = 4
         /\ "answer" \in StagesOf(p) <=> p = 4
         /\ "last" \in StagesOf(p) <=> p = 4
         /\ "returned" \notin StagesOf(p)
         /\ "historicalInquiry" \notin StagesOf(p)
<1>1. CASE p = 1
  BY <1>1 DEF StagesOf
<1>2. CASE p = 2
  BY <1>2 DEF StagesOf
<1>3. CASE p = 3
  BY <1>3 DEF StagesOf
<1>4. CASE p = 4
  BY <1>4 DEF StagesOf
<1> QED
  BY <1>1, <1>2, <1>3, <1>4, Phases

\* What waits behind each stage.
LEMMA BehindIs ==
  ASSUME NEW p
  PROVE  /\ \A s \in {"algoStreaming", "streaming", "historicalStreaming"} :
              Behind(p, s) = <<C("gui")>>
         /\ \A s \in {"tradeBooking", "position", "historicalPosition"} :
              Behind(p, s) = ExecutionBehind(p)
         /\ \A s \in {"risk", "historicalRisk"} :
              Behind(p, s) = <<C("historicalPosition")>> \o ExecutionBehind(p)
         /\ Behind(p, "quote") = <<C("inquiryConnector")>>
         /\ Behind(p, "answer") = <<C("historicalInquiry")>>
         /\ \A s \in {"gui", "algoExecution", "execution", "historicalExecution",
                      "inquiryConnector", "last"} : Behind(p, s) = <<>>
<1> DEFINE Short == {"algoStreaming", "streaming", "historicalStreaming"}
           Middle == {"tradeBooking", "position", "historicalPosition"}
           Long == {"risk", "historicalRisk"}
           None == {"gui", "algoExecution", "execution", "historicalExecution",
                    "inquiryConnector", "last"}
<1>1. /\ \A s \in Middle : s \notin Short
      /\ \A s \in Long : s \notin Short /\ s \notin Middle
      /\ \A s \in None \cup {"quote", "answer"} : s \notin Short /\ s \notin Middle /\ s \notin Long
      /\ \A s \in None : s # "quote" /\ s # "answer"
      /\ "answer" # "quote"
      /\ \A s \in Short \cup Middle \cup Long : s # "quote" /\ s # "answer"
  OBVIOUS
<1> DEFINE gui == <<C("gui")>>
           execution == ExecutionBehind(p)
           positions == <<C("historicalPosition")>> \o ExecutionBehind(p)
           connector == <<C("inquiryConnector")>>
           inquiry == <<C("historicalInquiry")>>
           nobody == <<>>
<1>2. \A s : Behind(p, s) =
        CASE s \in Short -> gui [] s \in Middle -> execution [] s \in Long -> positions
          [] s = "quote" -> connector [] s = "answer" -> inquiry [] OTHER -> nobody
  BY DEF Behind
<1> HIDE DEF Short, Middle, Long, None, gui, execution, positions, connector, inquiry, nobody
<1>3. /\ \A s \in Short : Behind(p, s) = gui
      /\ \A s \in Middle : Behind(p, s) = execution
      /\ \A s \in Long : Behind(p, s) = positions
      /\ Behind(p, "quote") = connector /\ Behind(p, "answer") = inquiry
      /\ \A s \in None : Behind(p, s) = nobody
  BY <1>1, <1>2
<1> QED
  BY <1>3 DEF Short, Middle, Long, None, gui, execution, positions, connector, inquiry, nobody

\* Where a line goes from each stage.
LEMMA NextIs ==
  ASSUME NEW p
  PROVE  /\ NextStages(p, "algoStreaming") = {"streaming"}
         /\ NextStages(p, "streaming") = {"historicalStreaming"}
         /\ NextStages(p, "historicalStreaming") = {"gui"}
         /\ NextStages(p, "algoExecution") = {"execution", "returned"}
         /\ NextStages(p, "execution") = {"tradeBooking"}
         /\ NextStages(p, "tradeBooking") = {"position"}
         /\ NextStages(p, "position") = {"risk"}
         /\ NextStages(p, "risk") = {"historicalRisk"}
         /\ NextStages(p, "historicalRisk") = {"historicalPosition"}
         /\ NextStages(p, "historicalPosition")
              = IF p = 3 THEN {"historicalExecution"} ELSE {"returned"}
         /\ NextStages(p, "quote") = {"inquiryConnector"}
         /\ NextStages(p, "inquiryConnector") = {"answer"}
         /\ NextStages(p, "answer") = {"last"}
         /\ \A s \in {"gui", "historicalExecution", "last"} :
              NextStages(p, s) = {"returned"}
BY DEF NextStages

\* What a listener that is called does to the calls pending.
LEMMA ProcessMoves ==
  ASSUME NEW s, At(s), NEW listener, NEW calls, Process(listener, calls)
  PROVE  /\ s # "returned" /\ phase \in Phase /\ s \in StagesOf(phase)
         /\ First(s).to = listener
         /\ pending' = (IF s = "historicalRisk" THEN <<>> ELSE calls) \o Behind(phase, s)
         /\ Behind(phase, s) \in Seq(Call)
         /\ alive' = alive
<1>1. pending # <<>> /\ Head(pending).to = listener /\ alive' = alive
  BY DEF Process
<1>2. s # "returned" /\ Head(pending) = First(s) /\ Tail(pending) = Behind(phase, s)
  BY <1>1, AtFacts
<1>3. First(s).event = "add" <=> s # "historicalRisk"
  BY DEF First
<1>4. pending' = (IF First(s).event = "add" THEN calls ELSE <<>>) \o Behind(phase, s)
  BY <1>2, Zenon DEF Process, Nested
<1> QED
  BY <1>1, <1>2, <1>3, <1>4, AtFacts

\* Who is told of what.
LEMMA Announced ==
  /\ Announce("pricing", "add") = <<C("algoStreaming"), C("gui")>>
  /\ Announce("algoStreaming", "add") = <<C("streaming")>>
  /\ Announce("streaming", "add") = <<C("historicalStreaming")>>
  /\ Announce("marketData", "add") = <<C("algoExecution")>>
  /\ Announce("algoExecution", "add") = <<C("execution")>>
  /\ Announce("execution", "add") = <<C("tradeBooking"), C("historicalExecution")>>
  /\ Announce("tradeBooking", "add") = <<C("position")>>
  /\ Announce("position", "add") = <<C("risk"), C("historicalPosition")>>
  /\ Announce("risk", "update") = <<First("historicalRisk")>>
  /\ Announce("inquiry", "add") = <<C("historicalInquiry")>>
BY DEF Announce, listeners, C, First, ToldOfInquiry

\* Outside the inquiries, the call of a stage is the one it is named for.
LEMMA FirstIs ==
  /\ \A s \in {"algoStreaming", "streaming", "historicalStreaming", "gui", "position",
               "risk", "historicalPosition", "algoExecution", "execution",
               "tradeBooking", "historicalExecution", "inquiryConnector"} :
       First(s) = C(s)
  /\ \A s \in ToldOfInquiry : First(s) = C("historicalInquiry")
BY DEF First, C, ToldOfInquiry

\* A stage is reached when its call comes before what was behind the last.
LEMMA Reaches ==
  ASSUME phase \in Phase, phase' = phase, NEW t \in StagesOf(phase), t # "returned",
         pending' = <<First(t)>> \o Behind(phase, t)
  PROVE  At(t)'
BY DEF At

\* Likewise when nothing waits behind it.
LEMMA ReachesLast ==
  ASSUME phase \in Phase, phase' = phase, NEW t \in StagesOf(phase),
         pending' = <<First(t)>>, Behind(phase, t) = <<>>
  PROVE  At(t)'
<1> DEFINE b == First(t)
<1>1. b \in Call /\ t # "returned"
  BY CallTypes, StageOfPhase
<1> HIDE DEF b
<1>2. <<b>> \o <<>> = <<b>>
  BY <1>1
<1>3. pending' = <<First(t)>> \o Behind(phase, t)
  BY <1>2, Zenon DEF b
<1> QED
  BY <1>1, <1>3, Reaches

\* The handlers that call their listeners take a line to the next stage.
LEMMA PassOnMoves ==
  ASSUME NEW s, At(s), PassOn
  PROVE  s # "returned" /\ s \notin Historical /\ s \notin ToldOfInquiry /\ s # "gui"
         /\ \E t \in NextStages(phase, s) : At(t)'
<1>0. phase' = phase
  BY DEF PassOn
<1> DEFINE rest == ExecutionBehind(phase)
<1>r. rest \in Seq(Call)
  <2>1. C("historicalExecution") \in Call
    BY CallTypes DEF Listener
  <2> QED
    BY <2>1, StageOfPhase, BehindIs DEF ExecutionBehind
<1>1. CASE AlgoStreamingToPricingListener
  <2>1. s = "algoStreaming" /\ phase \in Phase /\ s \in StagesOf(phase)
        /\ pending' = <<C("streaming")>> \o Behind(phase, s)
    BY <1>1, ProcessMoves, Announced
       DEF AlgoStreamingToPricingListener, First, ToldOfInquiry
  <2>2. "streaming" \in StagesOf(phase) /\ Behind(phase, "streaming") = Behind(phase, s)
    BY <2>1, StageOfPhase, BehindIs
  <2>3. At("streaming")'
    BY <1>0, <2>1, <2>2, FirstIs, Reaches
  <2> QED
    BY <2>1, <2>3, NextIs DEF Historical, ToldOfInquiry
<1>2. CASE StreamingListenerFromAlgoStreaming
  <2>1. s = "streaming" /\ phase \in Phase /\ s \in StagesOf(phase)
        /\ pending' = <<C("historicalStreaming")>> \o Behind(phase, s)
    BY <1>2, ProcessMoves, Announced
       DEF StreamingListenerFromAlgoStreaming, First, ToldOfInquiry
  <2>2. /\ "historicalStreaming" \in StagesOf(phase)
        /\ Behind(phase, "historicalStreaming") = Behind(phase, s)
    BY <2>1, StageOfPhase, BehindIs
  <2>3. At("historicalStreaming")'
    BY <1>0, <2>1, <2>2, FirstIs, Reaches
  <2> QED
    BY <2>1, <2>3, NextIs DEF Historical, ToldOfInquiry
<1>3. CASE AlgoExecutionListenerFromMarketData
  <2>1. /\ s = "algoExecution" /\ phase \in Phase /\ s \in StagesOf(phase)
        /\ \/ pending' = <<C("execution")>> \o Behind(phase, s)
           \/ pending' = <<>> \o Behind(phase, s)
    <3>1. CASE Process("algoExecution", Announce("algoExecution", "add"))
      BY <3>1, ProcessMoves, Announced DEF First, ToldOfInquiry
    <3>2. CASE Process("algoExecution", <<>>)
      BY <3>2, ProcessMoves DEF First, ToldOfInquiry
    <3> QED
      BY <1>3, <3>1, <3>2 DEF AlgoExecutionListenerFromMarketData
  <2>2. /\ "execution" \in StagesOf(phase) /\ Behind(phase, s) = <<>>
        /\ Behind(phase, "execution") = Behind(phase, s)
    BY <2>1, StageOfPhase, BehindIs
  <2>3. CASE pending' = <<C("execution")>> \o Behind(phase, s)
    <3>1. At("execution")'
      BY <1>0, <2>1, <2>2, <2>3, FirstIs, Reaches
    <3> QED
      BY <2>1, <3>1, NextIs DEF Historical, ToldOfInquiry
  <2>4. CASE pending' = <<>> \o Behind(phase, s)
    <3>1. pending' = <<>>
      BY <2>2, <2>4
    <3>2. At("returned")'
      BY <3>1 DEF At
    <3> QED
      BY <2>1, <3>2, NextIs DEF Historical, ToldOfInquiry
  <2> QED
    BY <2>1, <2>3, <2>4
<1>4. CASE ExecutionToAlgoExecutionListener
  <2>1. /\ s = "execution" /\ phase \in Phase /\ s \in StagesOf(phase)
        /\ pending' = <<C("tradeBooking"), C("historicalExecution")>> \o Behind(phase, s)
    BY <1>4, ProcessMoves, Announced
       DEF ExecutionToAlgoExecutionListener, First, ToldOfInquiry
  <2>2. phase = 3 /\ Behind(phase, s) = <<>>
    BY <2>1, StageOfPhase, BehindIs
  <2> DEFINE b == C("tradeBooking")
             c == C("historicalExecution")
  <2>3. b \in Call /\ c \in Call
    BY CallTypes DEF Listener
  <2>4. /\ "tradeBooking" \in StagesOf(phase) /\ Behind(phase, "tradeBooking") = <<c>>
        /\ First("tradeBooking") = b
    BY <2>1, <2>2, StageOfPhase, BehindIs, FirstIs DEF ExecutionBehind
  <2> HIDE DEF b, c
  <2>5. pending' = <<b, c>> \o <<>>
    BY <2>1, <2>2, Zenon DEF b, c
  <2>6. pending' = <<b>> \o <<c>>
    <3>1. <<>> \in Seq(Call)
      OBVIOUS
    <3> QED
      BY <2>3, <2>5, <3>1, Concat
  <2>7. At("tradeBooking")'
    BY <1>0, <2>1, <2>4, <2>6, Reaches
  <2> QED
    BY <2>1, <2>7, NextIs DEF Historical, ToldOfInquiry
<1>5. CASE TradeBookingListenerFromExecution
  <2>1. s = "tradeBooking" /\ phase \in Phase /\ s \in StagesOf(phase)
        /\ pending' = <<C("position")>> \o Behind(phase, s)
    BY <1>5, ProcessMoves, Announced
       DEF TradeBookingListenerFromExecution, First, ToldOfInquiry
  <2>2. "position" \in StagesOf(phase) /\ Behind(phase, "position") = Behind(phase, s)
    BY <2>1, StageOfPhase, BehindIs
  <2>3. At("position")'
    BY <1>0, <2>1, <2>2, FirstIs, Reaches
  <2> QED
    BY <2>1, <2>3, NextIs DEF Historical, ToldOfInquiry
<1>6. CASE PositionListenerFromTradeBooking
  <2>1. /\ s = "position" /\ phase \in Phase /\ s \in StagesOf(phase)
        /\ pending' = <<C("risk"), C("historicalPosition")>> \o Behind(phase, s)
    BY <1>6, ProcessMoves, Announced DEF PositionListenerFromTradeBooking, First, ToldOfInquiry
  <2> DEFINE b == C("risk")
             c == C("historicalPosition")
  <2>2. b \in Call /\ c \in Call
    BY CallTypes DEF Listener
  <2>3. Behind(phase, s) = rest
    BY <2>1, BehindIs
  <2>4. /\ "risk" \in StagesOf(phase) /\ Behind(phase, "risk") = <<c>> \o rest
        /\ First("risk") = b
    BY <2>1, StageOfPhase, BehindIs, FirstIs
  <2> HIDE DEF b, c, rest
  <2>5. pending' = <<b, c>> \o rest
    BY <2>1, <2>3, Zenon DEF b, c
  <2>6. pending' = <<b>> \o (<<c>> \o rest)
    BY <1>r, <2>2, <2>5, Concat
  <2>7. At("risk")'
    BY <1>0, <2>1, <2>4, <2>6, Reaches
  <2> QED
    BY <2>1, <2>7, NextIs DEF Historical, ToldOfInquiry
<1>7. CASE RiskListenerFromPosition
  <2>1. s = "risk" /\ phase \in Phase /\ s \in StagesOf(phase)
        /\ pending' = <<First("historicalRisk")>> \o Behind(phase, s)
    BY <1>7, ProcessMoves, Announced DEF RiskListenerFromPosition, First, ToldOfInquiry
  <2>2. /\ "historicalRisk" \in StagesOf(phase)
        /\ Behind(phase, "historicalRisk") = Behind(phase, s)
    BY <2>1, StageOfPhase, BehindIs
  <2>3. At("historicalRisk")'
    BY <1>0, <2>1, <2>2, Reaches
  <2> QED
    BY <2>1, <2>3, NextIs DEF Historical, ToldOfInquiry
<1>8. CASE InquiryConnector
  <2> DEFINE b == C("historicalInquiry")
  <2>1. /\ s = "inquiryConnector" /\ phase \in Phase /\ s \in StagesOf(phase)
        /\ pending' = (<<b>> \o <<b>>) \o Behind(phase, s)
    BY <1>8, ProcessMoves, Announced DEF InquiryConnector, First, ToldOfInquiry
  <2>2. phase = 4 /\ Behind(phase, s) = <<>> /\ b \in Call
    BY <2>1, StageOfPhase, BehindIs, CallTypes DEF Listener
  <2>3. /\ "answer" \in StagesOf(phase) /\ Behind(phase, "answer") = <<b>>
        /\ First("answer") = b
    BY <2>1, <2>2, StageOfPhase, BehindIs, FirstIs DEF ToldOfInquiry
  <2> HIDE DEF b
  <2>4. pending' = (<<b>> \o <<b>>) \o <<>>
    BY <2>1, <2>2, Zenon
  <2>5. pending' = <<b>> \o <<b>>
    <3>1. <<>> \in Seq(Call)
      OBVIOUS
    <3> QED
      BY <2>2, <2>4, <3>1, Concat
  <2>6. At("answer")'
    BY <1>0, <2>1, <2>3, <2>5, Reaches
  <2> QED
    BY <2>1, <2>6, NextIs DEF Historical, ToldOfInquiry
<1> QED
  BY <1>1, <1>2, <1>3, <1>4, <1>5, <1>6, <1>7, <1>8 DEF PassOn

\* The stages that write a line, and the file it is for.
Writers ==
  {"historicalStreaming", "historicalPosition", "historicalExecution"} \cup ToldOfInquiry

FileOf(s) == IF s \in ToldOfInquiry THEN "historicalInquiry" ELSE s

\* A historical service is called last in its stage, and then it is the turn of
\* A historical service is called last in its stage.
LEMMA PersistMoves ==
  ASSUME NEW s, At(s), Persist
  PROVE  /\ s # "returned" /\ s \in Writers \cup {"historicalRisk"}
         /\ \E t \in NextStages(phase, s) : At(t)'
         /\ s = "historicalRisk" => files' = files
         /\ s \in Writers => FileOf(s) \in Journal /\ AppendTo(FileOf(s))
<1>0. phase' = phase
  BY DEF Persist
<1>1. PICK h \in Historical : Process(h, <<>>)
  BY DEF Persist, HistoricalDataListener
<1>2. /\ s # "returned" /\ phase \in Phase /\ s \in StagesOf(phase)
      /\ First(s).to = h /\ Behind(phase, s) \in Seq(Call)
      /\ pending' = (IF s = "historicalRisk" THEN <<>> ELSE <<>>) \o Behind(phase, s)
  BY <1>1, ProcessMoves
<1>3. pending' = Behind(phase, s)
  <2> DEFINE rest == Behind(phase, s)
  <2> HIDE DEF rest
  <2>1. rest \in Seq(Call) /\ pending' = <<>> \o rest
    BY <1>2 DEF rest
  <2>2. pending' = rest
    BY <2>1
  <2> QED
    BY <2>2 DEF rest
<1>4. s \in Writers \cup {"historicalRisk"}
  BY <1>2, StageOfPhase DEF First, Historical, Writers, ToldOfInquiry
<1>5. Head(pending) = First(s)
  BY <1>2, AtFacts
<1>6. /\ s = "historicalRisk" => files' = files
      /\ s \in Writers => FileOf(s) \in Journal /\ AppendTo(FileOf(s))
  <2>1. IF First(s).event = "add" THEN AppendTo(First(s).to) ELSE files' = files
    BY <1>5, Zenon DEF Persist
  <2>2. /\ s = "historicalRisk" => First(s).event # "add"
        /\ s \in Writers => First(s).event = "add" /\ First(s).to = FileOf(s)
        /\ s \in Writers => FileOf(s) \in Journal
    BY Journals DEF First, FileOf, Writers, ToldOfInquiry
  <2> QED
    BY <2>1, <2>2
<1>7. \E t \in NextStages(phase, s) : At(t)'
  <2>1. CASE s = "historicalStreaming"
    <3>1. pending' = <<First("gui")>> /\ "gui" \in StagesOf(phase) /\ Behind(phase, "gui") = <<>>
      BY <1>2, <1>3, <2>1, BehindIs, StageOfPhase, FirstIs
    <3>2. At("gui")'
      BY <1>0, <1>2, <3>1, ReachesLast
    <3> QED
      BY <2>1, <3>2, NextIs
  <2>2. CASE s = "historicalRisk"
    <3>1. /\ pending' = <<First("historicalPosition")>> \o Behind(phase, "historicalPosition")
          /\ "historicalPosition" \in StagesOf(phase)
      BY <1>2, <1>3, <2>2, BehindIs, StageOfPhase, FirstIs
    <3>2. At("historicalPosition")'
      BY <1>0, <1>2, <3>1, Reaches
    <3> QED
      BY <2>2, <3>2, NextIs
  <2>3. CASE s = "historicalPosition" /\ phase = 3
    <3>1. /\ pending' = <<First("historicalExecution")>>
          /\ Behind(phase, "historicalExecution") = <<>>
          /\ "historicalExecution" \in StagesOf(phase)
      BY <1>2, <1>3, <2>3, BehindIs, StageOfPhase, FirstIs DEF ExecutionBehind
    <3>2. At("historicalExecution")'
      BY <1>0, <1>2, <3>1, ReachesLast
    <3> QED
      BY <2>3, <3>2, NextIs
  <2>4. CASE (s = "historicalPosition" /\ phase # 3) \/ s \in {"historicalExecution", "last"}
    <3>1. pending' = <<>>
      BY <1>3, <2>4, BehindIs DEF ExecutionBehind
    <3>2. At("returned")'
      BY <3>1 DEF At
    <3> QED
      BY <2>4, <3>2, NextIs
  <2>5. CASE s = "quote"
    <3>1. /\ pending' = <<First("inquiryConnector")>>
          /\ Behind(phase, "inquiryConnector") = <<>>
          /\ "inquiryConnector" \in StagesOf(phase)
      BY <1>2, <1>3, <2>5, BehindIs, StageOfPhase, FirstIs
    <3>2. At("inquiryConnector")'
      BY <1>0, <1>2, <3>1, ReachesLast
    <3> QED
      BY <2>5, <3>2, NextIs
  <2>6. CASE s = "answer"
    <3>1. /\ pending' = <<First("last")>> /\ Behind(phase, "last") = <<>>
          /\ "last" \in StagesOf(phase)
      BY <1>2, <1>3, <2>6, BehindIs, StageOfPhase, FirstIs DEF ToldOfInquiry
    <3>2. At("last")'
      BY <1>0, <1>2, <3>1, ReachesLast
    <3> QED
      BY <2>6, <3>2, NextIs
  <2> QED
    BY <1>4, <2>1, <2>2, <2>3, <2>4, <2>5, <2>6 DEF Writers, ToldOfInquiry
<1> QED
  BY <1>2, <1>4, <1>6, <1>7

LEMMA ShowPriceMoves ==
  ASSUME NEW s, At(s), ShowPrice
  PROVE  s = "gui" /\ At("returned")' /\ (AppendTo("gui") \/ files' = files)
<1>1. Process("gui", <<>>)
  BY DEF ShowPrice, GUIToPricingListener
<1>2. /\ s = "gui"
      /\ pending' = (IF s = "historicalRisk" THEN <<>> ELSE <<>>) \o Behind(phase, s)
  BY <1>1, ProcessMoves DEF First, ToldOfInquiry
<1>3. Behind(phase, "gui") = <<>>
  BY BehindIs
<1>4. pending' = <<>>
  BY <1>2, <1>3
<1> QED
  BY <1>2, <1>4 DEF At, ShowPrice

\* A handler takes the line in flight to a next stage, and the stage decides
\* which file gets a line.
LEMMA HandlerMoves ==
  ASSUME NEW s, At(s), Handler
  PROVE  /\ s # "returned" /\ phase \in Phase /\ s \in StagesOf(phase)
         /\ \E t \in NextStages(phase, s) : At(t)'
         /\ s \in Writers => FileOf(s) \in Journal /\ AppendTo(FileOf(s))
         /\ s = "gui" => AppendTo("gui") \/ files' = files
         /\ s \notin Writers \cup {"gui"} => files' = files
         /\ UNCHANGED <<alive, phase, progress, died, linesRead>>
<1>1. UNCHANGED <<alive, phase, progress, died, linesRead>>
  BY DEF Handler, PassOn, Persist, ShowPrice, GUIToPricingListener, HistoricalDataListener,
         AlgoStreamingToPricingListener, StreamingListenerFromAlgoStreaming,
         AlgoExecutionListenerFromMarketData, ExecutionToAlgoExecutionListener,
         TradeBookingListenerFromExecution, PositionListenerFromTradeBooking,
         RiskListenerFromPosition, InquiryConnector, Process
<1>2. CASE PassOn
  <2>1. s # "returned" /\ s \notin Writers \cup {"gui"} /\ files' = files
    BY <1>2, PassOnMoves DEF Writers, Historical, PassOn
  <2> QED
    BY <1>1, <1>2, <2>1, PassOnMoves, AtFacts
<1>3. CASE Persist
  <2>1. s # "gui"
    BY <1>3, PersistMoves DEF Writers, ToldOfInquiry
  <2> QED
    BY <1>1, <1>3, <2>1, PersistMoves, AtFacts
<1>4. CASE ShowPrice
  <2>1. s = "gui" /\ s \notin Writers /\ "returned" \in NextStages(phase, s)
    BY <1>4, ShowPriceMoves, NextIs DEF Writers, ToldOfInquiry
  <2> QED
    BY <1>1, <1>4, <2>1, ShowPriceMoves, AtFacts
<1> QED
  BY <1>2, <1>3, <1>4 DEF Handler

-----------------------------------------------------------------------------
(* Type correctness. *)

AllStages ==
  {"returned", "algoStreaming", "streaming", "historicalStreaming", "gui", "position",
   "risk", "historicalRisk", "historicalPosition", "algoExecution", "execution",
   "tradeBooking", "historicalExecution", "quote", "inquiryConnector", "answer", "last"}

StageInv == \E s \in AllStages : At(s)

LEMMA NextCalls ==
  ASSUME NEW t, At(t)'
  PROVE  pending' \in Seq(Call) /\ (pending' = <<>> <=> t = "returned")
<1>1. CASE t = "returned"
  BY <1>1 DEF At
<1>2. CASE t # "returned"
  <2>1. /\ phase' \in Phase /\ t \in StagesOf(phase')
        /\ pending' = <<First(t)>> \o Behind(phase', t)
    BY <1>2 DEF At
  <2> QED
    BY <1>2, <2>1, StageCalls
<1> QED
  BY <1>1, <1>2

LEMMA StagesAreAll == \A p \in Phase : StagesOf(p) \subseteq AllStages
<1>1. StagesOf(1) \subseteq AllStages /\ StagesOf(2) \subseteq AllStages
  BY DEF StagesOf, AllStages
<1>2. StagesOf(3) \subseteq AllStages /\ StagesOf(4) \subseteq AllStages
  BY DEF StagesOf, AllStages
<1> QED
  BY <1>1, <1>2, Phases

LEMMA NextIsAStage ==
  ASSUME NEW p \in Phase, NEW s \in StagesOf(p), NEW t \in NextStages(p, s)
  PROVE  t \in AllStages
BY NextIs, StageOfPhase, StagesAreAll DEF AllStages

\* Reading a line puts it in the first stage of the phase.
LEMMA ReadLineMoves ==
  ASSUME ReadLine
  PROVE  /\ phase \in Phase /\ alive /\ pending = <<>> /\ linesRead' = linesRead + 1
         /\ progress' = [progress EXCEPT ![run][phase] = @ + 1]
         /\ \E t \in StagesOf(phase) : t = FirstStage[phase] /\ At(t)'
         /\ UNCHANGED <<alive, phase, died, files>>
<1>1. /\ phase \in Phase /\ alive /\ UNCHANGED <<phase, died, files>>
      /\ linesRead' = linesRead + 1
      /\ progress' = [progress EXCEPT ![run][phase] = @ + 1]
  BY DEF ReadLine, Running
<1>2. pending = <<>> /\ alive' = alive
  BY DEF ReadLine, OnInquiry, OnMessage
<1> SUFFICES \E t \in StagesOf(phase) : t = FirstStage[phase] /\ At(t)'
  BY <1>1, <1>2
<1>3. CASE phase = 1
  <2>1. phases[phase] = "pricing" /\ FirstStage[phase] = "algoStreaming"
    BY <1>3 DEF phases, FirstStage
  <2>2. pending' = <<C("algoStreaming"), C("gui")>>
    BY <2>1, Announced DEF ReadLine, OnMessage
  <2> DEFINE b == C("algoStreaming")
             c == C("gui")
  <2>3. b \in Call /\ c \in Call
    BY CallTypes DEF Listener
  <2>4. /\ "algoStreaming" \in StagesOf(phase) /\ Behind(phase, "algoStreaming") = <<c>>
        /\ First("algoStreaming") = b
    BY <1>1, <1>3, BehindIs, StageOfPhase, FirstIs
  <2> HIDE DEF b, c
  <2>5. pending' = <<b>> \o <<c>>
    <3>1. <<>> \in Seq(Call) /\ pending' = <<b, c>>
      BY <2>2 DEF b, c
    <3> QED
      BY <2>3, <3>1, Concat
  <2>6. At("algoStreaming")'
    BY <1>1, <2>4, <2>5, Reaches
  <2> QED
    BY <2>1, <2>4, <2>6
<1>4. CASE phase = 2
  <2>1. phases[phase] = "tradeBooking" /\ FirstStage[phase] = "position"
    BY <1>4 DEF phases, FirstStage
  <2>2. pending' = <<C("position")>>
    BY <2>1, Announced DEF ReadLine, OnMessage
  <2>3. /\ "position" \in StagesOf(phase) /\ Behind(phase, "position") = <<>>
        /\ First("position") = C("position")
    BY <1>1, <1>4, BehindIs, StageOfPhase, FirstIs DEF ExecutionBehind
  <2>4. At("position")'
    BY <1>1, <2>2, <2>3, ReachesLast
  <2> QED
    BY <2>1, <2>3, <2>4
<1>5. CASE phase = 3
  <2>1. phases[phase] = "marketData" /\ FirstStage[phase] = "algoExecution"
    BY <1>5 DEF phases, FirstStage
  <2>2. pending' = <<C("algoExecution")>>
    BY <2>1, Announced DEF ReadLine, OnMessage
  <2>3. /\ "algoExecution" \in StagesOf(phase) /\ Behind(phase, "algoExecution") = <<>>
        /\ First("algoExecution") = C("algoExecution")
    BY <1>1, <1>5, BehindIs, StageOfPhase, FirstIs
  <2>4. At("algoExecution")'
    BY <1>1, <2>2, <2>3, ReachesLast
  <2> QED
    BY <2>1, <2>3, <2>4
<1>6. CASE phase = 4
  <2>1. phases[phase] = "inquiry" /\ FirstStage[phase] = "quote"
    BY <1>6 DEF phases, FirstStage
  <2>2. pending' = <<C("historicalInquiry")>> \o <<C("inquiryConnector")>>
    BY <2>1, Announced DEF ReadLine, OnInquiry, C
  <2>3. /\ "quote" \in StagesOf(phase) /\ First("quote") = C("historicalInquiry")
        /\ Behind(phase, "quote") = <<C("inquiryConnector")>>
    BY <1>1, <1>6, BehindIs, StageOfPhase, FirstIs DEF ToldOfInquiry
  <2>4. At("quote")'
    BY <1>1, <2>2, <2>3, Reaches
  <2> QED
    BY <2>1, <2>3, <2>4
<1>7. phase = 1 \/ phase = 2 \/ phase = 3 \/ phase = 4
  BY <1>1, Phases
<1> QED
  BY <1>3, <1>4, <1>5, <1>6, <1>7, Zenon

\* The stamp of the line in flight.
LEMMA InFlightType ==
  ASSUME SystemTypeOK, pending # <<>>
  PROVE  /\ LineInFlight \in Stamp
         /\ LineInFlight = [run |-> run, phase |-> phase, line |-> progress[run][phase]]
         /\ alive /\ phase \in Phase /\ run \notin died
         /\ run \in Nat /\ run \in DOMAIN progress /\ progress[run] \in [Phase -> Nat]
<1>1. alive /\ phase \in Phase /\ progress[run][phase] > 0 /\ run \notin died
  BY DEF SystemTypeOK, Running
<1>2. progress \in Seq([Phase -> Nat]) /\ progress # <<>>
  BY DEF SystemTypeOK
<1>3. run \in Nat \ {0} /\ run \in DOMAIN progress
  BY <1>2, EmptySeq, LenProperties DEF run
<1>4. progress[run] \in [Phase -> Nat]
  BY <1>2, <1>3
<1> QED
  BY <1>1, <1>3, <1>4 DEF LineInFlight, Stamp

\* What a line more does to the files.
LEMMA AppendFacts ==
  ASSUME SystemTypeOK, pending # <<>>, NEW f \in Journal, AppendTo(f)
  PROVE  /\ files' \in [Journal -> Seq(Stamp)]
         /\ Len(files[f]) \in Nat /\ Len(files'[f]) = Len(files[f]) + 1
         /\ files'[f][Len(files[f]) + 1] = LineInFlight
         /\ \A i \in 1 .. Len(files[f]) : files'[f][i] = files[f][i]
         /\ \A g \in Journal \ {f} : files'[g] = files[g]
<1>1. files \in [Journal -> Seq(Stamp)] /\ LineInFlight \in Stamp
  BY InFlightType DEF SystemTypeOK
<1> DEFINE old == files[f]
           new == Append(old, LineInFlight)
<1>2. files' = [files EXCEPT ![f] = new]
  BY DEF AppendTo
<1>3. old \in Seq(Stamp)
  BY <1>1
<1>4. /\ new \in Seq(Stamp) /\ Len(old) \in Nat /\ Len(new) = Len(old) + 1
      /\ new[Len(old) + 1] = LineInFlight
      /\ \A i \in 1 .. Len(old) : new[i] = old[i]
  BY <1>1, <1>3, AppendProperties
<1> HIDE DEF new
<1>5. files' \in [Journal -> Seq(Stamp)] /\ files'[f] = new
  BY <1>1, <1>2, <1>4
<1>6. \A g \in Journal \ {f} : files'[g] = files[g]
  BY <1>1, <1>2
<1> QED
  BY <1>4, <1>5, <1>6

\* What a line read does to the progress of the run.
LEMMA ProgressFacts ==
  ASSUME SystemTypeOK, ReadLine
  PROVE  /\ progress' \in Seq([Phase -> Nat]) /\ run' = run /\ run \in Nat \ {0}
         /\ progress[run] \in [Phase -> Nat] /\ run \notin died
         /\ progress'[run] = [progress[run] EXCEPT ![phase] = @ + 1]
         /\ \A r \in 1 .. run : r # run => progress'[r] = progress[r]
<1>1. progress \in Seq([Phase -> Nat]) /\ progress # <<>>
  BY DEF SystemTypeOK
<1>2. /\ phase \in Phase /\ alive
      /\ progress' = [progress EXCEPT ![run] = [progress[run] EXCEPT ![phase] = @ + 1]]
  BY ReadLineMoves
<1>3. run \in Nat \ {0} /\ run \in 1 .. Len(progress) /\ progress[run] \in [Phase -> Nat]
  BY <1>1, EmptySeq, LenProperties DEF run
<1>4. [progress[run] EXCEPT ![phase] = @ + 1] \in [Phase -> Nat]
  BY <1>2, <1>3
<1>5. /\ progress' \in Seq([Phase -> Nat]) /\ Len(progress') = Len(progress)
      /\ \A r \in 1 .. Len(progress) :
           progress'[r] = IF r = run THEN [progress[run] EXCEPT ![phase] = @ + 1]
                          ELSE progress[r]
  <2> DEFINE next == [progress[run] EXCEPT ![phase] = @ + 1]
  <2> HIDE DEF next
  <2>1. progress' = [progress EXCEPT ![run] = next] /\ next \in [Phase -> Nat]
    BY <1>2, <1>4 DEF next
  <2>2. /\ progress' \in Seq([Phase -> Nat]) /\ Len(progress') = Len(progress)
        /\ \A r \in 1 .. Len(progress) :
             progress'[r] = IF r = run THEN next ELSE progress[r]
    BY <1>1, <1>3, <2>1, ExceptSeq
  <2> QED
    BY <2>2 DEF next
<1>6. run \notin died
  BY <1>2 DEF SystemTypeOK
<1> QED
  BY <1>3, <1>5, <1>6 DEF run

\* Starting again adds a run that has read nothing.
LEMMA RerunFacts ==
  ASSUME SystemTypeOK, Rerun
  PROVE  /\ pending = <<>> /\ pending' = <<>> /\ alive' /\ phase' = 1
         /\ progress' \in Seq([Phase -> Nat]) /\ run \in Nat /\ run' = run + 1
         /\ \A p \in Phase : progress'[run + 1][p] = 0
         /\ \A r \in 1 .. run : progress'[r] = progress[r]
         /\ UNCHANGED <<died, linesRead, files>>
<1>1. progress \in Seq([Phase -> Nat]) /\ NothingRead \in [Phase -> Nat]
  BY DEF SystemTypeOK, NothingRead
<1>2. progress' = Append(progress, NothingRead)
  BY DEF Rerun
<1>3. /\ progress' \in Seq([Phase -> Nat]) /\ run \in Nat /\ run' = run + 1
      /\ progress'[run + 1] = NothingRead
      /\ \A r \in 1 .. run : progress'[r] = progress[r]
  BY <1>1, <1>2, AppendProperties DEF run
<1>4. pending = <<>>
  BY DEF Rerun, SystemTypeOK
<1> QED
  BY <1>3, <1>4 DEF Rerun, NothingRead

LEMMA TypeStep ==
  ASSUME SystemTypeOK, StageInv, [SystemNext]_systemVars
  PROVE  (SystemTypeOK /\ StageInv)'
<1>1. CASE ReadLine
  <2>1. StageInv'
    BY <1>1, ReadLineMoves, StagesAreAll DEF StageInv
  <2>2. pending' \in Seq(Call)
    BY <1>1, ReadLineMoves, NextCalls
  <2>3. /\ phase' = phase /\ phase \in Phase /\ alive' = alive /\ alive = TRUE /\ died' = died
        /\ files' = files /\ linesRead' = linesRead + 1
    BY <1>1, ReadLineMoves DEF SystemTypeOK
  <2>4. /\ progress' \in Seq([Phase -> Nat]) /\ progress' # <<>>
        /\ progress'[run'][phase'] > 0
        /\ \A p \in Phase : phase' < p => progress'[run'][p] = 0
    <3>1. \A p \in Phase : phase < p => progress[run][p] = 0
      BY DEF SystemTypeOK
    <3>2. Len(progress') > 0
      BY <1>1, ProgressFacts DEF run
    <3>3. /\ run' = run /\ progress[run] \in [Phase -> Nat]
          /\ progress'[run] = [progress[run] EXCEPT ![phase] = @ + 1]
      BY <1>1, ProgressFacts
    <3>4. progress'[run][phase] > 0
      BY <2>3, <3>3
    <3>5. \A p \in Phase : phase < p => progress'[run][p] = 0
      BY <2>3, <3>1, <3>3, Phases
    <3>6. progress' # <<>>
      BY <3>2
    <3> QED
      BY <1>1, <2>3, <3>3, <3>4, <3>5, <3>6, ProgressFacts
  <2>5. run' = run /\ run \notin died
    BY <1>1, ProgressFacts
  <2> QED
    BY <2>1, <2>2, <2>3, <2>4, <2>5 DEF SystemTypeOK, Running
<1>2. CASE Handler
  <2>1. PICK s \in AllStages : At(s)
    BY DEF StageInv
  <2>2. /\ s # "returned" /\ phase \in Phase /\ s \in StagesOf(phase)
        /\ UNCHANGED <<alive, phase, progress, died, linesRead>>
    BY <1>2, <2>1, HandlerMoves
  <2>3. PICK t \in NextStages(phase, s) : At(t)'
    BY <1>2, <2>1, HandlerMoves
  <2>4. StageInv' /\ pending' \in Seq(Call)
    BY <2>2, <2>3, NextIsAStage, NextCalls DEF StageInv
  <2>5. pending # <<>>
    BY <2>1, <2>2, AtFacts
  <2>6. files' \in [Journal -> Seq(Stamp)]
    BY <1>2, <2>1, <2>5, HandlerMoves, AppendFacts, Journals DEF SystemTypeOK
  <2> QED
    BY <2>2, <2>4, <2>5, <2>6 DEF SystemTypeOK, Running, run
<1>3. CASE NextFile
  <2>1. pending = <<>> /\ pending' = <<>> /\ phase' = phase + 1
        /\ UNCHANGED <<alive, progress, died, linesRead, files>>
    BY <1>3 DEF NextFile, wiringVars
  <2>2. phase' \in Phase \cup {Ended}
    BY <1>3, <2>1, Phases DEF NextFile, Running
  <2>3. \A p \in Phase : phase' < p => progress[run][p] = 0
    BY <1>3, <2>1, Phases DEF NextFile, Running, SystemTypeOK
  <2>4. At("returned")'
    BY <2>1 DEF At
  <2> QED
    BY <2>1, <2>2, <2>3, <2>4 DEF SystemTypeOK, StageInv, AllStages, run
<1>4. CASE Dies
  <2>1. /\ alive = TRUE /\ alive' = FALSE /\ pending' = <<>> /\ died' = died \cup {run}
        /\ UNCHANGED <<phase, progress, linesRead, files>>
    BY <1>4 DEF Dies, Abort, SystemTypeOK
  <2>2. run \in 1 .. run
    BY EmptySeq, LenProperties DEF SystemTypeOK, run
  <2>3. At("returned")'
    BY <2>1 DEF At
  <2>4. StageInv' /\ run' = run
    BY <2>1, <2>3 DEF StageInv, AllStages, run
  <2>5. \A p \in Phase : phase' < p => progress'[run'][p] = 0
    BY <2>1, <2>4 DEF SystemTypeOK
  <2>6. pending' \in Seq(Call)
    BY <2>1
  <2>7. died' \subseteq 1 .. run' /\ (~ alive' <=> run' \in died') /\ alive' \in BOOLEAN
    BY <2>1, <2>2, <2>4 DEF SystemTypeOK
  <2> QED
    BY <2>1, <2>4, <2>5, <2>6, <2>7 DEF SystemTypeOK
<1>5. CASE Rerun
  <2>1. At("returned")'
    BY <1>5, RerunFacts DEF At
  <2>2. run + 1 \notin died /\ died \subseteq 1 .. run + 1
    BY <1>5, RerunFacts DEF SystemTypeOK
  <2>3. progress' # <<>>
    BY <1>5, RerunFacts, EmptySeq DEF run
  <2>4. alive' = TRUE
    BY <1>5 DEF Rerun
  <2>5. StageInv'
    BY <2>1 DEF StageInv, AllStages
  <2>6. /\ pending' = <<>> /\ phase' = 1 /\ run' = run + 1 /\ 1 \in Phase
        /\ progress' \in Seq([Phase -> Nat]) /\ UNCHANGED <<died, linesRead, files>>
        /\ \A p \in Phase : progress'[run + 1][p] = 0
    BY <1>5, RerunFacts, Phases
  <2>7. pending' \in Seq(Call)
    BY <2>6
  <2> QED
    BY <2>2, <2>3, <2>4, <2>5, <2>6, <2>7 DEF SystemTypeOK
<1>6. CASE Stopped \/ UNCHANGED systemVars
  <2>1. UNCHANGED <<alive, pending, phase, progress, died, linesRead, files>>
    BY <1>6 DEF Stopped, systemVars, wiringVars
  <2> QED
    BY <2>1 DEF SystemTypeOK, StageInv, At, Running, run
<1> QED
  BY <1>1, <1>2, <1>3, <1>4, <1>5, <1>6 DEF SystemNext, Program

LEMMA TypeInvariant == SystemSpec => [](SystemTypeOK /\ StageInv)
<1>1. SystemInit => SystemTypeOK /\ StageInv
  <2> SUFFICES ASSUME SystemInit PROVE SystemTypeOK /\ StageInv
    OBVIOUS
  <2>1. progress = <<NothingRead>> /\ NothingRead \in [Phase -> Nat]
    BY DEF SystemInit, NothingRead
  <2>2. /\ progress \in Seq([Phase -> Nat]) /\ progress # <<>> /\ run = 1
        /\ progress[run] = NothingRead
    BY <2>1 DEF run
  <2>3. /\ alive = TRUE /\ pending = <<>> /\ phase = 1 /\ died = {} /\ linesRead = 0
        /\ files = [f \in Journal |-> <<>>]
    BY DEF SystemInit, WiringInit
  <2>4. files \in [Journal -> Seq(Stamp)] /\ pending \in Seq(Call)
    BY <2>3
  <2>5. At("returned") /\ "returned" \in AllStages
    BY <2>3 DEF At, AllStages
  <2> QED
    BY <2>2, <2>3, <2>4, <2>5, Phases DEF SystemTypeOK, StageInv, NothingRead
<1>2. SystemTypeOK /\ StageInv /\ [SystemNext]_systemVars => (SystemTypeOK /\ StageInv)'
  BY TypeStep
<1> QED
  BY <1>1, <1>2, PTL DEF SystemSpec

(***************************************************************************)
(* The program keeps values of their types, calls are made only while a    *)
(* loop runs, and a loop that has not been reached has read nothing.       *)
(***************************************************************************)
THEOREM SystemTypeCorrect == SystemSpec => []SystemTypeOK
BY TypeInvariant, PTL

-----------------------------------------------------------------------------
(* What the files hold of the line in flight. *)

\* Nothing is on file that was not read.
StampsRead ==
  \A f \in Journal : \A i \in 1 .. Len(files[f]) :
    /\ files[f][i].run <= run
    /\ files[f][i].line <= progress[files[f][i].run][files[f][i].phase]

\* The files that may get a line in this stage or a later one.
Ahead(p, s) ==
  CASE p = 1 -> IF s = "gui" THEN {"gui"} ELSE {"historicalStreaming", "gui"}
    [] p = 2 -> {"historicalPosition"}
    [] p = 3 -> IF s = "historicalExecution" THEN {"historicalExecution"}
                ELSE {"historicalPosition", "historicalExecution"}
    [] p = 4 -> {"historicalInquiry"}

\* Lines of an inquiry that were written before this stage.
Lately(s) ==
  IF s = "last" THEN 2 ELSE IF s \in {"inquiryConnector", "answer"} THEN 1 ELSE 0

(***************************************************************************)
(* A file that is still ahead has none of the line in flight, or for an    *)
(* inquiry only the lines written lately.  A stream is on file when the    *)
(* GUI is called, a position when the execution's turn has come.           *)
(***************************************************************************)
Facts(s) ==
  s # "returned" =>
    /\ \A f \in Ahead(phase, s) : \A i \in 1 .. Len(files[f]) - Lately(s) :
         files[f][i] # LineInFlight
    /\ s = "gui" => OnFile("historicalStreaming", LineInFlight)
    /\ s = "historicalExecution" => OnFile("historicalPosition", LineInFlight)

InFlightInv == \E s \in AllStages : At(s) /\ Facts(s)

LEMMA AheadIs ==
  /\ \A s : Ahead(1, s) = IF s = "gui" THEN {"gui"} ELSE {"historicalStreaming", "gui"}
  /\ \A s : Ahead(2, s) = {"historicalPosition"}
  /\ \A s : Ahead(3, s) = IF s = "historicalExecution" THEN {"historicalExecution"}
                          ELSE {"historicalPosition", "historicalExecution"}
  /\ \A s : Ahead(4, s) = {"historicalInquiry"}
BY DEF Ahead

\* How a stage and the next one differ.
LEMMA StageToStage ==
  ASSUME NEW p \in Phase, NEW s \in StagesOf(p), NEW t \in NextStages(p, s), t # "returned"
  PROVE  /\ Ahead(p, t) \subseteq Ahead(p, s) /\ Ahead(p, t) \subseteq Journal
         /\ Lately(s) \in 0 .. 2
         /\ s # "gui"
         /\ s \notin Writers => Lately(t) = Lately(s)
         /\ \A f \in Ahead(p, t) :
              s \in Writers => Lately(t) = Lately(s) + (IF f = FileOf(s) THEN 1 ELSE 0)
         /\ t = "gui" => s = "historicalStreaming"
         /\ t = "historicalExecution" => s = "historicalPosition"
<1>1. CASE p = 1
  <2>1. s \in {"algoStreaming", "streaming", "historicalStreaming"}
    BY <1>1, NextIs DEF StagesOf
  <2>2. /\ t \in {"streaming", "historicalStreaming", "gui"}
        /\ t = "gui" <=> s = "historicalStreaming"
    BY <2>1, NextIs
  <2> QED
    BY <1>1, <2>1, <2>2, AheadIs, Journals DEF Lately, Writers, FileOf, ToldOfInquiry
<1>2. CASE p = 2
  <2>1. s \in {"position", "risk", "historicalRisk"}
    BY <1>2, NextIs DEF StagesOf
  <2>2. t \in {"risk", "historicalRisk", "historicalPosition"}
    BY <2>1, NextIs
  <2> QED
    BY <1>2, <2>1, <2>2, AheadIs, Journals DEF Lately, Writers, FileOf, ToldOfInquiry
<1>3. CASE p = 3
  <2>1. s \in {"algoExecution", "execution", "tradeBooking", "position", "risk",
               "historicalRisk", "historicalPosition"}
    BY <1>3, NextIs DEF StagesOf
  <2>2. /\ t \in {"execution", "tradeBooking", "position", "risk", "historicalRisk",
                  "historicalPosition", "historicalExecution"}
        /\ t = "historicalExecution" <=> s = "historicalPosition"
    BY <1>3, <2>1, NextIs
  <2> QED
    BY <1>3, <2>1, <2>2, AheadIs, Journals DEF Lately, Writers, FileOf, ToldOfInquiry
<1>4. CASE p = 4
  <2>1. s \in {"quote", "inquiryConnector", "answer"}
    BY <1>4, NextIs DEF StagesOf
  <2>2. \/ s = "quote" /\ t = "inquiryConnector"
        \/ s = "inquiryConnector" /\ t = "answer"
        \/ s = "answer" /\ t = "last"
    BY <2>1, NextIs
  <2> QED
    BY <1>4, <2>1, <2>2, AheadIs, Journals DEF Lately, Writers, FileOf, ToldOfInquiry
<1> QED
  BY <1>1, <1>2, <1>3, <1>4, Phases

\* While calls are pending the stamp of the line in flight does not change.
LEMMA SameLineInFlight ==
  ASSUME UNCHANGED <<phase, progress>>
  PROVE  LineInFlight' = LineInFlight
BY DEF LineInFlight, run

LEMMA HandlerKeepsFacts ==
  ASSUME SystemTypeOK, NEW s \in AllStages, At(s), Facts(s), Handler
  PROVE  InFlightInv'
<1>1. /\ s # "returned" /\ phase \in Phase /\ s \in StagesOf(phase)
      /\ UNCHANGED <<phase, progress>>
      /\ s \in Writers => FileOf(s) \in Journal /\ AppendTo(FileOf(s))
      /\ s \notin Writers \cup {"gui"} => files' = files
  BY HandlerMoves
<1>2. PICK t \in NextStages(phase, s) : At(t)'
  BY HandlerMoves
<1>3. t \in AllStages
  BY <1>1, NextIsAStage
<1>4. CASE t = "returned"
  BY <1>2, <1>3, <1>4 DEF InFlightInv, Facts
<1>5. CASE t # "returned"
  <2> DEFINE p == phase
  <2>1. /\ Ahead(p, t) \subseteq Ahead(p, s) /\ Ahead(p, t) \subseteq Journal
        /\ Lately(s) \in 0 .. 2 /\ s # "gui"
        /\ s \notin Writers => Lately(t) = Lately(s)
        /\ \A f \in Ahead(p, t) :
             s \in Writers => Lately(t) = Lately(s) + (IF f = FileOf(s) THEN 1 ELSE 0)
        /\ t = "gui" => s = "historicalStreaming"
        /\ t = "historicalExecution" => s = "historicalPosition"
    BY <1>1, <1>2, <1>5, StageToStage
  <2>2. pending # <<>> /\ LineInFlight' = LineInFlight /\ phase' = p
    BY <1>1, AtFacts, SameLineInFlight
  <2>3. ASSUME NEW f \in Ahead(p, t), NEW i \in 1 .. Len(files'[f]) - Lately(t)
        PROVE  files'[f][i] # LineInFlight
    <3>1. f \in Journal /\ Len(files[f]) \in Nat
      BY <2>1 DEF SystemTypeOK
    <3>2. CASE s \in Writers /\ f = FileOf(s)
      <4>1. Len(files'[f]) = Len(files[f]) + 1 /\ Lately(t) = Lately(s) + 1
        BY <1>1, <2>1, <2>2, <3>2, AppendFacts
      <4>2. i \in 1 .. Len(files[f]) - Lately(s) /\ i \in 1 .. Len(files[f])
        BY <2>1, <3>1, <4>1
      <4>3. files'[f][i] = files[f][i]
        BY <1>1, <2>2, <3>2, <4>2, AppendFacts
      <4> QED
        BY <1>1, <2>1, <4>2, <4>3 DEF Facts
    <3>3. CASE s \notin Writers \/ f # FileOf(s)
      <4>1. files'[f] = files[f] /\ Lately(t) = Lately(s)
        BY <1>1, <2>1, <2>2, <3>1, <3>3, AppendFacts
      <4> QED
        BY <1>1, <2>1, <4>1 DEF Facts
    <3> QED
      BY <3>2, <3>3
  <2>4. ASSUME s \in Writers
        PROVE  \E i \in DOMAIN files'[FileOf(s)] : files'[FileOf(s)][i] = LineInFlight
    <3> DEFINE f == FileOf(s)
    <3>1. /\ f \in Journal /\ files'[f] \in Seq(Stamp) /\ Len(files'[f]) = Len(files[f]) + 1
          /\ Len(files[f]) \in Nat /\ files'[f][Len(files[f]) + 1] = LineInFlight
      BY <1>1, <2>2, <2>4, AppendFacts
    <3>2. Len(files[f]) + 1 \in DOMAIN files'[f]
      BY <3>1, LenProperties
    <3> QED
      BY <3>1, <3>2
  <2>5. t = "gui" => OnFile("historicalStreaming", LineInFlight)'
    BY <2>1, <2>2, <2>4 DEF OnFile, Writers, FileOf, ToldOfInquiry
  <2>6. t = "historicalExecution" => OnFile("historicalPosition", LineInFlight)'
    BY <2>1, <2>2, <2>4 DEF OnFile, Writers, FileOf, ToldOfInquiry
  <2>7. Facts(t)'
    BY <2>2, <2>3, <2>5, <2>6 DEF Facts
  <2> QED
    BY <1>2, <1>3, <2>7 DEF InFlightInv
<1> QED
  BY <1>4, <1>5

\* Stamps on file and stamps of lines.
LEMMA StampOnFile ==
  ASSUME SystemTypeOK, NEW f \in Journal, NEW i \in 1 .. Len(files[f])
  PROVE  /\ files[f][i] \in Stamp
         /\ files[f][i].run \in Nat \ {0} /\ files[f][i].phase \in Phase
         /\ files[f][i].line \in Nat \ {0}
<1>1. files[f] \in Seq(Stamp)
  BY DEF SystemTypeOK
<1>2. files[f][i] \in Stamp
  BY <1>1
<1> QED
  BY <1>2 DEF Stamp

\* Files that do not change, and a progress that does not go back.
LEMMA StampsStay ==
  ASSUME SystemTypeOK, StampsRead, files' = files, run <= run', run' \in Nat, run \in Nat,
         \A r \in 1 .. run : \A p \in Phase :
           progress[r][p] \in Nat /\ progress'[r][p] \in Nat /\ progress[r][p] <= progress'[r][p]
  PROVE  StampsRead'
<1> SUFFICES ASSUME NEW f \in Journal, NEW i \in 1 .. Len(files[f])
             PROVE  /\ files[f][i].run <= run'
                    /\ files[f][i].line <= progress'[files[f][i].run][files[f][i].phase]
  BY DEF StampsRead
<1> DEFINE s == files[f][i]
<1>1. s.run \in Nat \ {0} /\ s.phase \in Phase /\ s.line \in Nat \ {0}
  BY StampOnFile
<1>2. s.run <= run /\ s.line <= progress[s.run][s.phase]
  BY DEF StampsRead
<1> HIDE DEF s
<1>3. s.run \in 1 .. run
  BY <1>1, <1>2
<1>4. s.run <= run'
  BY <1>1, <1>2
<1>5. s.line <= progress'[s.run][s.phase]
  <2> DEFINE before == progress[s.run][s.phase]
             after  == progress'[s.run][s.phase]
  <2>1. before \in Nat /\ after \in Nat /\ before <= after
    BY <1>1, <1>3
  <2>2. s.line <= before /\ s.line \in Nat
    BY <1>1, <1>2
  <2> HIDE DEF before, after
  <2>3. s.line <= after
    BY <2>1, <2>2
  <2> QED
    BY <2>3 DEF after
<1> QED
  BY <1>4, <1>5 DEF s

LEMMA ProgressType ==
  ASSUME SystemTypeOK
  PROVE  /\ run \in Nat \ {0}
         /\ \A r \in 1 .. run : progress[r] \in [Phase -> Nat]
         /\ \A r \in 1 .. run : \A p \in Phase : progress[r][p] \in Nat
<1>1. progress \in Seq([Phase -> Nat]) /\ progress # <<>>
  BY DEF SystemTypeOK
<1>2. run \in Nat \ {0} /\ run = Len(progress)
  BY <1>1, EmptySeq, LenProperties DEF run
<1>3. \A r \in 1 .. run : progress[r] \in [Phase -> Nat]
  BY <1>1, <1>2
<1> QED
  BY <1>2, <1>3

LEMMA HandlerKeepsStamps ==
  ASSUME SystemTypeOK, StageInv, StampsRead, Handler
  PROVE  StampsRead'
<1>1. PICK s \in AllStages : At(s)
  BY DEF StageInv
<1>2. /\ s # "returned" /\ UNCHANGED <<phase, progress>>
      /\ s \in Writers => FileOf(s) \in Journal /\ AppendTo(FileOf(s))
      /\ s = "gui" => AppendTo("gui") \/ files' = files
      /\ s \notin Writers \cup {"gui"} => files' = files
  BY <1>1, HandlerMoves
<1>3. pending # <<>> /\ run' = run
  BY <1>1, <1>2, AtFacts DEF run
<1>4. CASE files' = files
  BY <1>2, <1>3, <1>4 DEF StampsRead
<1>5. ASSUME NEW g \in Journal, AppendTo(g)
      PROVE  StampsRead'
  <2> SUFFICES ASSUME NEW f \in Journal, NEW i \in 1 .. Len(files'[f])
               PROVE  /\ files'[f][i].run <= run
                      /\ files'[f][i].line <= progress[files'[f][i].run][files'[f][i].phase]
    BY <1>2, <1>3 DEF StampsRead
  <2>1. /\ Len(files[g]) \in Nat /\ Len(files'[g]) = Len(files[g]) + 1
        /\ files'[g][Len(files[g]) + 1] = LineInFlight
        /\ \A j \in 1 .. Len(files[g]) : files'[g][j] = files[g][j]
        /\ \A h \in Journal \ {g} : files'[h] = files[h]
    BY <1>3, <1>5, AppendFacts
  <2>2. CASE f = g /\ i = Len(files[g]) + 1
    <3>1. files'[f][i] = [run |-> run, phase |-> phase, line |-> progress[run][phase]]
      BY <1>3, <2>1, <2>2, InFlightType
    <3>2. run \in Nat /\ phase \in Phase /\ progress[run][phase] \in Nat
      BY <1>3, InFlightType
    <3> QED
      BY <3>1, <3>2
  <2>3. CASE ~ (f = g /\ i = Len(files[g]) + 1)
    <3>1. i \in 1 .. Len(files[f]) /\ files'[f][i] = files[f][i]
      BY <2>1, <2>3
    <3> QED
      BY <3>1 DEF StampsRead
  <2> QED
    BY <2>2, <2>3
<1> QED
  BY <1>2, <1>4, <1>5, Journals

LEMMA StampsStep ==
  ASSUME SystemTypeOK, StageInv, StampsRead, [SystemNext]_systemVars
  PROVE  StampsRead'
<1>0. /\ run \in Nat \ {0} /\ \A r \in 1 .. run : progress[r] \in [Phase -> Nat]
      /\ \A r \in 1 .. run : \A p \in Phase : progress[r][p] \in Nat
  BY ProgressType
<1>1. CASE ReadLine
  <2>1. files' = files /\ phase \in Phase
    BY <1>1, ReadLineMoves
  <2>2. /\ run' = run /\ progress'[run] = [progress[run] EXCEPT ![phase] = @ + 1]
        /\ \A r \in 1 .. run : r # run => progress'[r] = progress[r]
    BY <1>1, ProgressFacts
  <2>3. ASSUME NEW r \in 1 .. run, NEW p \in Phase
        PROVE  progress'[r][p] \in Nat /\ progress[r][p] <= progress'[r][p]
    <3>1. CASE r # run
      BY <1>0, <2>2, <3>1
    <3>2. CASE r = run
      <4>1. progress[run] \in [Phase -> Nat]
        BY <1>0
      <4>2. progress'[r][p] = IF p = phase THEN progress[r][p] + 1 ELSE progress[r][p]
        BY <2>1, <2>2, <3>2, <4>1
      <4>3. progress[r][p] \in Nat
        BY <1>0
      <4> QED
        BY <4>2, <4>3
    <3> QED
      BY <3>1, <3>2
  <2> QED
    BY <1>0, <2>1, <2>2, <2>3, StampsStay
<1>2. CASE Handler
  BY <1>2, HandlerKeepsStamps
<1>3. CASE NextFile \/ Dies \/ Stopped \/ UNCHANGED systemVars
  <2>1. UNCHANGED <<progress, files>>
    BY <1>3 DEF NextFile, Dies, Stopped, systemVars
  <2> QED
    BY <2>1 DEF StampsRead, run
<1>4. CASE Rerun
  <2>1. /\ files' = files /\ run' = run + 1
        /\ \A r \in 1 .. run : progress'[r] = progress[r]
    BY <1>4, RerunFacts
  <2> QED
    BY <1>0, <2>1, StampsStay
<1> QED
  BY <1>1, <1>2, <1>3, <1>4 DEF SystemNext, Program

LEMMA InFlightStep ==
  ASSUME SystemTypeOK, StampsRead, InFlightInv, [SystemNext]_systemVars
  PROVE  InFlightInv'
<1>1. CASE ReadLine
  <2>1. PICK t \in StagesOf(phase) : t = FirstStage[phase] /\ At(t)'
    BY <1>1, ReadLineMoves
  <2>2. phase \in Phase /\ phase' = phase /\ files' = files
    BY <1>1, ReadLineMoves
  <2>3. t \in AllStages /\ t # "gui" /\ t # "historicalExecution" /\ Lately(t) = 0
    BY <2>1, <2>2, Phases DEF FirstStage, AllStages, Lately
  <2>4. Ahead(phase, t) \subseteq Journal
    BY <2>2, AheadIs, Phases, Journals
  <2>5. /\ run' = run /\ run \in Nat \ {0} /\ progress[run] \in [Phase -> Nat]
        /\ progress'[run] = [progress[run] EXCEPT ![phase] = @ + 1]
    BY <1>1, ProgressFacts
  <2>6. LineInFlight' = [run |-> run, phase |-> phase, line |-> progress[run][phase] + 1]
    BY <2>2, <2>5 DEF LineInFlight
  <2>7. ASSUME NEW f \in Journal, NEW i \in 1 .. Len(files[f])
        PROVE  files[f][i] # LineInFlight'
    <3>1. files[f][i].line <= progress[files[f][i].run][files[f][i].phase]
      BY DEF StampsRead
    <3>2. progress[run][phase] \in Nat
      BY <2>2, <2>5
    <3>3. SUFFICES ASSUME files[f][i] = LineInFlight' PROVE FALSE
      OBVIOUS
    <3>4. progress[run][phase] + 1 <= progress[run][phase]
      BY <2>6, <3>1, <3>3
    <3> QED
      BY <3>2, <3>4
  <2>8. \A f \in Journal : Len(files[f]) \in Nat
    BY DEF SystemTypeOK
  <2>9. Facts(t)'
    <3>1. ASSUME NEW f \in Ahead(phase, t), NEW i \in 1 .. Len(files[f]) - Lately(t)
          PROVE  files[f][i] # LineInFlight'
      BY <2>3, <2>4, <2>7, <2>8
    <3> QED
      BY <2>2, <2>3, <3>1 DEF Facts
  <2> QED
    BY <2>1, <2>3, <2>9 DEF InFlightInv
<1>2. CASE Handler
  BY <1>2, HandlerKeepsFacts DEF InFlightInv
<1>3. CASE NextFile \/ Dies \/ Rerun
  <2>1. pending' = <<>>
    BY <1>3, RerunFacts DEF NextFile, Dies, Abort, wiringVars
  <2>2. At("returned")' /\ Facts("returned")' /\ "returned" \in AllStages
    BY <2>1 DEF At, Facts, AllStages
  <2> QED
    BY <2>2 DEF InFlightInv
<1>4. CASE Stopped \/ UNCHANGED systemVars
  <2>1. UNCHANGED <<alive, pending, phase, progress, died, linesRead, files>>
    BY <1>4 DEF Stopped, systemVars, wiringVars
  <2>2. LineInFlight' = LineInFlight
    BY <2>1, SameLineInFlight
  <2> QED
    BY <2>1, <2>2 DEF InFlightInv, At, Facts, OnFile
<1> QED
  BY <1>1, <1>2, <1>3, <1>4 DEF SystemNext, Program

\* The whole invariant.
SystemInv == SystemTypeOK /\ StageInv /\ StampsRead /\ InFlightInv

LEMMA SystemInvariant == SystemSpec => []SystemInv
<1>1. SystemInit => StampsRead /\ InFlightInv
  <2> SUFFICES ASSUME SystemInit PROVE StampsRead /\ InFlightInv
    OBVIOUS
  <2>1. pending = <<>> /\ files = [f \in Journal |-> <<>>]
    BY DEF SystemInit, WiringInit
  <2>2. \A f \in Journal : Len(files[f]) = 0
    BY <2>1
  <2>3. StampsRead
    BY <2>2 DEF StampsRead
  <2>4. At("returned") /\ Facts("returned") /\ "returned" \in AllStages
    BY <2>1 DEF At, Facts, AllStages
  <2> QED
    BY <2>3, <2>4 DEF InFlightInv
<1>2. SystemTypeOK /\ StageInv /\ StampsRead /\ InFlightInv /\ [SystemNext]_systemVars
        => StampsRead' /\ InFlightInv'
  BY StampsStep, InFlightStep
<1> QED
  BY <1>1, <1>2, TypeInvariant, PTL DEF SystemSpec, SystemInv

-----------------------------------------------------------------------------
(* Only the last line is lost. *)

\* What is on file stays there.
LEMMA OnFileStays ==
  ASSUME SystemInv, Handler, NEW f \in Journal, NEW x, OnFile(f, x)
  PROVE  OnFile(f, x)'
<1>1. PICK s \in AllStages : At(s)
  BY DEF SystemInv, StageInv
<1>2. /\ s # "returned" /\ SystemTypeOK
      /\ s \in Writers => FileOf(s) \in Journal /\ AppendTo(FileOf(s))
      /\ s = "gui" => AppendTo("gui") \/ files' = files
      /\ s \notin Writers \cup {"gui"} => files' = files
  BY <1>1, HandlerMoves DEF SystemInv
<1>3. pending # <<>>
  BY <1>1, <1>2, AtFacts
<1>4. CASE files' = files
  BY <1>4 DEF OnFile
<1>5. ASSUME NEW g \in Journal, AppendTo(g)
      PROVE  OnFile(f, x)'
  <2>1. /\ files'[g] \in Seq(Stamp) /\ files[g] \in Seq(Stamp)
        /\ Len(files[g]) \in Nat /\ Len(files'[g]) = Len(files[g]) + 1
        /\ \A j \in 1 .. Len(files[g]) : files'[g][j] = files[g][j]
        /\ \A h \in Journal \ {g} : files'[h] = files[h]
    BY <1>2, <1>3, <1>5, AppendFacts DEF SystemTypeOK
  <2>2. PICK i \in DOMAIN files[f] : files[f][i] = x
    BY DEF OnFile
  <2>3. i \in DOMAIN files'[f] /\ files'[f][i] = x
    BY <2>1, <2>2, LenProperties
  <2> QED
    BY <2>3 DEF OnFile
<1> QED
  BY <1>2, <1>4, <1>5, Journals

\* A stage that writes a line puts the line in flight on file.
LEMMA OnFileWritten ==
  ASSUME SystemInv, NEW s, At(s), Handler, s \in Writers
  PROVE  OnFile(FileOf(s), LineInFlight)'
<1> DEFINE f == FileOf(s)
<1>1. /\ f \in Journal /\ AppendTo(f) /\ SystemTypeOK /\ s # "returned"
      /\ UNCHANGED <<phase, progress>>
  BY HandlerMoves DEF SystemInv
<1>2. pending # <<>>
  BY <1>1, AtFacts
<1>3. /\ files'[f] \in Seq(Stamp) /\ Len(files'[f]) = Len(files[f]) + 1
      /\ Len(files[f]) \in Nat /\ files'[f][Len(files[f]) + 1] = LineInFlight
  BY <1>1, <1>2, AppendFacts
<1>4. Len(files[f]) + 1 \in DOMAIN files'[f]
  BY <1>3, LenProperties
<1>5. LineInFlight' = LineInFlight
  BY <1>1, SameLineInFlight
<1> QED
  BY <1>3, <1>4, <1>5 DEF OnFile

\* The line cut short in the present run is the one in flight.
LEMMA CutShortIsInFlight ==
  ASSUME SystemInv, pending # <<>>, NEW p \in Phase, NEW line \in Nat \ {0},
         CutShort(run, p, line)
  PROVE  p = phase /\ line = progress[run][phase]
<1>1. /\ phase \in Phase /\ progress[run][phase] > 0
      /\ \A q \in Phase : phase < q => progress[run][q] = 0
  BY DEF SystemInv, SystemTypeOK, Running
<1>2. line = progress[run][p] /\ \A q \in Phase : q > p => progress[run][q] = 0
  BY DEF CutShort
<1>3. ~ phase < p /\ ~ phase > p
  BY <1>1, <1>2
<1>4. phase = p
  BY <1>1, <1>3, Phases
<1> QED
  BY <1>2, <1>4

\* A line that was cut short stays cut short when another line is read.
LEMMA ReadLineKeepsCutShort ==
  ASSUME SystemInv, ReadLine, NEW r \in 1 .. run, NEW p, NEW line, CutShort(r, p, line)
  PROVE  CutShort(r, p, line)'
<1>1. pending = <<>> /\ died' = died
  BY ReadLineMoves
<1>2. run \notin died /\ \A x \in 1 .. run : x # run => progress'[x] = progress[x]
  BY ProgressFacts DEF SystemInv
<1>3. r \in died /\ progress'[r] = progress[r]
  BY <1>1, <1>2 DEF CutShort
<1> QED
  BY <1>1, <1>3 DEF CutShort

\* Neither do the end of a loop, a death and a new run change what was lost.
LEMMA OthersKeepCutShort ==
  ASSUME SystemInv, NextFile \/ Dies \/ Rerun \/ Stopped \/ UNCHANGED systemVars,
         NEW r \in 1 .. run, NEW p, NEW line, CutShort(r, p, line)
  PROVE  CutShort(r, p, line)' /\ progress'[r] = progress[r] /\ files' = files
<1>1. CASE NextFile \/ Stopped \/ UNCHANGED systemVars
  <2>1. UNCHANGED <<pending, progress, died, files>>
    BY <1>1 DEF NextFile, Stopped, systemVars, wiringVars
  <2> QED
    BY <2>1 DEF CutShort, run
<1>2. CASE Dies
  <2>1. died' = died \cup {run} /\ UNCHANGED <<progress, files>>
    BY <1>2 DEF Dies
  <2> QED
    BY <2>1 DEF CutShort, run
<1>3. CASE Rerun
  <2>1. pending = <<>> /\ progress'[r] = progress[r] /\ died' = died /\ files' = files
    BY <1>3, RerunFacts DEF SystemInv
  <2> QED
    BY <2>1 DEF CutShort
<1> QED
  BY <1>1, <1>2, <1>3

LEMMA JournalsOf ==
  /\ JournalOf[1] = "historicalStreaming" /\ JournalOf[2] = "historicalPosition"
  /\ JournalOf[4] = "historicalInquiry"
  /\ \A p \in {1, 2, 4} : p \in Phase /\ JournalOf[p] \in Journal
<1>1. /\ JournalOf[1] = "historicalStreaming" /\ JournalOf[2] = "historicalPosition"
      /\ JournalOf[4] = "historicalInquiry"
  BY DEF JournalOf
<1> QED
  BY <1>1, Phases, Journals

\* The last stage leaves the line in flight on file.
LEMMA ReturnedIsOnFile ==
  ASSUME SystemInv, Handler, pending' = <<>>, phase \in {1, 2, 4}
  PROVE  OnFile(JournalOf[phase], LineInFlight)'
<1>1. PICK s \in AllStages : At(s) /\ Facts(s)
  BY DEF SystemInv, InFlightInv
<1>2. /\ s # "returned" /\ phase \in Phase /\ s \in StagesOf(phase)
      /\ UNCHANGED <<phase, progress>>
  BY <1>1, HandlerMoves
<1>3. PICK t \in NextStages(phase, s) : At(t)'
  BY <1>1, HandlerMoves
<1>4. t = "returned"
  BY <1>3, NextCalls
<1>5. LineInFlight' = LineInFlight
  BY <1>2, SameLineInFlight
<1>6. CASE phase = 1
  <2>1. s = "gui"
    BY <1>2, <1>3, <1>4, <1>6, NextIs DEF StagesOf
  <2>2. OnFile("historicalStreaming", LineInFlight)
    BY <1>1, <2>1 DEF Facts
  <2> DEFINE x == LineInFlight
  <2>3. OnFile("historicalStreaming", x)
    BY <2>2
  <2> HIDE DEF x
  <2>4. \A y : OnFile("historicalStreaming", y) => OnFile("historicalStreaming", y)'
    BY OnFileStays, Journals
  <2>5. \A y : OnFile("historicalStreaming", y)
                 => \E i \in DOMAIN files'["historicalStreaming"] :
                      files'["historicalStreaming"][i] = y
    BY <2>4 DEF OnFile
  <2>6. \E i \in DOMAIN files'["historicalStreaming"] :
           files'["historicalStreaming"][i] = LineInFlight
    BY <2>2, <2>5
  <2> QED
    BY <1>2, <1>5, <1>6, <2>6, JournalsOf DEF OnFile
<1>7. CASE phase = 2
  <2>1. s = "historicalPosition"
    BY <1>2, <1>3, <1>4, <1>7, NextIs DEF StagesOf
  <2>2. s \in Writers /\ FileOf(s) = "historicalPosition"
    BY <2>1 DEF Writers, FileOf, ToldOfInquiry
  <2>3. OnFile(FileOf(s), LineInFlight)'
    BY <1>1, <2>2, OnFileWritten
  <2> QED
    BY <1>2, <1>7, <2>2, <2>3, JournalsOf
<1>8. CASE phase = 4
  <2>1. s = "last"
    BY <1>2, <1>3, <1>4, <1>8, NextIs DEF StagesOf
  <2>2. s \in Writers /\ FileOf(s) = "historicalInquiry"
    BY <2>1 DEF Writers, FileOf, ToldOfInquiry
  <2>3. OnFile(FileOf(s), LineInFlight)'
    BY <1>1, <2>2, OnFileWritten
  <2> QED
    BY <1>2, <1>8, <2>2, <2>3, JournalsOf
<1> QED
  BY <1>6, <1>7, <1>8

LEMMA LostOnReadLine ==
  ASSUME SystemInv, OnlyLastLineIsLost, ReadLine
  PROVE  OnlyLastLineIsLost'
<1>1. /\ phase \in Phase /\ files' = files /\ phase' = phase /\ run' = run /\ run \in Nat \ {0}
      /\ progress[run] \in [Phase -> Nat]
      /\ progress'[run] = [progress[run] EXCEPT ![phase] = @ + 1]
      /\ \A r \in 1 .. run : r # run => progress'[r] = progress[r]
  BY ReadLineMoves, ProgressFacts DEF SystemInv
<1>2. pending' # <<>>
  <2>1. PICK t \in StagesOf(phase) : At(t)'
    BY ReadLineMoves
  <2>2. t # "returned"
    BY <1>1, <2>1, StageOfPhase
  <2> QED
    BY <2>1, <2>2, NextCalls
<1> SUFFICES ASSUME NEW r \in 1 .. run, NEW p \in {1, 2, 4}, NEW line \in 1 .. progress'[r][p]
             PROVE  \/ OnFile(JournalOf[p], [run |-> r, phase |-> p, line |-> line])'
                    \/ CutShort(r, p, line)'
  BY <1>1 DEF OnlyLastLineIsLost
<1>3. p \in Phase
  BY JournalsOf
<1>4. CASE r = run /\ p = phase /\ line = progress[run][phase] + 1
  <2>1. line = progress'[r][p]
    BY <1>1, <1>3, <1>4
  <2>2. \A q \in Phase : q > p => progress'[r][q] = 0
    <3>1. \A q \in Phase : phase < q => progress[run][q] = 0
      BY DEF SystemInv, SystemTypeOK
    <3>2. \A q \in Phase : q > p => phase < q /\ q # phase
      BY <1>4, Phases
    <3> QED
      BY <1>1, <1>4, <3>1, <3>2
  <2> QED
    BY <1>1, <1>2, <1>4, <2>1, <2>2 DEF CutShort
<1>5. CASE ~ (r = run /\ p = phase /\ line = progress[run][phase] + 1)
  <2>1. line \in 1 .. progress[r][p]
    <3>1. CASE r # run
      BY <1>1, <3>1
    <3>2. CASE r = run /\ p # phase
      BY <1>1, <1>3, <3>2
    <3>3. CASE r = run /\ p = phase
      BY <1>1, <1>3, <1>5, <3>3
    <3> QED
      BY <3>1, <3>2, <3>3
  <2>2. \/ OnFile(JournalOf[p], [run |-> r, phase |-> p, line |-> line])
        \/ CutShort(r, p, line)
    BY <2>1 DEF OnlyLastLineIsLost
  <2>3. CASE OnFile(JournalOf[p], [run |-> r, phase |-> p, line |-> line])
    BY <1>1, <2>3 DEF OnFile
  <2>4. CASE CutShort(r, p, line)
    BY <2>4, ReadLineKeepsCutShort
  <2> QED
    BY <2>2, <2>3, <2>4
<1> QED
  BY <1>4, <1>5

LEMMA LostOnHandler ==
  ASSUME SystemInv, OnlyLastLineIsLost, Handler
  PROVE  OnlyLastLineIsLost'
<1>1. UNCHANGED <<phase, progress, died>> /\ pending # <<>>
  <2>1. PICK s \in AllStages : At(s)
    BY DEF SystemInv, StageInv
  <2> QED
    BY <2>1, HandlerMoves, AtFacts
<1>2. run' = run
  BY <1>1 DEF run
<1> SUFFICES ASSUME NEW r \in 1 .. run, NEW p \in {1, 2, 4}, NEW line \in 1 .. progress[r][p]
             PROVE  \/ OnFile(JournalOf[p], [run |-> r, phase |-> p, line |-> line])'
                    \/ CutShort(r, p, line)'
  BY <1>1, <1>2 DEF OnlyLastLineIsLost
<1> DEFINE x == [run |-> r, phase |-> p, line |-> line]
<1>3. p \in Phase /\ JournalOf[p] \in Journal
  BY JournalsOf
<1>4. line \in Nat \ {0}
  <2>1. progress[r][p] \in Nat
    BY <1>3, ProgressType DEF SystemInv
  <2> QED
    BY <2>1
<1>5. CASE OnFile(JournalOf[p], x)
  <2> HIDE DEF x
  <2>1. OnFile(JournalOf[p], x)'
    BY <1>3, <1>5, OnFileStays
  <2> QED
    BY <2>1 DEF x
<1>6. CASE CutShort(r, p, line) /\ (r \in died \/ pending' # <<>>)
  BY <1>1, <1>2, <1>6 DEF CutShort
<1>7. CASE CutShort(r, p, line) /\ r \notin died /\ pending' = <<>>
  <2>1. r = run
    BY <1>7 DEF CutShort
  <2>2. p = phase /\ line = progress[run][phase]
    BY <1>1, <1>3, <1>4, <1>7, <2>1, CutShortIsInFlight
  <2>3. x = LineInFlight
    BY <2>1, <2>2 DEF LineInFlight
  <2>4. OnFile(JournalOf[phase], LineInFlight)'
    BY <1>7, <2>2, ReturnedIsOnFile
  <2>5. LineInFlight' = LineInFlight
    BY <1>1, SameLineInFlight
  <2> QED
    BY <1>1, <2>2, <2>3, <2>4, <2>5 DEF OnFile
<1>8. OnFile(JournalOf[p], x) \/ CutShort(r, p, line)
  BY DEF OnlyLastLineIsLost
<1> QED
  BY <1>5, <1>6, <1>7, <1>8

LEMMA LostStep ==
  ASSUME SystemInv, OnlyLastLineIsLost, [SystemNext]_systemVars
  PROVE  OnlyLastLineIsLost'
<1>1. CASE ReadLine
  BY <1>1, LostOnReadLine
<1>2. CASE Handler
  BY <1>2, LostOnHandler
<1>3. CASE NextFile \/ Dies \/ Rerun \/ Stopped \/ UNCHANGED systemVars
  <2> SUFFICES ASSUME NEW r \in 1 .. run', NEW p \in {1, 2, 4},
                      NEW line \in 1 .. progress'[r][p]
               PROVE  \/ OnFile(JournalOf[p], [run |-> r, phase |-> p, line |-> line])'
                      \/ CutShort(r, p, line)'
    BY DEF OnlyLastLineIsLost
  <2>1. r \in 1 .. run
    <3>1. CASE Rerun
      <4>1. run \in Nat /\ run' = run + 1 /\ \A q \in Phase : progress'[run + 1][q] = 0
        BY <3>1, RerunFacts DEF SystemInv
      <4>2. r # run + 1
        BY <4>1, JournalsOf
      <4> QED
        BY <4>1, <4>2
    <3>2. CASE NextFile \/ Dies \/ Stopped \/ UNCHANGED systemVars
      BY <3>2 DEF NextFile, Dies, Stopped, systemVars, run
    <3> QED
      BY <1>3, <3>1, <3>2
  <2>2. progress'[r] = progress[r] /\ files' = files
    <3>1. CASE Rerun
      BY <2>1, <3>1, RerunFacts DEF SystemInv
    <3>2. CASE NextFile \/ Dies \/ Stopped \/ UNCHANGED systemVars
      BY <3>2 DEF NextFile, Dies, Stopped, systemVars
    <3> QED
      BY <1>3, <3>1, <3>2
  <2>3. \/ OnFile(JournalOf[p], [run |-> r, phase |-> p, line |-> line])
        \/ CutShort(r, p, line)
    BY <2>1, <2>2 DEF OnlyLastLineIsLost
  <2>4. CASE OnFile(JournalOf[p], [run |-> r, phase |-> p, line |-> line])
    BY <2>2, <2>4 DEF OnFile
  <2>5. CASE CutShort(r, p, line)
    BY <1>3, <2>1, <2>5, OthersKeepCutShort
  <2> QED
    BY <2>3, <2>4, <2>5
<1> QED
  BY <1>1, <1>2, <1>3 DEF SystemNext, Program

(***************************************************************************)
(* In every run, however it ends, only the last line that was read can be  *)
(* missing from the files: a line cut short is the one in flight, and the  *)
(* last handler of a line leaves it on file.                               *)
(***************************************************************************)
THEOREM OnlyLastLineEverLost == SystemSpec => []OnlyLastLineIsLost
<1>1. SystemInit => OnlyLastLineIsLost
  <2> SUFFICES ASSUME SystemInit PROVE OnlyLastLineIsLost
    OBVIOUS
  <2>1. run = 1 /\ \A p \in Phase : progress[1][p] = 0
    BY DEF SystemInit, NothingRead, run
  <2> QED
    BY <2>1, JournalsOf DEF OnlyLastLineIsLost
<1>2. SystemInv /\ OnlyLastLineIsLost /\ [SystemNext]_systemVars => OnlyLastLineIsLost'
  BY LostStep
<1> QED
  BY <1>1, <1>2, SystemInvariant, PTL DEF SystemSpec

-----------------------------------------------------------------------------
(* Executions and positions agree. *)

\* ExecutionsHavePositions, line by line.
Matched ==
  /\ \A x : x.phase = 3 /\ OnFile("historicalExecution", x) => OnFile("historicalPosition", x)
  /\ \A x : x.phase = 3 /\ OnFile("historicalPosition", x)
               /\ ~ OnFile("historicalExecution", x) => CutShort(x.run, 3, x.line)

LEMMA MatchedIsEnough == Matched => ExecutionsHavePositions
<1> SUFFICES ASSUME Matched PROVE ExecutionsHavePositions
  OBVIOUS
<1> DEFINE Market(f) == {files[f][i] : i \in {i \in DOMAIN files[f] : files[f][i].phase = 3}}
<1>1. ASSUME NEW f, NEW x
      PROVE  (x \in Market(f)) <=> (x.phase = 3 /\ OnFile(f, x))
  BY DEF OnFile
<1> HIDE DEF Market
<1>2. Market("historicalExecution") \subseteq Market("historicalPosition")
  BY <1>1 DEF Matched
<1>3. \A s \in Market("historicalPosition") \ Market("historicalExecution") :
        CutShort(s.run, 3, s.line)
  BY <1>1 DEF Matched
<1> QED
  BY <1>2, <1>3 DEF ExecutionsHavePositions, Market

\* A line on file was read in a run there was.
LEMMA OnFileIsRead ==
  ASSUME SystemInv, NEW f \in Journal, NEW x, OnFile(f, x)
  PROVE  x \in Stamp /\ x.run \in 1 .. run /\ x.line \in Nat \ {0}
<1>1. files[f] \in Seq(Stamp) /\ run \in Nat
  BY ProgressType DEF SystemInv, SystemTypeOK
<1>2. PICK i \in 1 .. Len(files[f]) : files[f][i] = x
  BY <1>1, LenProperties DEF OnFile
<1>3. x \in Stamp
  BY <1>1, <1>2
<1>4. x.run <= run
  BY <1>2 DEF SystemInv, StampsRead
<1> QED
  BY <1>1, <1>3, <1>4 DEF Stamp

\* What a handler puts on file is the line in flight.
LEMMA OnFileBefore ==
  ASSUME SystemInv, NEW s, At(s), Handler, NEW f \in Journal \ {"gui"}, NEW x, OnFile(f, x)'
  PROVE  OnFile(f, x) \/ (s \in Writers /\ f = FileOf(s) /\ x = LineInFlight)
<1>1. /\ s # "returned" /\ SystemTypeOK
      /\ s \in Writers => FileOf(s) \in Journal /\ AppendTo(FileOf(s))
      /\ s = "gui" => AppendTo("gui") \/ files' = files
      /\ s \notin Writers \cup {"gui"} => files' = files
  BY HandlerMoves DEF SystemInv
<1>2. pending # <<>> /\ files \in [Journal -> Seq(Stamp)]
  BY <1>1, AtFacts DEF SystemTypeOK
<1>3. CASE files'[f] = files[f]
  BY <1>3 DEF OnFile
<1>4. CASE s \in Writers /\ f = FileOf(s)
  <2>1. /\ files' \in [Journal -> Seq(Stamp)]
        /\ Len(files[f]) \in Nat /\ Len(files'[f]) = Len(files[f]) + 1
        /\ files'[f][Len(files[f]) + 1] = LineInFlight
        /\ \A i \in 1 .. Len(files[f]) : files'[f][i] = files[f][i]
    BY <1>1, <1>2, <1>4, AppendFacts
  <2>2. files'[f] \in Seq(Stamp) /\ files[f] \in Seq(Stamp)
    BY <1>2, <2>1
  <2>3. PICK i \in 1 .. Len(files'[f]) : files'[f][i] = x
    BY <2>2, LenProperties DEF OnFile
  <2>4. CASE i = Len(files[f]) + 1
    BY <1>4, <2>1, <2>3, <2>4
  <2>5. CASE i \in 1 .. Len(files[f])
    BY <2>1, <2>2, <2>3, <2>5, LenProperties DEF OnFile
  <2> QED
    BY <2>1, <2>4, <2>5
<1>5. CASE s \in Writers /\ f # FileOf(s)
  BY <1>1, <1>2, <1>3, <1>5, AppendFacts
<1>6. CASE s \notin Writers
  <2>1. files'[f] = files[f]
    BY <1>1, <1>2, <1>6, AppendFacts, Journals
  <2> QED
    BY <1>3, <2>1
<1> QED
  BY <1>4, <1>5, <1>6

LEMMA MatchedOnHandler ==
  ASSUME SystemInv, Matched, Handler
  PROVE  Matched'
<1> DEFINE hE == "historicalExecution"
           hP == "historicalPosition"
<1>1. PICK s \in AllStages : At(s) /\ Facts(s)
  BY DEF SystemInv, InFlightInv
<1>2. /\ s # "returned" /\ phase \in Phase /\ s \in StagesOf(phase)
      /\ UNCHANGED <<phase, progress, died>>
  BY <1>1, HandlerMoves
<1>3. PICK t \in NextStages(phase, s) : At(t)'
  BY <1>1, HandlerMoves
<1>4. /\ pending # <<>> /\ run' = run /\ LineInFlight' = LineInFlight
      /\ LineInFlight = [run |-> run, phase |-> phase, line |-> progress[run][phase]]
      /\ hE \in Journal \ {"gui"} /\ hP \in Journal \ {"gui"}
  BY <1>1, <1>2, AtFacts, SameLineInFlight, InFlightType, Journals DEF run, SystemInv
<1>5. ASSUME NEW x, x.phase = 3, OnFile(hE, x)'
      PROVE  OnFile(hP, x)'
  <2>1. CASE OnFile(hE, x)
    BY <1>4, <1>5, <2>1, OnFileStays DEF Matched
  <2>2. CASE s \in Writers /\ hE = FileOf(s) /\ x = LineInFlight
    <3>1. s = "historicalExecution"
      BY <2>2 DEF Writers, FileOf, ToldOfInquiry
    <3>2. OnFile(hP, x)
      BY <1>1, <2>2, <3>1 DEF Facts
    <3> QED
      BY <1>4, <3>2, OnFileStays
  <2> QED
    BY <1>1, <1>4, <1>5, <2>1, <2>2, OnFileBefore
<1>6. ASSUME NEW x, x.phase = 3, OnFile(hP, x)', ~ OnFile(hE, x)'
      PROVE  CutShort(x.run, 3, x.line)'
  <2>1. ~ OnFile(hE, x)
    BY <1>4, <1>6, OnFileStays
  <2>2. CASE OnFile(hP, x)
    <3>1. CutShort(x.run, 3, x.line)
      BY <1>6, <2>1, <2>2 DEF Matched
    <3>2. x \in Stamp /\ x.line \in Nat \ {0}
      BY <1>4, <2>2, OnFileIsRead
    <3>3. CASE x.run \in died \/ pending' # <<>>
      BY <1>2, <1>4, <3>1, <3>3 DEF CutShort
    <3>4. CASE x.run \notin died /\ pending' = <<>>
      <4>1. x.run = run
        BY <3>1, <3>4 DEF CutShort
      <4>2. phase = 3 /\ x.line = progress[run][phase]
        BY <1>4, <3>1, <3>2, <4>1, CutShortIsInFlight, Phases
      <4>3. x = LineInFlight
        BY <1>4, <1>6, <3>2, <4>1, <4>2 DEF Stamp
      <4>4. t = "returned"
        BY <1>3, <3>4, NextCalls
      <4>5. s = "algoExecution" \/ s = "historicalExecution"
        BY <1>2, <1>3, <4>2, <4>4, NextIs DEF StagesOf
      <4>6. CASE s = "algoExecution"
        <5>1. Lately(s) = 0 /\ hP \in Ahead(phase, s)
          BY <4>2, <4>6, AheadIs DEF Lately
        <5>2. files[hP] \in Seq(Stamp)
          BY <1>4 DEF SystemInv, SystemTypeOK
        <5>3. PICK i \in 1 .. Len(files[hP]) : files[hP][i] = x
          BY <2>2, <5>2, LenProperties DEF OnFile
        <5>4. i \in 1 .. Len(files[hP]) - Lately(s)
          BY <5>1, <5>2, <5>3, LenProperties
        <5> QED
          BY <1>1, <1>2, <4>3, <5>1, <5>3, <5>4 DEF Facts
      <4>7. CASE s = "historicalExecution"
        <5>1. s \in Writers /\ FileOf(s) = hE
          BY <4>7 DEF Writers, FileOf, ToldOfInquiry
        <5>2. OnFile(FileOf(s), LineInFlight)'
          BY <1>1, <5>1, OnFileWritten
        <5> QED
          BY <1>4, <1>6, <4>3, <5>1, <5>2 DEF OnFile
      <4> QED
        BY <4>5, <4>6, <4>7
    <3> QED
      BY <3>3, <3>4
  <2>3. CASE s \in Writers /\ hP = FileOf(s) /\ x = LineInFlight
    <3>1. s = "historicalPosition" /\ phase = 3
      BY <1>4, <1>6, <2>3 DEF Writers, FileOf, ToldOfInquiry
    <3>2. t = "historicalExecution"
      BY <1>3, <3>1, NextIs
    <3>3. pending' # <<>>
      BY <1>3, <3>2, NextCalls
    <3>4. \A q \in Phase : q > 3 => progress[run][q] = 0
      BY <3>1, Phases DEF SystemInv, SystemTypeOK
    <3>5. x.run = run /\ x.line = progress[run][3]
      BY <1>4, <2>3, <3>1
    <3> QED
      BY <1>2, <1>4, <3>3, <3>4, <3>5 DEF CutShort
  <2> QED
    BY <1>1, <1>4, <1>6, <2>2, <2>3, OnFileBefore
<1> QED
  BY <1>5, <1>6 DEF Matched

LEMMA MatchedStep ==
  ASSUME SystemInv, Matched, [SystemNext]_systemVars
  PROVE  Matched'
<1>1. CASE Handler
  BY <1>1, MatchedOnHandler
<1>2. CASE ~ Handler
  <2>1. files' = files
    <3>1. CASE ReadLine
      BY <3>1, ReadLineMoves
    <3>2. CASE NextFile \/ Dies \/ Rerun \/ Stopped \/ UNCHANGED systemVars
      BY <3>2 DEF NextFile, Dies, Rerun, Stopped, systemVars
    <3> QED
      BY <1>2, <3>1, <3>2 DEF SystemNext, Program
  <2>2. \A f, x : OnFile(f, x)' <=> OnFile(f, x)
    BY <2>1 DEF OnFile
  <2>3. ASSUME NEW x, x.phase = 3, OnFile("historicalPosition", x),
               ~ OnFile("historicalExecution", x)
        PROVE  CutShort(x.run, 3, x.line)'
    <3>1. CutShort(x.run, 3, x.line) /\ x.run \in 1 .. run
      BY <2>3, OnFileIsRead, Journals DEF Matched
    <3> QED
      BY <1>2, <3>1, ReadLineKeepsCutShort, OthersKeepCutShort DEF SystemNext, Program
  <2> QED
    BY <2>2, <2>3 DEF Matched
<1> QED
  BY <1>1, <1>2

(***************************************************************************)
(* An execution of a closed window is on file only with its position, and  *)
(* a position is without its execution only while its line is in flight,   *)
(* or when it was the last line of a run that died.                        *)
(***************************************************************************)
THEOREM ExecutionsAlwaysHavePositions == SystemSpec => []ExecutionsHavePositions
<1>1. SystemInit => Matched
  <2> SUFFICES ASSUME SystemInit PROVE Matched
    OBVIOUS
  <2>1. \A f \in Journal : \A x : ~ OnFile(f, x)
    BY DEF SystemInit, OnFile
  <2> QED
    BY <2>1, Journals DEF Matched
<1>2. SystemInv /\ Matched /\ [SystemNext]_systemVars => Matched'
  BY MatchedStep
<1> QED
  BY <1>1, <1>2, MatchedIsEnough, SystemInvariant, PTL DEF SystemSpec

-----------------------------------------------------------------------------
(* The files are in the order the program works. *)

LinesOf(f) == IF f = "historicalInquiry" THEN 3 ELSE 1

\* Stamps are totally ordered, and the line in flight is not before a line on file.
LEMMA StampOrder ==
  ASSUME NEW x \in Stamp, NEW y \in Stamp
  PROVE  /\ ~ Before(x, x)
         /\ ~ Before(y, x) /\ x # y => Before(x, y)
<1>1. /\ x.run \in Nat /\ x.phase \in Nat /\ x.line \in Nat
      /\ y.run \in Nat /\ y.phase \in Nat /\ y.line \in Nat
  BY Phases DEF Stamp
<1>2. ~ Before(x, x)
  BY <1>1 DEF Before
<1>3. ASSUME ~ Before(y, x), ~ Before(x, y)
      PROVE  x = y
  <2>1. x.run = y.run /\ x.phase = y.phase /\ x.line = y.line
    BY <1>1, <1>3 DEF Before
  <2> QED
    BY <2>1 DEF Stamp
<1> QED
  BY <1>2, <1>3

LEMMA InFlightIsLast ==
  ASSUME SystemInv, pending # <<>>, NEW f \in Journal, NEW i \in 1 .. Len(files[f])
  PROVE  ~ Before(LineInFlight, files[f][i])
<1> DEFINE x == files[f][i]
<1>1. x.run \in Nat \ {0} /\ x.phase \in Phase /\ x.line \in Nat \ {0}
  BY StampOnFile DEF SystemInv
<1>2. x.run <= run /\ x.line <= progress[x.run][x.phase]
  BY DEF SystemInv, StampsRead
<1>3. /\ LineInFlight.run = run /\ LineInFlight.phase = phase
      /\ LineInFlight.line = progress[run][phase] /\ run \in Nat /\ phase \in Phase
      /\ progress[run][phase] \in Nat
  BY InFlightType DEF SystemInv
<1>4. \A p \in Phase : phase < p => progress[run][p] = 0
  BY DEF SystemInv, SystemTypeOK
<1> HIDE DEF x
<1>5. CASE x.run # run
  BY <1>1, <1>2, <1>3, <1>5 DEF Before, x
<1>6. CASE x.run = run
  <2>1. x.line <= progress[run][x.phase]
    BY <1>2, <1>6
  <2>2. ~ phase < x.phase
    BY <1>1, <1>4, <2>1
  <2>3. x.phase = phase => ~ progress[run][phase] < x.line
    BY <1>1, <1>3, <2>1
  <2> QED
    BY <1>3, <1>6, <2>2, <2>3 DEF Before, x
<1> QED
  BY <1>5, <1>6

\* The lines of the line in flight are the last of the file, and not too many.
LEMMA WriterIsAhead ==
  ASSUME NEW p \in Phase, NEW s \in StagesOf(p), s \in Writers \cup {"gui"}
  PROVE  FileOf(s) \in Ahead(p, s) /\ Lately(s) \in Nat /\ Lately(s) + 1 <= LinesOf(FileOf(s))
<1>1. CASE p = 1
  BY <1>1, AheadIs DEF StagesOf, Writers, ToldOfInquiry, FileOf, Lately, LinesOf
<1>2. CASE p = 2
  BY <1>2, AheadIs DEF StagesOf, Writers, ToldOfInquiry, FileOf, Lately, LinesOf
<1>3. CASE p = 3
  BY <1>3, AheadIs DEF StagesOf, Writers, ToldOfInquiry, FileOf, Lately, LinesOf
<1>4. CASE p = 4
  BY <1>4, AheadIs DEF StagesOf, Writers, ToldOfInquiry, FileOf, Lately, LinesOf
<1> QED
  BY <1>1, <1>2, <1>3, <1>4, Phases

LEMMA OrderOnHandler ==
  ASSUME SystemInv, FilesInProgramOrder, Handler
  PROVE  FilesInProgramOrder'
<1>1. PICK s \in AllStages : At(s) /\ Facts(s)
  BY DEF SystemInv, InFlightInv
<1>2. /\ s # "returned" /\ phase \in Phase /\ s \in StagesOf(phase)
      /\ s \in Writers => FileOf(s) \in Journal /\ AppendTo(FileOf(s))
      /\ s = "gui" => AppendTo("gui") \/ files' = files
      /\ s \notin Writers \cup {"gui"} => files' = files
  BY <1>1, HandlerMoves
<1>3. pending # <<>> /\ SystemTypeOK /\ LineInFlight \in Stamp
      /\ files \in [Journal -> Seq(Stamp)]
  BY <1>1, <1>2, AtFacts, InFlightType DEF SystemInv, SystemTypeOK
<1>4. CASE files' = files
  BY <1>4 DEF FilesInProgramOrder
<1>5. CASE s \in Writers \cup {"gui"} /\ AppendTo(FileOf(s))
  <2> DEFINE g == FileOf(s)
             n == Len(files[g])
  <2>1. g \in Ahead(phase, s) /\ Lately(s) \in Nat /\ Lately(s) + 1 <= LinesOf(g)
    BY <1>2, <1>5, WriterIsAhead
  <2>2. g \in Journal
    BY <1>2, <1>5, Journals DEF FileOf, ToldOfInquiry
  <2>3. /\ files' \in [Journal -> Seq(Stamp)] /\ n \in Nat /\ Len(files'[g]) = n + 1
        /\ files'[g][n + 1] = LineInFlight
        /\ \A i \in 1 .. n : files'[g][i] = files[g][i]
        /\ \A h \in Journal \ {g} : files'[h] = files[h]
    BY <1>3, <1>5, <2>2, AppendFacts
  <2> SUFFICES ASSUME NEW f \in Journal, NEW i \in DOMAIN files'[f], NEW j \in DOMAIN files'[f]
               PROVE  /\ i <= j => ~ Before(files'[f][j], files'[f][i])
                      /\ i + LinesOf(f) <= j => Before(files'[f][i], files'[f][j])
    BY DEF FilesInProgramOrder, LinesOf
  <2>4. LinesOf(f) \in {1, 3} /\ files'[f] \in Seq(Stamp) /\ files[f] \in Seq(Stamp)
    BY <1>3, <2>3 DEF LinesOf
  <2>5. i \in 1 .. Len(files'[f]) /\ j \in 1 .. Len(files'[f]) /\ i \in Nat /\ j \in Nat
    BY <2>4, LenProperties
  <2>6. \A k, m \in 1 .. Len(files[f]) :
          /\ k <= m => ~ Before(files[f][m], files[f][k])
          /\ k + LinesOf(f) <= m => Before(files[f][k], files[f][m])
    BY <2>4, LenProperties DEF FilesInProgramOrder, LinesOf
  <2>7. CASE f # g
    <3>1. files'[f] = files[f]
      BY <2>3, <2>7
    <3> QED
      BY <2>5, <2>6, <3>1
  <2>8. CASE f = g /\ i <= n /\ j <= n
    <3>1. i \in 1 .. n /\ j \in 1 .. n
      BY <2>5, <2>8, <2>3
    <3>2. files'[f][i] = files[f][i] /\ files'[f][j] = files[f][j]
      BY <2>3, <2>8, <3>1
    <3> QED
      BY <2>6, <2>8, <3>1, <3>2
  <2>9. CASE f = g /\ i <= n /\ j = n + 1
    <3>1. i \in 1 .. n /\ files'[f][i] = files[f][i] /\ files'[f][j] = LineInFlight
      BY <2>3, <2>5, <2>9
    <3>2. ~ Before(LineInFlight, files[f][i]) /\ files[f][i] \in Stamp
      BY <1>3, <2>4, <2>9, <3>1, InFlightIsLast
    <3>3. ASSUME i + LinesOf(f) <= j
          PROVE  files[f][i] # LineInFlight
      <4>1. i \in 1 .. Len(files[g]) - Lately(s)
        BY <2>1, <2>3, <2>4, <2>5, <2>9, <3>3
      <4> QED
        BY <1>1, <1>2, <2>1, <2>9, <4>1 DEF Facts
    <3> QED
      BY <1>3, <3>1, <3>2, <3>3, StampOrder
  <2>10. CASE f = g /\ i = n + 1
    <3>1. j <= n + 1
      BY <2>3, <2>5, <2>10
    <3>2. i + LinesOf(f) > j
      BY <2>3, <2>4, <2>5, <2>10, <3>1
    <3>3. i <= j => j = i
      BY <2>5, <2>10, <3>1, <2>3
    <3> QED
      BY <1>3, <2>3, <2>4, <2>5, <2>10, <3>2, <3>3, StampOrder
  <2> QED
    BY <2>3, <2>5, <2>7, <2>8, <2>9, <2>10
<1> QED
  BY <1>2, <1>4, <1>5 DEF FileOf, ToldOfInquiry

(***************************************************************************)
(* Every file is in program order: the line in flight is after every line  *)
(* on file, and the lines it already has there are the last of the file.   *)
(***************************************************************************)
THEOREM FilesAlwaysInProgramOrder == SystemSpec => []FilesInProgramOrder
<1>1. SystemInit => FilesInProgramOrder
  <2> SUFFICES ASSUME SystemInit PROVE FilesInProgramOrder
    OBVIOUS
  <2>1. \A f \in Journal : DOMAIN files[f] = {}
    BY DEF SystemInit
  <2> QED
    BY <2>1 DEF FilesInProgramOrder
<1>2. SystemInv /\ FilesInProgramOrder /\ [SystemNext]_systemVars => FilesInProgramOrder'
  <2> SUFFICES ASSUME SystemInv, FilesInProgramOrder, [SystemNext]_systemVars
               PROVE  FilesInProgramOrder'
    OBVIOUS
  <2>1. CASE Handler
    BY <2>1, OrderOnHandler
  <2>2. CASE ReadLine
    <3>1. files' = files
      BY <2>2, ReadLineMoves
    <3> QED
      BY <3>1 DEF FilesInProgramOrder
  <2>3. CASE NextFile \/ Dies \/ Rerun \/ Stopped \/ UNCHANGED systemVars
    <3>1. files' = files
      BY <2>3 DEF NextFile, Dies, Rerun, Stopped, systemVars
    <3> QED
      BY <3>1 DEF FilesInProgramOrder
  <2> QED
    BY <2>1, <2>2, <2>3 DEF SystemNext, Program
<1> QED
  BY <1>1, <1>2, SystemInvariant, PTL DEF SystemSpec

=============================================================================
