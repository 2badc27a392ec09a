------------------------------- MODULE Wiring -------------------------------
(***************************************************************************)
(* The service framework of soa.hpp, wired as in main.cpp:53-65: which     *)
(* service calls which listener with which callback, and in which order.   *)
(* Data is left out.                                                       *)
(*                                                                         *)
(* Calls are nested: a listener that is called calls its own listeners     *)
(* before the caller goes on to the next of its own.  The calls that will  *)
(* be made if nothing else happens are kept as a sequence, first the one   *)
(* about to be made.  One action is one callback, up to its own calls.     *)
(***************************************************************************)
EXTENDS Integers, Sequences

CONSTANT Sources   \* services called from outside the part that is modelled

(***************************************************************************)
(* What main's AddListener calls leave in the services' vectors.           *)
(***************************************************************************)
listeners ==
  [pricing       |-> <<"algoStreaming", "gui">>,
   algoStreaming |-> <<"streaming">>,
   streaming     |-> <<"historicalStreaming">>,
   marketData    |-> <<"algoExecution">>,
   algoExecution |-> <<"execution">>,
   execution     |-> <<"tradeBooking", "historicalExecution">>,
   tradeBooking  |-> <<"position">>,
   position      |-> <<"risk", "historicalPosition">>,
   risk          |-> <<"historicalRisk">>,
   inquiry       |-> <<"historicalInquiry">>]

ASSUME SourceAssumption == Sources \subseteq DOMAIN listeners

Historical ==
  {"historicalStreaming", "historicalExecution", "historicalPosition",
   "historicalRisk", "historicalInquiry"}

\* The callbacks of ServiceListener that are used; nothing is ever removed.
Event == {"add", "update"}

Call ==
  [to : DOMAIN listeners \cup Historical \cup {"gui", "inquiryConnector"},
   event : Event]

VARIABLES
  alive,    \* the process runs
  pending   \* the calls to be made, next first

wiringVars == <<alive, pending>>

\* Mutant: the loop over the listeners stops after the first.
AnnounceToFirst(service, event) ==
  <<[to |-> listeners[service][1], event |-> event]>>

\* Mutant: every listener was registered twice.
AnnounceTwice(service, event) ==
  [i \in 1 .. 2 * Len(listeners[service]) |->
     [to |-> (listeners[service] \o listeners[service])[i], event |-> event]]

\* The calls a service makes to its listeners, in the order they registered.
Announce(service, event) ==
  [i \in DOMAIN listeners[service] |->
     [to |-> listeners[service][i], event |-> event]]

-----------------------------------------------------------------------------
WiringInit == alive = TRUE /\ pending = <<>>

(***************************************************************************)
(* A service is given a message from outside, and will call its listeners. *)
(* It is given the next only when all the calls have returned.             *)
(***************************************************************************)
OnMessage(service) ==
  /\ service \in Sources
  /\ alive /\ pending = <<>>
  /\ pending' = Announce(service, "add")
  /\ UNCHANGED alive

(***************************************************************************)
(* OnMessage of an inquiry that is RECEIVED: SendQuote announces the       *)
(* quote, then the connector is called.                                    *)
(***************************************************************************)
OnInquiry ==
  /\ "inquiry" \in Sources
  /\ alive /\ pending = <<>>
  /\ pending' = Announce("inquiry", "add") \o <<[to |-> "inquiryConnector", event |-> "add"]>>
  /\ UNCHANGED alive

\* Mutant: the calls a listener makes wait for those already to be made.
NestedLast(calls) == Tail(pending) \o calls

\* The calls a listener makes come before all others.
Nested(calls) == calls \o Tail(pending)

(***************************************************************************)
(* The listener is called; it makes these calls if it is told of an        *)
(* addition.  Every ProcessUpdate and ProcessRemove is empty.              *)
(***************************************************************************)
Process(listener, calls) ==
  /\ pending # <<>>
  /\ Head(pending).to = listener
  /\ pending' = Nested(IF Head(pending).event = "add" THEN calls ELSE <<>>)
  /\ UNCHANGED alive

\* AlgoPublishPrice.
AlgoStreamingToPricingListener ==
  Process("algoStreaming", Announce("algoStreaming", "add"))

\* OnMessage, which tells nobody, and PublishPrice.
StreamingListenerFromAlgoStreaming ==
  Process("streaming", Announce("streaming", "add"))

\* GUIService::OnMessage calls the connector and no listener.
GUIToPricingListener == Process("gui", <<>>)

\* AlgoExecuteOrder announces an execution if the market is tight enough.
AlgoExecutionListenerFromMarketData ==
  \/ Process("algoExecution", Announce("algoExecution", "add"))
  \/ Process("algoExecution", <<>>)

\* OnMessage, which tells nobody, and ExecuteOrder.
ExecutionToAlgoExecutionListener ==
  Process("execution", Announce("execution", "add"))

\* A trade made of the execution is handed to TradeBookingService::OnMessage.
TradeBookingListenerFromExecution ==
  Process("tradeBooking", Announce("tradeBooking", "add"))

\* AddTrade and the OnMessage it ends in.
PositionListenerFromTradeBooking ==
  Process("position", Announce("position", "add"))

\* AddPosition and OnMessage, which announces an update.
RiskListenerFromPosition == Process("risk", Announce("risk", "update"))

\* PersistData hands the data to the connector.
HistoricalDataListener == \E h \in Historical : Process(h, <<>>)

\* Mutant: Publish leaves the inquiry RECEIVED, so that OnMessage publishes it.
InquiryConnectorAgain ==
  Process("inquiryConnector", <<[to |-> "inquiryConnector", event |-> "add"]>>)

\* Publish calls OnMessage twice, and each announces the inquiry.
InquiryConnector ==
  Process("inquiryConnector", Announce("inquiry", "add") \o Announce("inquiry", "add"))

\* The process dies: the calls it would have made are never made.
Abort == alive /\ alive' = FALSE /\ pending' = <<>>

\* The program is started again after it died.
StartAgain == ~ alive /\ alive' = TRUE /\ UNCHANGED pending

WiringNext ==
  \/ \E service \in Sources \ {"inquiry"} : OnMessage(service)
  \/ OnInquiry
  \/ AlgoStreamingToPricingListener
  \/ StreamingListenerFromAlgoStreaming
  \/ GUIToPricingListener
  \/ AlgoExecutionListenerFromMarketData
  \/ ExecutionToAlgoExecutionListener
  \/ TradeBookingListenerFromExecution
  \/ PositionListenerFromTradeBooking
  \/ RiskListenerFromPosition
  \/ HistoricalDataListener
  \/ InquiryConnector
  \/ Abort
  \/ StartAgain

WiringSpec == WiringInit /\ [][WiringNext]_wiringVars

=============================================================================
