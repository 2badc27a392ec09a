------------------------------ MODULE Inquiry -------------------------------
(***************************************************************************)
(* The inquiry service, its connector and the historical inquiry service   *)
(* (inquiryservice.hpp, main.cpp:65).                                      *)
(*                                                                         *)
(* An inquiry read from inquiries.txt is carried by reference through      *)
(*                                                                         *)
(*   OnMessage (RECEIVED) -> SendQuote                                     *)
(*                        -> InquiryConnector::Publish                     *)
(*                             -> OnMessage (QUOTED) -> OnMessage (DONE)   *)
(*                                                                         *)
(* while the service keeps copies of it in a map.  One action is one call  *)
(* up to the next one or to its line of allinquiries.txt; pc names the     *)
(* call about to be made.  A process that dies leaves the lines it had     *)
(* written.                                                                *)
(***************************************************************************)
EXTENDS Integers, Sequences, FiniteSets, Maps

CONSTANTS
  InquiryIds,
  Terms,       \* product, side and quantity, which no handler changes
  Prices,      \* prices on the lines of inquiries.txt
  NoInquiry,   \* no inquiry in flight
  MaxLines,    \* bound: inquiries read, over all runs
  MaxDeaths    \* bound: abnormal ends, over all runs

Quote == 100   \* what OnMessage asks SendQuote for

InquiryState == {"RECEIVED", "QUOTED", "DONE", "REJECTED", "CUSTOMER_REJECTED"}

Inquiry ==
  [inquiryId : InquiryIds, terms : Terms, price : Prices \cup {Quote},
   state : InquiryState]

ASSUME NoInquiryAssumption == NoInquiry \notin Inquiry

VARIABLES
  pc,         \* the call about to be made
  data,       \* the inquiry passed by reference from Subscribe on
  inquiries,  \* the service's copies, keyed on inquiry identifier
  file,       \* allinquiries.txt, which outlives the process
  deaths,     \* abnormal ends so far
  linesRead,  \* inquiries read over all runs, for MaxLines
  received,   \* history: the inquiries read in this run
  mark        \* history: the length of the file when the run began

inquiryVars == <<pc, data, inquiries, file, deaths, linesRead, received, mark>>

InquiryInit ==
  /\ pc = "idle" /\ data = NoInquiry
  /\ inquiries = EmptyMap
  /\ file = <<>>
  /\ deaths = 0 /\ linesRead = 0
  /\ received = <<>> /\ mark = 0

\* Mutant: map::insert, which leaves an entry that is already there.
StoreIfAbsent(inquiry) ==
  Put(inquiries, inquiry.inquiryId, Lookup(inquiries, inquiry.inquiryId, inquiry))

\* inquiries[_data.GetInquiryId()] = _data
Store(inquiry) == Put(inquiries, inquiry.inquiryId, inquiry)

\* A line of inquiries.txt; whatever its last cell says, it is RECEIVED.
Parse(id, terms, price) ==
  [inquiryId |-> id, terms |-> terms, price |-> price, state |-> "RECEIVED"]

\* Mutant: OnMessage calls the connector without SendQuote.
ReadUnquoted(inquiry) ==
  /\ pc = "idle"
  /\ linesRead < MaxLines
  /\ linesRead' = linesRead + 1
  /\ data' = inquiry
  /\ inquiries' = Store(inquiry)
  /\ received' = Append(received, inquiry)
  /\ pc' = "publish"
  /\ UNCHANGED <<file, deaths, mark>>

\* Subscribe parses a line and calls OnMessage, which stores the inquiry.
ReadInquiry(inquiry) ==
  /\ pc = "idle"
  /\ linesRead < MaxLines
  /\ linesRead' = linesRead + 1
  /\ data' = inquiry
  /\ inquiries' = Store(inquiry)
  /\ received' = Append(received, inquiry)
  /\ pc' = "sendQuote"
  /\ UNCHANGED <<file, deaths, mark>>

\* Mutant: the quote is sent without its price.
WithoutQuote(inquiry) == inquiry

WithQuote(inquiry) == [inquiry EXCEPT !.price = Quote]

(***************************************************************************)
(* SendQuote prices the service's copy, not data, and announces it; then   *)
(* the connector is called with data.                                      *)
(***************************************************************************)
SendQuote ==
  LET stored == inquiries[data.inquiryId]
  IN  /\ pc = "sendQuote"
      /\ IF stored.state = "RECEIVED"
         THEN /\ inquiries' = Store(WithQuote(stored))
              /\ file' = Append(file, WithQuote(stored))
         ELSE UNCHANGED <<inquiries, file>>
      /\ pc' = "publish"
      /\ UNCHANGED <<data, deaths, linesRead, received, mark>>

\* Mutant: the service leaves a QUOTED inquiry as it is.
NotAnswered(inquiry) == inquiry

\* OnMessage moves a QUOTED inquiry to DONE.
Answered(inquiry) ==
  IF inquiry.state = "QUOTED" THEN [inquiry EXCEPT !.state = "DONE"] ELSE inquiry

\* OnMessage of a QUOTED or DONE inquiry: it is stored and announced.
Announce(inquiry) ==
  /\ inquiries' = Store(inquiry)
  /\ file' = Append(file, inquiry)
  /\ UNCHANGED <<deaths, linesRead, received, mark>>

\* Mutant: the update with a DONE state is not sent.
PublishOnce ==
  /\ pc = "publish"
  /\ Announce(Answered([data EXCEPT !.state = "QUOTED"]))
  /\ data' = NoInquiry
  /\ pc' = "idle"

(***************************************************************************)
(* InquiryConnector::Publish, which does nothing unless data is RECEIVED.  *)
(* OnMessage stores what it makes of the QUOTED inquiry and announces it.  *)
(***************************************************************************)
Publish ==
  /\ pc = "publish"
  /\ IF data.state = "RECEIVED"
     THEN LET answered == Answered([data EXCEPT !.state = "QUOTED"])
          IN  data' = answered /\ inquiries' = Store(answered) /\ pc' = "persist"
     ELSE pc' = "idle" /\ data' = NoInquiry /\ UNCHANGED inquiries
  /\ UNCHANGED <<file, deaths, linesRead, received, mark>>

\* The listener that OnMessage announces the answer to; it returns to Publish.
PersistAnswer ==
  /\ pc = "persist"
  /\ file' = Append(file, data)
  /\ pc' = "publishDone"
  /\ UNCHANGED <<data, inquiries, deaths, linesRead, received, mark>>

\* Mutant: the update with a DONE state is sent twice.
PublishDoneAgain ==
  /\ pc = "publishDone"
  /\ inquiries' = Store([data EXCEPT !.state = "DONE"])
  /\ file' = Append(Append(file, [data EXCEPT !.state = "DONE"]),
                    [data EXCEPT !.state = "DONE"])
  /\ data' = NoInquiry
  /\ pc' = "idle"
  /\ UNCHANGED <<deaths, linesRead, received, mark>>

\* Publish's second update; Subscribe goes on to the next line.
PublishDone ==
  /\ pc = "publishDone"
  /\ Announce(Answered([data EXCEPT !.state = "DONE"]))
  /\ data' = NoInquiry
  /\ pc' = "idle"

-----------------------------------------------------------------------------
Dies ==
  /\ deaths < MaxDeaths
  /\ deaths' = deaths + 1
  /\ pc' = "dead"
  /\ UNCHANGED <<data, inquiries, file, linesRead, received, mark>>

\* GetBond, ConvertPrice or stol throws on a line, before anything is stored.
BadLine == pc = "idle" /\ Dies

\* The process is killed between two calls.
Crash == pc \notin {"idle", "dead"} /\ Dies

\* The program is run again, after it died or after it ended.
Restart ==
  /\ pc = "dead" \/ (pc = "idle" /\ received # <<>>)
  /\ pc' = "idle" /\ data' = NoInquiry
  /\ inquiries' = EmptyMap
  /\ received' = <<>> /\ mark' = Len(file)
  /\ UNCHANGED <<file, deaths, linesRead>>

\* A line with less than six cells is skipped, and the file has an end.
SkipLine == pc = "idle" /\ UNCHANGED inquiryVars

Handler == SendQuote \/ Publish \/ PersistAnswer \/ PublishDone

InquiryNext ==
  \/ \E id \in InquiryIds, terms \in Terms, price \in Prices :
       ReadInquiry(Parse(id, terms, price))
  \/ Handler
  \/ SkipLine
  \/ BadLine
  \/ Crash
  \/ Restart

\* A call that was made runs on: the program has one thread and never waits.
InquirySpec == InquiryInit /\ [][InquiryNext]_inquiryVars /\ WF_inquiryVars(Handler)

-----------------------------------------------------------------------------
\* Types, and what a call finds when it is made; QUOTED is a state that no line
\* of the file ever shows.
InquiryTypeOK ==
  /\ pc \in {"idle", "sendQuote", "publish", "persist", "publishDone", "dead"}
  /\ data \in Inquiry \cup {NoInquiry}
  /\ pc \in {"sendQuote", "publish", "persist", "publishDone"} => data \in Inquiry
  /\ pc = "sendQuote" => data.inquiryId \in DOMAIN inquiries
  /\ IsMap(inquiries, InquiryIds, Inquiry)
  /\ file \in Seq(Inquiry)
  /\ \A i \in DOMAIN file : file[i].state \in {"RECEIVED", "DONE"}
  /\ received \in Seq(Inquiry)
  /\ deaths \in Nat /\ linesRead \in Nat /\ mark \in Nat

Done(inquiry) == [inquiry EXCEPT !.state = "DONE"]

(***************************************************************************)
(* The lines this run added to allinquiries.txt are three for each         *)
(* inquiry, in the order the inquiries were read: the quote, then twice    *)
(* the inquiry as it was read and DONE.  Only the last inquiry read may be *)
(* short of lines, by as many as there are lines left to write.            *)
(***************************************************************************)
FileTellsEachInquiry ==
  LET written == Len(file) - mark
      LinesLeft == CASE pc = "idle" -> 0 [] pc = "publishDone" -> 1
                     [] pc \in {"publish", "persist"} -> 2 [] pc = "sendQuote" -> 3
  IN  /\ IF pc = "dead" THEN written \in 3 * Len(received) - 3 .. 3 * Len(received)
                        ELSE written = 3 * Len(received) - LinesLeft
      /\ \A n \in 1 .. written :
           LET inquiry == received[((n - 1) \div 3) + 1]
           IN  file[mark + n] = IF n % 3 = 1 THEN [inquiry EXCEPT !.price = 100]
                                              ELSE Done(inquiry)

(***************************************************************************)
(* Between two lines the service holds, for each identifier seen in this   *)
(* run, the last inquiry read under it, DONE at the price it was read      *)
(* with: an inquiry that reuses an identifier is answered like any other,  *)
(* and no quote or intermediate state is left behind in the map.           *)
(***************************************************************************)
StoredIsLatest ==
  pc = "idle" =>
    /\ DOMAIN inquiries = {received[i].inquiryId : i \in DOMAIN received}
    /\ \A i \in DOMAIN received :
         (\A j \in DOMAIN received : i < j => received[j].inquiryId # received[i].inquiryId)
           => inquiries[received[i].inquiryId] = Done(received[i])

FileLines(state) == Cardinality({i \in DOMAIN file : file[i].state = state})

(***************************************************************************)
(* Over all runs and however they ended, the file has two DONE lines for   *)
(* every quote, but for two at most for each abnormal end.                 *)
(***************************************************************************)
QuotesAreAnswered ==
  LET missing == 2 * FileLines("RECEIVED") - FileLines("DONE")
  IN  0 <= missing /\ missing <= 2 * (deaths + (IF pc = "idle" THEN 0 ELSE 1))

(***************************************************************************)
(* Every inquiry read is quoted and done on file, and Subscribe gets to    *)
(* the next line, unless the process dies first.                           *)
(***************************************************************************)
InquiryCompletes ==
  \A n \in 1 .. MaxLines :
    (pc # "dead" /\ Len(received) = n)
      ~> (pc = "dead" \/ (Len(file) - mark >= 3 * n /\ pc = "idle"))

(***************************************************************************)
(* "The BondInquiryService should send a quote of 100 back to a Connector  *)
(* via the Publish() method." (inquiryservice.hpp:105, and again :198):    *)
(* the inquiry Publish is called with is priced 100.                       *)
(***************************************************************************)
QuoteReachesConnector == pc = "publish" => data.price = Quote

(***************************************************************************)
(* The calls still to be made at each pc are those of Wiring: the quote is *)
(* announced before the connector is called, and the connector makes the   *)
(* service announce the inquiry twice before the next line is read.        *)
(***************************************************************************)
Add(listener) == [to |-> listener, event |-> "add"]

CallsPending ==
  CASE pc = "sendQuote"   -> <<Add("historicalInquiry"), Add("inquiryConnector")>>
    [] pc = "publish"     -> <<Add("inquiryConnector")>>
    [] pc = "persist"     -> <<Add("historicalInquiry"), Add("historicalInquiry")>>
    [] pc = "publishDone" -> <<Add("historicalInquiry")>>
    [] OTHER              -> <<>>

Wires == INSTANCE Wiring WITH Sources <- {"inquiry"}, alive <- (pc # "dead"), pending <- CallsPending
InquiryImplementsWiring == Wires!WiringSpec

=============================================================================
