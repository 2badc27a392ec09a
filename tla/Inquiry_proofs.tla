-------------------------- MODULE Inquiry_proofs ----------------------------
(***************************************************************************)
(* Theorems about Inquiry, for every set of identifiers, terms and prices  *)
(* and every number of inquiries, abnormal ends and runs.                  *)
(***************************************************************************)
EXTENDS Inquiry, Induction_proofs, SequenceTheorems

-----------------------------------------------------------------------------
(* What the handlers compute. *)

LEMMA PutIsMap ==
  ASSUME NEW K, NEW V, NEW map, IsMap(map, K, V), NEW k \in K, NEW v \in V
  PROVE  IsMap(Put(map, k, v), K, V)
BY Zenon DEF IsMap, Put

LEMMA ParseType ==
  ASSUME NEW id \in InquiryIds, NEW terms \in Terms, NEW price \in Prices
  PROVE  Parse(id, terms, price) \in Inquiry /\ Parse(id, terms, price).state = "RECEIVED"
BY DEF Parse, Inquiry, InquiryState

LEMMA WithQuoteType ==
  ASSUME NEW inquiry \in Inquiry
  PROVE  /\ WithQuote(inquiry) \in Inquiry
         /\ WithQuote(inquiry).state = inquiry.state
         /\ WithQuote(inquiry).inquiryId = inquiry.inquiryId
BY DEF WithQuote, Inquiry, Quote

LEMMA DoneType ==
  ASSUME NEW inquiry \in Inquiry
  PROVE  /\ Done(inquiry) \in Inquiry
         /\ Done(inquiry).state = "DONE"
         /\ Done(inquiry).inquiryId = inquiry.inquiryId
         /\ Done(Done(inquiry)) = Done(inquiry)
BY DEF Done, Inquiry, InquiryState

\* Both updates of the connector end in DONE.
LEMMA BothUpdatesAreDone ==
  ASSUME NEW inquiry \in Inquiry
  PROVE  /\ Answered([inquiry EXCEPT !.state = "QUOTED"]) = Done(inquiry)
         /\ Answered([inquiry EXCEPT !.state = "DONE"]) = Done(inquiry)
BY DEF Answered, Done, Inquiry, InquiryState

-----------------------------------------------------------------------------
(* What is in flight. *)

Latest == received[Len(received)]

(***************************************************************************)
(* While calls are under way, data is the inquiry read last, RECEIVED      *)
(* until the connector's first update and DONE after it; SendQuote finds   *)
(* the same inquiry in the map.                                            *)
(***************************************************************************)
FlightInv ==
  /\ \A i \in DOMAIN received : received[i].state = "RECEIVED"
  /\ pc \in {"sendQuote", "publish", "persist", "publishDone"} => received # <<>>
  /\ pc = "sendQuote" => data = Latest /\ inquiries[Latest.inquiryId] = Latest
  /\ pc = "publish" => data = Latest
  /\ pc \in {"persist", "publishDone"} => data = Done(Latest)

LEMMA ReadInquiryKeepsFlight ==
  ASSUME InquiryTypeOK, FlightInv,
         NEW inquiry \in Inquiry, inquiry.state = "RECEIVED", ReadInquiry(inquiry)
  PROVE  (InquiryTypeOK /\ FlightInv)'
<1>1. /\ received' = Append(received, inquiry) /\ data' = inquiry
      /\ pc' = "sendQuote" /\ inquiries' = Put(inquiries, inquiry.inquiryId, inquiry)
      /\ UNCHANGED <<file, deaths, mark>> /\ linesRead' \in Nat
  BY DEF ReadInquiry, Store, InquiryTypeOK
<1>2. /\ received' \in Seq(Inquiry) /\ received' # <<>>
      /\ Len(received') = Len(received) + 1 /\ Len(received) \in Nat
      /\ received'[Len(received) + 1] = inquiry
      /\ \A i \in 1 .. Len(received) : received'[i] = received[i]
  BY <1>1, AppendProperties DEF InquiryTypeOK
<1>3. IsMap(inquiries', InquiryIds, Inquiry)
  BY <1>1, PutIsMap DEF InquiryTypeOK, Inquiry
<1>4. inquiry.inquiryId \in DOMAIN inquiries' /\ inquiries'[inquiry.inquiryId] = inquiry
  BY <1>1 DEF Put
<1>5. InquiryTypeOK'
  BY <1>1, <1>2, <1>3, <1>4 DEF InquiryTypeOK
<1>6. Latest' = inquiry
  BY <1>2 DEF Latest
<1>7. \A i \in DOMAIN received' : received'[i].state = "RECEIVED"
  <2> TAKE i \in DOMAIN received'
  <2>1. i = Len(received) + 1 \/ i \in DOMAIN received
    BY <1>2, LenProperties DEF InquiryTypeOK
  <2> QED
    BY <1>2, <2>1 DEF FlightInv, InquiryTypeOK
<1> QED
  BY <1>1, <1>2, <1>4, <1>5, <1>6, <1>7 DEF FlightInv

(***************************************************************************)
(* What the calls append and store, given what is in flight.               *)
(***************************************************************************)
LEMMA SendQuoteStores ==
  ASSUME InquiryTypeOK, FlightInv, SendQuote
  PROVE  /\ Latest \in Inquiry /\ Latest.state = "RECEIVED"
         /\ pc = "sendQuote" /\ pc' = "publish" /\ data' = data /\ data = Latest
         /\ inquiries' = Put(inquiries, Latest.inquiryId, WithQuote(Latest))
         /\ file' = Append(file, WithQuote(Latest))
         /\ UNCHANGED <<deaths, linesRead, received, mark>>
<1>1. pc = "sendQuote" /\ data = Latest /\ inquiries[data.inquiryId] = Latest
  BY DEF SendQuote, FlightInv
<1>2. Latest \in Inquiry /\ Latest.state = "RECEIVED"
  <2>1. Len(received) \in DOMAIN received
    BY <1>1, LenProperties, EmptySeq DEF FlightInv, InquiryTypeOK
  <2> QED
    BY <1>1, <2>1 DEF Latest, FlightInv, InquiryTypeOK
<1>3. WithQuote(Latest).inquiryId = Latest.inquiryId
  BY <1>2, WithQuoteType
<1> QED
  BY <1>1, <1>2, <1>3 DEF SendQuote, Store

LEMMA PublishStores ==
  ASSUME InquiryTypeOK, FlightInv, Publish
  PROVE  /\ Latest \in Inquiry /\ pc = "publish" /\ pc' = "persist"
         /\ data' = Done(Latest)
         /\ inquiries' = Put(inquiries, Latest.inquiryId, Done(Latest))
         /\ UNCHANGED <<file, deaths, linesRead, received, mark>>
<1>1. pc = "publish" /\ data = Latest /\ Len(received) \in DOMAIN received
  BY LenProperties, EmptySeq DEF Publish, FlightInv, InquiryTypeOK
<1>2. Latest \in Inquiry /\ data.state = "RECEIVED"
  BY <1>1 DEF Latest, FlightInv, InquiryTypeOK
<1>3. Answered([data EXCEPT !.state = "QUOTED"]) = Done(Latest)
  BY <1>1, <1>2, BothUpdatesAreDone
<1>4. Done(Latest).inquiryId = Latest.inquiryId
  BY <1>2, DoneType
<1> QED
  BY <1>1, <1>2, <1>3, <1>4 DEF Publish, Store

LEMMA PersistAnswerStores ==
  ASSUME InquiryTypeOK, FlightInv, PersistAnswer
  PROVE  /\ Latest \in Inquiry /\ pc = "persist" /\ pc' = "publishDone"
         /\ data = Done(Latest) /\ data' = data
         /\ file' = Append(file, Done(Latest))
         /\ UNCHANGED <<inquiries, deaths, linesRead, received, mark>>
<1>1. pc = "persist" /\ data = Done(Latest) /\ Len(received) \in DOMAIN received
  BY LenProperties, EmptySeq DEF PersistAnswer, FlightInv, InquiryTypeOK
<1>2. Latest \in Inquiry
  BY <1>1 DEF Latest, InquiryTypeOK
<1> QED
  BY <1>1, <1>2 DEF PersistAnswer

LEMMA PublishDoneStores ==
  ASSUME InquiryTypeOK, FlightInv, PublishDone
  PROVE  /\ Latest \in Inquiry /\ pc = "publishDone" /\ pc' = "idle"
         /\ data' = NoInquiry
         /\ inquiries' = Put(inquiries, Latest.inquiryId, Done(Latest))
         /\ file' = Append(file, Done(Latest))
         /\ UNCHANGED <<deaths, linesRead, received, mark>>
<1>1. pc = "publishDone" /\ data = Done(Latest) /\ Len(received) \in DOMAIN received
  BY LenProperties, EmptySeq DEF PublishDone, FlightInv, InquiryTypeOK
<1>2. Latest \in Inquiry
  BY <1>1 DEF Latest, InquiryTypeOK
<1>3. Answered([data EXCEPT !.state = "DONE"]) = Done(Latest)
  BY <1>1, <1>2, BothUpdatesAreDone, DoneType
<1>4. Done(Latest).inquiryId = Latest.inquiryId
  BY <1>2, DoneType
<1> QED
  BY <1>1, <1>2, <1>3, <1>4 DEF PublishDone, Announce, Store

\* A line of the file is an inquiry that is RECEIVED or DONE.
LEMMA FileType ==
  ASSUME InquiryTypeOK, NEW line \in Inquiry, line.state \in {"RECEIVED", "DONE"},
         file' = Append(file, line)
  PROVE  /\ file' \in Seq(Inquiry)
         /\ \A i \in DOMAIN file' : file'[i].state \in {"RECEIVED", "DONE"}
         /\ Len(file') = Len(file) + 1 /\ Len(file) \in Nat
         /\ file'[Len(file) + 1] = line
         /\ \A i \in 1 .. Len(file) : file'[i] = file[i]
<1>1. file \in Seq(Inquiry)
  BY DEF InquiryTypeOK
<1>2. /\ file' \in Seq(Inquiry) /\ Len(file') = Len(file) + 1 /\ Len(file) \in Nat
      /\ file'[Len(file) + 1] = line /\ \A i \in 1 .. Len(file) : file'[i] = file[i]
  BY <1>1, AppendProperties
<1>3. \A i \in DOMAIN file' : file'[i].state \in {"RECEIVED", "DONE"}
  <2> TAKE i \in DOMAIN file'
  <2>1. i = Len(file) + 1 \/ i \in DOMAIN file
    BY <1>1, <1>2, LenProperties
  <2> QED
    BY <1>1, <1>2, <2>1, LenProperties DEF InquiryTypeOK
<1> QED
  BY <1>2, <1>3

LEMMA HandlersKeepFlight ==
  ASSUME InquiryTypeOK, FlightInv, Handler
  PROVE  (InquiryTypeOK /\ FlightInv)'
<1>1. CASE SendQuote
  <2>1. /\ WithQuote(Latest) \in Inquiry /\ WithQuote(Latest).state = "RECEIVED"
        /\ Latest.inquiryId \in InquiryIds
    BY <1>1, SendQuoteStores, WithQuoteType DEF Inquiry
  <2>2. IsMap(inquiries', InquiryIds, Inquiry)
    BY <1>1, <2>1, SendQuoteStores, PutIsMap DEF InquiryTypeOK
  <2>3. InquiryTypeOK'
    BY <1>1, <2>1, <2>2, SendQuoteStores, FileType DEF InquiryTypeOK
  <2> QED
    BY <1>1, <2>3, SendQuoteStores DEF FlightInv, Latest
<1>2. CASE Publish
  <2>1. /\ Done(Latest) \in Inquiry /\ Done(Latest).state = "DONE"
        /\ Latest.inquiryId \in InquiryIds
    BY <1>2, PublishStores, DoneType DEF Inquiry
  <2>2. IsMap(inquiries', InquiryIds, Inquiry)
    BY <1>2, <2>1, PublishStores, PutIsMap DEF InquiryTypeOK
  <2>3. InquiryTypeOK'
    BY <1>2, <2>1, <2>2, PublishStores DEF InquiryTypeOK
  <2> QED
    BY <1>2, <2>3, PublishStores DEF FlightInv, Latest
<1>3. CASE PublishDone
  <2>1. /\ Done(Latest) \in Inquiry /\ Done(Latest).state = "DONE"
        /\ Latest.inquiryId \in InquiryIds
    BY <1>3, PublishDoneStores, DoneType DEF Inquiry
  <2>2. IsMap(inquiries', InquiryIds, Inquiry)
    BY <1>3, <2>1, PublishDoneStores, PutIsMap DEF InquiryTypeOK
  <2>3. InquiryTypeOK'
    BY <1>3, <2>1, <2>2, PublishDoneStores, FileType DEF InquiryTypeOK
  <2> QED
    BY <1>3, <2>3, PublishDoneStores DEF FlightInv
<1>4. CASE PersistAnswer
  <2>1. Done(Latest) \in Inquiry /\ Done(Latest).state = "DONE"
    BY <1>4, PersistAnswerStores, DoneType
  <2>2. InquiryTypeOK'
    BY <1>4, <2>1, PersistAnswerStores, FileType DEF InquiryTypeOK
  <2> QED
    BY <1>4, <2>2, PersistAnswerStores DEF FlightInv, Latest
<1> QED
  BY <1>1, <1>2, <1>3, <1>4 DEF Handler

LEMMA OthersKeepFlight ==
  ASSUME InquiryTypeOK, FlightInv,
         SkipLine \/ BadLine \/ Crash \/ Restart \/ UNCHANGED inquiryVars
  PROVE  (InquiryTypeOK /\ FlightInv)'
<1>1. CASE BadLine \/ Crash
  BY <1>1 DEF BadLine, Crash, Dies, InquiryTypeOK, FlightInv
<1>2. CASE Restart
  <2>1. IsMap(EmptyMap, InquiryIds, Inquiry)
    BY Zenon DEF IsMap, EmptyMap
  <2>2. Len(file) \in Nat /\ <<>> \in Seq(Inquiry) /\ DOMAIN <<>> = {}
    BY DEF InquiryTypeOK
  <2> QED
    BY <1>2, <2>1, <2>2 DEF Restart, InquiryTypeOK, FlightInv
<1>3. CASE SkipLine \/ UNCHANGED inquiryVars
  BY <1>3 DEF SkipLine, inquiryVars, InquiryTypeOK, FlightInv, Latest
<1> QED
  BY <1>1, <1>2, <1>3

LEMMA FlightStep ==
  ASSUME InquiryTypeOK, FlightInv, [InquiryNext]_inquiryVars
  PROVE  (InquiryTypeOK /\ FlightInv)'
<1>1. ASSUME NEW id \in InquiryIds, NEW terms \in Terms, NEW price \in Prices,
             ReadInquiry(Parse(id, terms, price))
      PROVE  (InquiryTypeOK /\ FlightInv)'
  BY <1>1, ParseType, ReadInquiryKeepsFlight
<1> QED
  BY <1>1, HandlersKeepFlight, OthersKeepFlight DEF InquiryNext

LEMMA FlightInvariant == InquirySpec => [](InquiryTypeOK /\ FlightInv)
<1>1. InquiryInit => InquiryTypeOK /\ FlightInv
  <2>1. IsMap(EmptyMap, InquiryIds, Inquiry)
    BY Zenon DEF IsMap, EmptyMap
  <2>2. <<>> \in Seq(Inquiry) /\ DOMAIN <<>> = {}
    OBVIOUS
  <2> QED
    BY <2>1, <2>2 DEF InquiryInit, InquiryTypeOK, FlightInv
<1>2. InquiryTypeOK /\ FlightInv /\ [InquiryNext]_inquiryVars => (InquiryTypeOK /\ FlightInv)'
  BY FlightStep
<1> QED
  BY <1>1, <1>2, PTL DEF InquirySpec

(***************************************************************************)
(* The inquiry service and its file keep values of their types; no call is *)
(* made without an inquiry, and no line shows an inquiry QUOTED.           *)
(***************************************************************************)
THEOREM InquiryTypeCorrect == InquirySpec => []InquiryTypeOK
BY FlightInvariant, PTL

-----------------------------------------------------------------------------
(* The file. *)

\* Lines that will still be written for the inquiry in flight.
LinesLeft ==
  CASE pc = "idle" -> 0 [] pc = "publishDone" -> 1
    [] pc \in {"publish", "persist"} -> 2 [] pc = "sendQuote" -> 3

\* The n-th line of the run.
LineOf(n) ==
  LET inquiry == received[((n - 1) \div 3) + 1]
  IN  IF n % 3 = 1 THEN WithQuote(inquiry) ELSE Done(inquiry)

(***************************************************************************)
(* FileTellsEachInquiry, with the mark inside the file.                    *)
(***************************************************************************)
FileInv ==
  /\ mark <= Len(file)
  /\ pc # "dead" => Len(file) - mark = 3 * Len(received) - LinesLeft
  /\ pc = "dead" => Len(file) - mark \in 3 * Len(received) - 3 .. 3 * Len(received)
  /\ \A n \in 1 .. Len(file) - mark : file[mark + n] = LineOf(n)

\* Line n belongs to an inquiry that was read, whatever is read later.
LEMMA LineHasInquiry ==
  ASSUME NEW L \in Nat, NEW n \in 1 .. 3 * L
  PROVE  ((n - 1) \div 3) + 1 \in 1 .. L
OBVIOUS

\* A handler writes the next of the three lines of the latest inquiry.
LEMMA NextLine ==
  ASSUME InquiryTypeOK, FileInv, NEW line \in Inquiry,
         line.state \in {"RECEIVED", "DONE"}, file' = Append(file, line),
         UNCHANGED <<received, mark>>, pc # "dead", pc' # "dead",
         LinesLeft' = LinesLeft - 1, LinesLeft \in 1 .. 3,
         line = LineOf(3 * Len(received) - LinesLeft + 1)
  PROVE  FileInv'
<1>1. /\ Len(file') = Len(file) + 1 /\ Len(file) \in Nat /\ mark \in Nat
      /\ file'[Len(file) + 1] = line
      /\ \A i \in 1 .. Len(file) : file'[i] = file[i]
      /\ Len(received) \in Nat
  BY FileType DEF InquiryTypeOK
<1>2. mark <= Len(file) /\ Len(file) - mark = 3 * Len(received) - LinesLeft
  BY DEF FileInv
<1>3. ASSUME NEW n \in 1 .. Len(file') - mark
      PROVE  file'[mark + n] = LineOf(n)
  <2>1. CASE n = Len(file) - mark + 1
    <3>1. mark + n = Len(file) + 1 /\ n = 3 * Len(received) - LinesLeft + 1
      BY <1>1, <1>2, <2>1
    <3> QED
      BY <1>1, <3>1
  <2>2. CASE n # Len(file) - mark + 1
    <3>1. n \in 1 .. Len(file) - mark /\ mark + n \in 1 .. Len(file)
      BY <1>1, <1>2, <2>2
    <3> QED
      BY <1>1, <3>1 DEF FileInv
  <2> QED
    BY <2>1, <2>2
<1>4. \A n \in 1 .. Len(file') - mark' : file'[mark' + n] = LineOf(n)'
  <2>1. mark' = mark /\ received' = received
    OBVIOUS
  <2>2. ASSUME NEW n \in 1 .. Len(file') - mark' PROVE file'[mark' + n] = LineOf(n)'
    <3>1. LineOf(n)' = LineOf(n)
      BY <2>1 DEF LineOf
    <3> QED
      BY <1>3, <2>1, <3>1
  <2> QED
    BY <2>2
<1>5. mark' <= Len(file') /\ Len(file') - mark' = 3 * Len(received') - LinesLeft'
  BY <1>1, <1>2
<1> QED
  BY <1>4, <1>5 DEF FileInv

LEMMA LatestLines ==
  ASSUME InquiryTypeOK, received # <<>>
  PROVE  LET L == Len(received)
         IN  /\ LineOf(3 * L - 2) = WithQuote(Latest)
             /\ LineOf(3 * L - 1) = Done(Latest)
             /\ LineOf(3 * L) = Done(Latest)
<1> DEFINE L == Len(received)
<1>1. L \in Nat /\ L >= 1
  BY EmptySeq, LenProperties DEF InquiryTypeOK
<1> HIDE DEF L
<1>2. /\ (((3 * L - 2) - 1) \div 3) + 1 = L /\ (3 * L - 2) % 3 = 1
      /\ (((3 * L - 1) - 1) \div 3) + 1 = L /\ (3 * L - 1) % 3 # 1
      /\ ((3 * L - 1) \div 3) + 1 = L /\ (3 * L) % 3 # 1
  BY <1>1
<1> QED
  BY <1>2 DEF LineOf, Latest, L

LEMMA HandlersKeepFile ==
  ASSUME InquiryTypeOK, FlightInv, FileInv, Handler
  PROVE  FileInv'
<1>1. Len(received) \in Nat
  BY DEF InquiryTypeOK
<1>2. CASE SendQuote
  <2>1. WithQuote(Latest) \in Inquiry /\ WithQuote(Latest).state = "RECEIVED"
    BY <1>2, SendQuoteStores, WithQuoteType
  <2>2. LinesLeft = 3 /\ LinesLeft' = 2 /\ received # <<>>
    BY <1>2, SendQuoteStores DEF LinesLeft, FlightInv
  <2>3. 3 * Len(received) - LinesLeft + 1 = 3 * Len(received) - 2
    BY <1>1, <2>2
  <2> QED
    BY <1>2, <2>1, <2>2, <2>3, SendQuoteStores, LatestLines, NextLine
<1>3. CASE PersistAnswer
  <2>1. Done(Latest) \in Inquiry /\ Done(Latest).state = "DONE"
    BY <1>3, PersistAnswerStores, DoneType
  <2>2. LinesLeft = 2 /\ LinesLeft' = 1 /\ received # <<>>
    BY <1>3, PersistAnswerStores DEF LinesLeft, FlightInv
  <2>3. 3 * Len(received) - LinesLeft + 1 = 3 * Len(received) - 1
    BY <1>1, <2>2
  <2> QED
    BY <1>3, <2>1, <2>2, <2>3, PersistAnswerStores, LatestLines, NextLine
<1>4. CASE PublishDone
  <2>1. Done(Latest) \in Inquiry /\ Done(Latest).state = "DONE"
    BY <1>4, PublishDoneStores, DoneType
  <2>2. LinesLeft = 1 /\ LinesLeft' = 0 /\ received # <<>>
    BY <1>4, PublishDoneStores DEF LinesLeft, FlightInv
  <2>3. 3 * Len(received) - LinesLeft + 1 = 3 * Len(received)
    BY <1>1, <2>2
  <2> QED
    BY <1>4, <2>1, <2>2, <2>3, PublishDoneStores, LatestLines, NextLine
<1>5. CASE Publish
  <2>1. /\ pc = "publish" /\ pc' = "persist" /\ UNCHANGED <<file, received, mark>>
        /\ LinesLeft = 2 /\ LinesLeft' = 2
    BY <1>5, PublishStores DEF LinesLeft
  <2> QED
    BY <2>1 DEF FileInv, LineOf
<1> QED
  BY <1>2, <1>3, <1>4, <1>5 DEF Handler

LEMMA FileStep ==
  ASSUME InquiryTypeOK, FlightInv, FileInv, [InquiryNext]_inquiryVars
  PROVE  FileInv'
<1>1. /\ received \in Seq(Inquiry) /\ Len(received) \in Nat
      /\ Len(file) \in Nat /\ mark \in Nat
  BY DEF InquiryTypeOK
<1>2. ASSUME NEW id \in InquiryIds, NEW terms \in Terms, NEW price \in Prices,
             ReadInquiry(Parse(id, terms, price))
      PROVE  FileInv'
  <2> DEFINE inquiry == Parse(id, terms, price)
  <2>1. /\ received' = Append(received, inquiry) /\ pc = "idle" /\ pc' = "sendQuote"
        /\ file' = file /\ mark' = mark /\ inquiry \in Inquiry
    BY <1>2, ParseType DEF ReadInquiry
  <2> HIDE DEF inquiry
  <2>2. Len(received') = Len(received) + 1 /\ \A i \in 1 .. Len(received) : received'[i] = received[i]
    BY <1>1, <2>1, AppendProperties
  <2>3. Len(file) - mark = 3 * Len(received)
    BY <1>1, <2>1 DEF FileInv, LinesLeft
  <2>4. ASSUME NEW n \in 1 .. Len(file) - mark
        PROVE  file'[mark' + n] = LineOf(n)'
    <3>1. ((n - 1) \div 3) + 1 \in 1 .. Len(received)
      BY <1>1, <2>3, LineHasInquiry
    <3>2. LineOf(n)' = LineOf(n)
      BY <2>2, <3>1 DEF LineOf
    <3> QED
      BY <2>1, <3>2 DEF FileInv
  <2>5. Len(file') - mark' = 3 * Len(received') - 3
    BY <1>1, <2>1, <2>2, <2>3
  <2> QED
    BY <2>1, <2>4, <2>5 DEF FileInv, LinesLeft
<1>3. CASE BadLine \/ Crash
  <2>1. /\ pc \in {"idle", "sendQuote", "publish", "persist", "publishDone"}
        /\ pc' = "dead"
        /\ UNCHANGED <<file, received, mark>>
    BY <1>3 DEF BadLine, Crash, Dies, InquiryTypeOK
  <2>2. LinesLeft \in 0 .. 3
    BY <2>1 DEF LinesLeft
  <2>3. Len(file) - mark \in 3 * Len(received) - 3 .. 3 * Len(received)
    BY <1>1, <2>1, <2>2 DEF FileInv
  <2> QED
    BY <2>1, <2>3 DEF FileInv, LineOf
<1>4. CASE Restart
  <2>1. pc' = "idle" /\ received' = <<>> /\ file' = file /\ mark' = Len(file)
    BY <1>4 DEF Restart
  <2> QED
    BY <1>1, <2>1 DEF FileInv, LinesLeft
<1>5. CASE SkipLine \/ UNCHANGED inquiryVars
  BY <1>5 DEF SkipLine, inquiryVars, FileInv, LinesLeft, LineOf
<1> QED
  BY <1>2, <1>3, <1>4, <1>5, HandlersKeepFile DEF InquiryNext

(***************************************************************************)
(* The lines a run adds to allinquiries.txt are three for each inquiry it  *)
(* read, in order: the quote and twice the inquiry DONE at its own price.  *)
(* Only the last inquiry may be short of lines.                            *)
(***************************************************************************)
THEOREM FileAlwaysTellsEachInquiry == InquirySpec => []FileTellsEachInquiry
<1>1. InquiryInit => FileInv
  BY DEF InquiryInit, FileInv, LinesLeft
<1>2. InquiryTypeOK /\ FlightInv /\ FileInv /\ [InquiryNext]_inquiryVars => FileInv'
  BY FileStep
<1>3. InquiryTypeOK /\ FileInv => FileTellsEachInquiry
  BY DEF FileInv, FileTellsEachInquiry, LinesLeft, LineOf, WithQuote, Quote
<1> QED
  BY <1>1, <1>2, <1>3, FlightInvariant, PTL DEF InquirySpec

-----------------------------------------------------------------------------
(* The map. *)

\* No inquiry was read after the i-th under its identifier.
LastUnderItsId(i) ==
  \A j \in DOMAIN received : i < j => received[j].inquiryId # received[i].inquiryId

(***************************************************************************)
(* The map has the identifiers read, and under each the last inquiry, DONE *)
(* - but for the inquiry in flight, whose entry is being worked on.        *)
(***************************************************************************)
MapInv ==
  pc # "dead" =>
    /\ DOMAIN inquiries = {received[i].inquiryId : i \in DOMAIN received}
    /\ \A i \in DOMAIN received :
         LastUnderItsId(i) /\ (pc = "idle" \/ i # Len(received))
           => inquiries[received[i].inquiryId] = Done(received[i])

\* A handler touches no entry but that of the inquiry in flight.
LEMMA OnlyLatestEntry ==
  ASSUME InquiryTypeOK, MapInv, received # <<>>, NEW inquiry,
         pc # "dead", pc # "idle", UNCHANGED received,
         inquiries' = Put(inquiries, Latest.inquiryId, inquiry)
  PROVE  /\ DOMAIN inquiries' = {received[i].inquiryId : i \in DOMAIN received}
         /\ inquiries'[Latest.inquiryId] = inquiry
         /\ \A i \in DOMAIN received :
              LastUnderItsId(i) /\ i # Len(received)
                => inquiries'[received[i].inquiryId] = Done(received[i])
<1>1. /\ Len(received) \in DOMAIN received /\ DOMAIN received = 1 .. Len(received)
      /\ Len(received) \in Nat
  BY EmptySeq, LenProperties DEF InquiryTypeOK
<1>2. DOMAIN inquiries = {received[i].inquiryId : i \in DOMAIN received}
  BY DEF MapInv
<1>3. Latest.inquiryId \in DOMAIN inquiries
  BY <1>1, <1>2 DEF Latest
<1>4. DOMAIN inquiries' = DOMAIN inquiries /\ inquiries'[Latest.inquiryId] = inquiry
  BY <1>3 DEF Put
<1>5. ASSUME NEW i \in DOMAIN received, LastUnderItsId(i), i # Len(received)
      PROVE  inquiries'[received[i].inquiryId] = Done(received[i])
  <2>1. received[i].inquiryId # Latest.inquiryId
    BY <1>1, <1>5 DEF LastUnderItsId, Latest
  <2>2. received[i].inquiryId \in DOMAIN inquiries
    BY <1>2
  <2>3. inquiries'[received[i].inquiryId] = inquiries[received[i].inquiryId]
    BY <2>1, <2>2 DEF Put
  <2> QED
    BY <1>5, <2>3 DEF MapInv
<1> QED
  BY <1>2, <1>4, <1>5

LEMMA MapStep ==
  ASSUME InquiryTypeOK, FlightInv, MapInv, [InquiryNext]_inquiryVars
  PROVE  MapInv'
<1>1. received \in Seq(Inquiry) /\ DOMAIN received = 1 .. Len(received) /\ Len(received) \in Nat
  BY LenProperties DEF InquiryTypeOK
<1>2. ASSUME NEW id \in InquiryIds, NEW terms \in Terms, NEW price \in Prices,
             ReadInquiry(Parse(id, terms, price))
      PROVE  MapInv'
  <2> DEFINE inquiry == Parse(id, terms, price)
  <2>1. /\ received' = Append(received, inquiry) /\ pc = "idle" /\ pc' = "sendQuote"
        /\ inquiries' = Put(inquiries, inquiry.inquiryId, inquiry)
        /\ inquiry \in Inquiry
    BY <1>2, ParseType DEF ReadInquiry, Store
  <2> HIDE DEF inquiry
  <2>2. /\ Len(received') = Len(received) + 1 /\ DOMAIN received' = 1 .. Len(received')
        /\ received'[Len(received) + 1] = inquiry
        /\ \A i \in 1 .. Len(received) : received'[i] = received[i]
    BY <1>1, <2>1, AppendProperties, LenProperties
  <2>3. /\ DOMAIN inquiries = {received[i].inquiryId : i \in DOMAIN received}
        /\ \A i \in DOMAIN received :
             LastUnderItsId(i) => inquiries[received[i].inquiryId] = Done(received[i])
    BY <2>1 DEF MapInv
  <2>4. DOMAIN inquiries' = DOMAIN inquiries \cup {inquiry.inquiryId}
    BY <2>1 DEF Put
  <2>5. DOMAIN inquiries' = {received'[i].inquiryId : i \in DOMAIN received'}
    <3>1. {received'[i].inquiryId : i \in DOMAIN received'}
            = {received[i].inquiryId : i \in DOMAIN received} \cup {inquiry.inquiryId}
      BY <1>1, <2>2
    <3> QED
      BY <2>3, <2>4, <3>1
  <2>6. ASSUME NEW i \in DOMAIN received', LastUnderItsId(i)', i # Len(received')
        PROVE  inquiries'[received'[i].inquiryId] = Done(received'[i])
    <3>1. i \in DOMAIN received /\ received'[i] = received[i]
      BY <1>1, <2>2, <2>6
    <3>2. received[i].inquiryId # inquiry.inquiryId
      BY <1>1, <2>2, <2>6, <3>1 DEF LastUnderItsId
    <3>3. LastUnderItsId(i)
      BY <1>1, <2>2, <2>6, <3>1 DEF LastUnderItsId
    <3>4. received[i].inquiryId \in DOMAIN inquiries
      BY <2>3, <3>1
    <3>5. inquiries'[received[i].inquiryId] = inquiries[received[i].inquiryId]
      BY <2>1, <3>2, <3>4 DEF Put
    <3> QED
      BY <2>3, <3>1, <3>3, <3>5
  <2> QED
    BY <2>1, <2>5, <2>6 DEF MapInv
<1>3. CASE SendQuote
  <2>1. received # <<>> /\ pc = "sendQuote" /\ pc' = "publish" /\ received' = received
    BY <1>3, SendQuoteStores DEF FlightInv
  <2> QED
    BY <1>3, <2>1, SendQuoteStores, OnlyLatestEntry DEF MapInv, LastUnderItsId
<1>4. CASE Publish
  <2>1. received # <<>> /\ pc = "publish" /\ pc' = "persist" /\ received' = received
    BY <1>4, PublishStores DEF FlightInv
  <2> QED
    BY <1>4, <2>1, PublishStores, OnlyLatestEntry DEF MapInv, LastUnderItsId
<1>5. CASE PublishDone
  <2>1. received # <<>> /\ pc = "publishDone" /\ pc' = "idle" /\ received' = received
    BY <1>5, PublishDoneStores DEF FlightInv
  <2>2. inquiries'[Latest.inquiryId] = Done(Latest)
    BY <1>5, <2>1, PublishDoneStores, OnlyLatestEntry
  <2> QED
    BY <1>5, <2>1, <2>2, PublishDoneStores, OnlyLatestEntry DEF MapInv, LastUnderItsId, Latest
<1>6. CASE BadLine \/ Crash
  BY <1>6 DEF BadLine, Crash, Dies, MapInv
<1>7. CASE Restart
  <2>1. pc' = "idle" /\ received' = <<>> /\ inquiries' = EmptyMap
    BY <1>7 DEF Restart
  <2>2. DOMAIN EmptyMap = {} /\ DOMAIN <<>> = {}
    BY DEF EmptyMap
  <2> QED
    BY <2>1, <2>2 DEF MapInv
<1>8. CASE PersistAnswer
  <2>1. pc = "persist" /\ pc' = "publishDone" /\ UNCHANGED <<received, inquiries>>
    BY <1>8 DEF PersistAnswer
  <2> QED
    BY <2>1 DEF MapInv, LastUnderItsId
<1>9. CASE SkipLine \/ UNCHANGED inquiryVars
  BY <1>9 DEF SkipLine, inquiryVars, MapInv, LastUnderItsId
<1> QED
  BY <1>2, <1>3, <1>4, <1>5, <1>6, <1>7, <1>8, <1>9 DEF InquiryNext, Handler

(***************************************************************************)
(* Between two lines the service holds under each identifier the last      *)
(* inquiry read with it, DONE at its own price.                            *)
(***************************************************************************)
THEOREM StoredAlwaysLatest == InquirySpec => []StoredIsLatest
<1>1. InquiryInit => MapInv
  <2>1. DOMAIN EmptyMap = {} /\ DOMAIN <<>> = {}
    BY DEF EmptyMap
  <2> QED
    BY <2>1 DEF InquiryInit, MapInv
<1>2. InquiryTypeOK /\ FlightInv /\ MapInv /\ [InquiryNext]_inquiryVars => MapInv'
  BY MapStep
<1>3. MapInv => StoredIsLatest
  BY DEF MapInv, StoredIsLatest, LastUnderItsId
<1> QED
  BY <1>1, <1>2, <1>3, FlightInvariant, PTL DEF InquirySpec

-----------------------------------------------------------------------------
(* Quotes and answers. *)

Missing == 2 * FileLines("RECEIVED") - FileLines("DONE")

(***************************************************************************)
(* The DONE lines still owed: two from the quote on, for the inquiry in    *)
(* flight; what was in flight at a death is never written.                 *)
(***************************************************************************)
OwedInFlight ==
  CASE pc \in {"publish", "persist"} -> 2 [] pc = "publishDone" -> 1 [] OTHER -> 0

AnswersInv ==
  /\ FileLines("RECEIVED") \in Nat /\ FileLines("DONE") \in Nat
  /\ OwedInFlight <= Missing /\ Missing <= 2 * deaths + OwedInFlight

\* One line more.
LEMMA OneLineMore ==
  ASSUME InquiryTypeOK, NEW line \in Inquiry, line.state \in {"RECEIVED", "DONE"},
         file' = Append(file, line), NEW state
  PROVE  /\ FileLines(state) \in Nat
         /\ FileLines(state)' = FileLines(state) + (IF line.state = state THEN 1 ELSE 0)
<1> DEFINE old == {i \in DOMAIN file : file[i].state = state}
           new == {i \in DOMAIN file' : file'[i].state = state}
           n   == Len(file) + 1
<1>1. /\ DOMAIN file = 1 .. Len(file) /\ Len(file) \in Nat
      /\ DOMAIN file' = 1 .. n /\ file'[n] = line
      /\ \A i \in 1 .. Len(file) : file'[i] = file[i]
  BY FileType, LenProperties DEF InquiryTypeOK
<1>2. IsFiniteSet(old) /\ n \notin old
  <2>1. IsFiniteSet(1 .. Len(file))
    BY <1>1, FS_Interval
  <2>2. old \subseteq 1 .. Len(file)
    BY <1>1
  <2> QED
    BY <1>1, <2>1, <2>2, FS_Subset
<1>3. new = IF line.state = state THEN old \cup {n} ELSE old
  BY <1>1
<1>4. Cardinality(old) \in Nat /\ Cardinality(old \cup {n}) = Cardinality(old) + 1
  BY <1>2, FS_CardinalityType, FS_AddElement
<1>5. FileLines(state) = Cardinality(old) /\ FileLines(state)' = Cardinality(new)
  BY DEF FileLines
<1> HIDE DEF old, new
<1> QED
  BY <1>3, <1>4, <1>5

LEMMA AnswersStep ==
  ASSUME InquiryTypeOK, FlightInv, AnswersInv, [InquiryNext]_inquiryVars
  PROVE  AnswersInv'
<1>1. deaths \in Nat /\ FileLines("RECEIVED") \in Nat /\ FileLines("DONE") \in Nat
  BY DEF InquiryTypeOK, AnswersInv
<1>2. CASE SendQuote
  <2>1. WithQuote(Latest) \in Inquiry /\ WithQuote(Latest).state = "RECEIVED"
    BY <1>2, SendQuoteStores, WithQuoteType
  <2>2. /\ FileLines("RECEIVED")' = FileLines("RECEIVED") + 1
        /\ FileLines("DONE")' = FileLines("DONE") + 0
    BY <1>2, <2>1, SendQuoteStores, OneLineMore
  <2>3. deaths' = deaths /\ OwedInFlight = 0 /\ OwedInFlight' = 2
    BY <1>2, SendQuoteStores DEF OwedInFlight
  <2> QED
    BY <1>1, <2>2, <2>3 DEF AnswersInv, Missing
<1>3. CASE PersistAnswer
  <2>1. Done(Latest) \in Inquiry /\ Done(Latest).state = "DONE"
    BY <1>3, PersistAnswerStores, DoneType
  <2>2. /\ FileLines("RECEIVED")' = FileLines("RECEIVED") + 0
        /\ FileLines("DONE")' = FileLines("DONE") + 1
    BY <1>3, <2>1, PersistAnswerStores, OneLineMore
  <2>3. deaths' = deaths /\ OwedInFlight = 2 /\ OwedInFlight' = 1
    BY <1>3, PersistAnswerStores DEF OwedInFlight
  <2> QED
    BY <1>1, <2>2, <2>3 DEF AnswersInv, Missing
<1>4. CASE PublishDone
  <2>1. Done(Latest) \in Inquiry /\ Done(Latest).state = "DONE"
    BY <1>4, PublishDoneStores, DoneType
  <2>2. /\ FileLines("RECEIVED")' = FileLines("RECEIVED") + 0
        /\ FileLines("DONE")' = FileLines("DONE") + 1
    BY <1>4, <2>1, PublishDoneStores, OneLineMore
  <2>3. deaths' = deaths /\ OwedInFlight = 1 /\ OwedInFlight' = 0
    BY <1>4, PublishDoneStores DEF OwedInFlight
  <2> QED
    BY <1>1, <2>2, <2>3 DEF AnswersInv, Missing
<1>5. CASE BadLine \/ Crash
  <2>1. pc' = "dead" /\ deaths' = deaths + 1 /\ file' = file
    BY <1>5 DEF BadLine, Crash, Dies
  <2>2. OwedInFlight \in 0 .. 2 /\ OwedInFlight' = 0
    BY <2>1 DEF OwedInFlight
  <2>3. \A state : FileLines(state)' = FileLines(state)
    BY <2>1 DEF FileLines
  <2> QED
    BY <1>1, <2>1, <2>2, <2>3 DEF AnswersInv, Missing
<1>6. ASSUME file' = file, deaths' = deaths, OwedInFlight' = OwedInFlight
      PROVE  AnswersInv'
  BY <1>6 DEF AnswersInv, Missing, FileLines
<1>7. ASSUME NEW id \in InquiryIds, NEW terms \in Terms, NEW price \in Prices,
             ReadInquiry(Parse(id, terms, price))
      PROVE  AnswersInv'
  BY <1>6, <1>7 DEF ReadInquiry, OwedInFlight
<1>8. CASE Restart \/ SkipLine \/ UNCHANGED inquiryVars
  BY <1>6, <1>8 DEF Restart, SkipLine, inquiryVars, OwedInFlight
<1>9. CASE Publish
  BY <1>6, <1>9, PublishStores DEF OwedInFlight
<1> QED
  BY <1>2, <1>3, <1>4, <1>5, <1>7, <1>8, <1>9 DEF InquiryNext, Handler

(***************************************************************************)
(* Over any number of runs the file has two DONE lines for every quote, but *)
(* for two at most for each abnormal end.                                  *)
(***************************************************************************)
THEOREM QuotesAlwaysAnswered == InquirySpec => []QuotesAreAnswered
<1>1. InquiryInit => AnswersInv
  <2>1. SUFFICES ASSUME InquiryInit PROVE AnswersInv
    OBVIOUS
  <2>2. \A state : FileLines(state) = 0
    BY <2>1, FS_EmptySet DEF InquiryInit, FileLines
  <2> QED
    BY <2>1, <2>2 DEF InquiryInit, AnswersInv, Missing, OwedInFlight
<1>2. InquiryTypeOK /\ FlightInv /\ AnswersInv /\ [InquiryNext]_inquiryVars => AnswersInv'
  BY AnswersStep
<1>3. InquiryTypeOK /\ AnswersInv => QuotesAreAnswered
  BY DEF InquiryTypeOK, AnswersInv, Missing, OwedInFlight, QuotesAreAnswered
<1> QED
  BY <1>1, <1>2, <1>3, FlightInvariant, PTL DEF InquirySpec

-----------------------------------------------------------------------------
(* The order of the calls. *)

Persist == Add("historicalInquiry")
Connect == Add("inquiryConnector")

LEMMA InquiriesAnnounced ==
  /\ Wires!Announce("inquiry", "add") = <<Persist>>
  /\ <<Persist>> \o <<Connect>> = <<Persist, Connect>>
  /\ <<Persist>> \o <<Persist>> = <<Persist, Persist>>
<1>1. Wires!Announce("inquiry", "add") = <<Persist>>
  BY DEF Wires!Announce, Wires!listeners, Add, Persist
<1> QED
  BY <1>1, JoinTwo

\* The historical service is called, and the calls after it are left.
LEMMA PersistIsWired ==
  ASSUME pc # "dead", pc' # "dead", NEW rest, rest \in {<<>>, <<Connect>>, <<Persist>>},
         CallsPending # <<>>, Head(CallsPending) = Persist, Tail(CallsPending) = rest,
         CallsPending' = rest
  PROVE  Wires!WiringNext
<1>1. Persist.to = "historicalInquiry" /\ Persist.event = "add"
  BY DEF Persist, Add
<1>2. <<>> \o rest = rest
  <2>1. rest \in Seq({Persist, Connect})
    OBVIOUS
  <2> QED
    BY <2>1, ConcatEmptySeq
<1>3. Wires!Process("historicalInquiry", <<>>)
  <2>1. (IF Head(CallsPending).event = "add" THEN <<>> ELSE <<>>) = <<>>
    OBVIOUS
  <2> QED
    BY <1>1, <1>2, <2>1, Zenon DEF Wires!Process, Wires!Nested
<1> QED
  BY <1>3 DEF Wires!WiringNext, Wires!HistoricalDataListener, Wires!Historical

LEMMA HandlersAreWired ==
  ASSUME InquiryTypeOK, FlightInv, Handler
  PROVE  Wires!WiringNext
<1>1. CASE SendQuote
  <2>1. pc = "sendQuote" /\ pc' = "publish"
    BY <1>1 DEF SendQuote
  <2>2. CallsPending = <<Persist, Connect>> /\ CallsPending' = <<Connect>>
    BY <2>1 DEF CallsPending, Persist, Connect
  <2> QED
    BY <2>1, <2>2, PersistIsWired
<1>2. CASE Publish
  <2>1. pc = "publish" /\ pc' = "persist"
    BY <1>2, PublishStores
  <2>2. CallsPending = <<Connect>> /\ CallsPending' = <<Persist, Persist>>
    BY <2>1 DEF CallsPending, Persist, Connect
  <2>3. Connect.to = "inquiryConnector" /\ Connect.event = "add"
    BY DEF Connect, Add
  <2>4. <<Persist, Persist>> \o <<>> = <<Persist, Persist>>
    OBVIOUS
  <2>5. /\ CallsPending # <<>> /\ Head(CallsPending) = Connect
        /\ Tail(CallsPending) = <<>>
    BY <2>2
  <2>6. Wires!Process("inquiryConnector", <<Persist, Persist>>)
    BY <2>1, <2>2, <2>3, <2>4, <2>5, Zenon DEF Wires!Process, Wires!Nested
  <2>7. Wires!InquiryConnector
    BY <2>6, InquiriesAnnounced, Zenon DEF Wires!InquiryConnector
  <2> QED
    BY <2>7 DEF Wires!WiringNext
<1>3. CASE PersistAnswer
  <2>1. pc = "persist" /\ pc' = "publishDone"
    BY <1>3 DEF PersistAnswer
  <2>2. CallsPending = <<Persist, Persist>> /\ CallsPending' = <<Persist>>
    BY <2>1 DEF CallsPending, Persist
  <2> QED
    BY <2>1, <2>2, PersistIsWired
<1>4. CASE PublishDone
  <2>1. pc = "publishDone" /\ pc' = "idle"
    BY <1>4 DEF PublishDone
  <2>2. CallsPending = <<Persist>> /\ CallsPending' = <<>>
    BY <2>1 DEF CallsPending, Persist
  <2> QED
    BY <2>1, <2>2, PersistIsWired
<1> QED
  BY <1>1, <1>2, <1>3, <1>4 DEF Handler

LEMMA OthersAreWired ==
  ASSUME [InquiryNext]_inquiryVars, ~ Handler
  PROVE  [Wires!WiringNext]_(Wires!wiringVars)
<1>1. ASSUME NEW inquiry, ReadInquiry(inquiry) PROVE Wires!WiringNext
  <2>1. pc = "idle" /\ pc' = "sendQuote"
    BY <1>1 DEF ReadInquiry
  <2>2. CallsPending = <<>> /\ CallsPending' = <<Persist, Connect>>
    BY <2>1 DEF CallsPending, Persist, Connect
  <2>3. <<[to |-> "inquiryConnector", event |-> "add"]>> = <<Connect>>
    BY DEF Connect, Add
  <2>4. Wires!OnInquiry
    BY <2>1, <2>2, <2>3, InquiriesAnnounced DEF Wires!OnInquiry
  <2> QED
    BY <2>4 DEF Wires!WiringNext
<1>2. CASE BadLine \/ Crash
  <2>1. pc # "dead" /\ pc' = "dead"
    BY <1>2 DEF BadLine, Crash, Dies
  <2>2. Wires!Abort
    BY <2>1 DEF Wires!Abort, CallsPending
  <2> QED
    BY <2>2 DEF Wires!WiringNext
<1>3. CASE Restart
  <2>1. pc \in {"dead", "idle"} /\ pc' = "idle"
    BY <1>3 DEF Restart
  <2>2. CallsPending = <<>> /\ CallsPending' = <<>>
    BY <2>1 DEF CallsPending
  <2> QED
    BY <2>1, <2>2 DEF Wires!WiringNext, Wires!StartAgain, Wires!wiringVars
<1>4. CASE SkipLine \/ UNCHANGED inquiryVars
  BY <1>4 DEF SkipLine, inquiryVars, CallsPending, Wires!wiringVars
<1> QED
  BY <1>1, <1>2, <1>3, <1>4 DEF InquiryNext

(***************************************************************************)
(* The inquiry service, its connector and its historical service call each *)
(* other in the order of Wiring, on which the program with all its files   *)
(* is built: the quote is on file before the connector is called, and the  *)
(* connector makes the service announce an inquiry twice.                  *)
(***************************************************************************)
THEOREM InquiryFollowsWiring == InquirySpec => InquiryImplementsWiring
<1>1. InquiryInit => Wires!WiringInit
  BY DEF InquiryInit, Wires!WiringInit, CallsPending
<1>2. InquiryTypeOK /\ FlightInv /\ [InquiryNext]_inquiryVars
        => [Wires!WiringNext]_(Wires!wiringVars)
  BY HandlersAreWired, OthersAreWired
<1> QED
  BY <1>1, <1>2, FlightInvariant, PTL
     DEF InquirySpec, InquiryImplementsWiring, Wires!WiringSpec

=============================================================================
