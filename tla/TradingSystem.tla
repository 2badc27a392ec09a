---------------------------- MODULE TradingSystem ---------------------------
(***************************************************************************)
(* The whole program (main.cpp): four Subscribe loops, one after the       *)
(* other, over the services wired in Wiring, and the six files they append *)
(* to over several runs, each of which may die anywhere.                   *)
(*                                                                         *)
(* A line of an output file is the stamp of the input line that caused it: *)
(* the run, the phase of main and the number of the line.  Of              *)
(* marketdata.txt only the lines that close a window are counted, of       *)
(* inquiries.txt only those that are not skipped.                          *)
(***************************************************************************)
EXTENDS Integers, Wiring

CONSTANTS
  MaxLines,   \* bound: input lines read, over all runs
  MaxRuns     \* bound: runs of the program

\* The services whose connectors main subscribes, in this order.
phases == <<"pricing", "tradeBooking", "marketData", "inquiry">>
Phase == DOMAIN phases
Ended == Len(phases) + 1

ASSUME SourcesAreSubscribed == Sources = {phases[i] : i \in Phase}

Journal == Historical \cup {"gui"}

Stamp == [run : Nat \ {0}, phase : Phase, line : Nat \ {0}]

VARIABLES
  phase,      \* the Subscribe loop that runs, or Ended
  progress,   \* for every run, the lines read in each phase
  died,       \* history: the runs that died
  linesRead,  \* lines read over all runs, for MaxLines
  files       \* the output files, which outlive the process

systemVars == <<wiringVars, phase, progress, died, linesRead, files>>

run == Len(progress)

NothingRead == [p \in Phase |-> 0]

SystemInit ==
  /\ WiringInit
  /\ phase = 1
  /\ progress = <<NothingRead>> /\ died = {} /\ linesRead = 0
  /\ files = [f \in Journal |-> <<>>]

Running == alive /\ phase \in Phase

\* A Subscribe loop gives its service the next line.
ReadLine ==
  /\ Running /\ linesRead < MaxLines
  /\ linesRead' = linesRead + 1
  /\ IF phases[phase] = "inquiry" THEN OnInquiry ELSE OnMessage(phases[phase])
  /\ progress' = [progress EXCEPT ![run][phase] = @ + 1]
  /\ UNCHANGED <<phase, died, files>>

\* Mutant: the next loop is started without waiting for the last one.
NextFileEarly ==
  /\ Running
  /\ phase' = phase + 1
  /\ UNCHANGED <<wiringVars, progress, died, linesRead, files>>

\* A Subscribe loop returns at the end of its file, and main goes on.
NextFile ==
  /\ Running /\ pending = <<>>
  /\ phase' = phase + 1
  /\ UNCHANGED <<wiringVars, progress, died, linesRead, files>>

LineInFlight == [run |-> run, phase |-> phase, line |-> progress[run][phase]]

\* The file is opened for append and gets one line.
AppendTo(f) == files' = [files EXCEPT ![f] = Append(@, LineInFlight)]

\* The listeners that write nothing.
PassOn ==
  /\ \/ AlgoStreamingToPricingListener
     \/ StreamingListenerFromAlgoStreaming
     \/ AlgoExecutionListenerFromMarketData
     \/ ExecutionToAlgoExecutionListener
     \/ TradeBookingListenerFromExecution
     \/ PositionListenerFromTradeBooking
     \/ RiskListenerFromPosition
     \/ InquiryConnector
  /\ UNCHANGED <<phase, progress, died, linesRead, files>>

\* An addition is persisted, an update is not.
Persist ==
  /\ HistoricalDataListener
  /\ IF Head(pending).event = "add" THEN AppendTo(Head(pending).to) ELSE UNCHANGED files
  /\ UNCHANGED <<phase, progress, died, linesRead>>

\* The throttle lets the price through, or not.
ShowPrice ==
  /\ GUIToPricingListener
  /\ AppendTo("gui") \/ UNCHANGED files
  /\ UNCHANGED <<phase, progress, died, linesRead>>

Handler == PassOn \/ Persist \/ ShowPrice

-----------------------------------------------------------------------------
\* A line throws, or the process is killed.
Dies ==
  /\ Running
  /\ Abort
  /\ died' = died \cup {run}
  /\ UNCHANGED <<phase, progress, linesRead, files>>

\* The program is run again, after it died or after it ended.
Rerun ==
  /\ ~ Running /\ run < MaxRuns
  /\ alive' = TRUE /\ phase' = 1
  /\ progress' = Append(progress, NothingRead)
  /\ UNCHANGED <<pending, died, linesRead, files>>

Stopped ==
  /\ ~ Running
  /\ UNCHANGED systemVars

Program == ReadLine \/ NextFile \/ Handler

SystemNext == Program \/ Dies \/ Rerun \/ Stopped

\* The thread never waits, and the files it reads have an end.
SystemSpec == SystemInit /\ [][SystemNext]_systemVars /\ WF_systemVars(Program)

-----------------------------------------------------------------------------
\* Types, and where a run can be: no call is under way unless a loop runs, and
\* a loop that has not been reached has read nothing.
SystemTypeOK ==
  /\ pending \in Seq(Call)
  /\ phase \in Phase \cup {Ended}
  /\ progress \in Seq([Phase -> Nat]) /\ progress # <<>>
  /\ alive \in BOOLEAN /\ died \subseteq 1 .. run /\ (~ alive <=> run \in died)
  /\ linesRead \in Nat
  /\ files \in [Journal -> Seq(Stamp)]
  /\ \A p \in Phase : phase < p => progress[run][p] = 0
  /\ pending # <<>> => Running /\ progress[run][phase] > 0

Before(s, t) ==
  \/ s.run < t.run
  \/ s.run = t.run /\ s.phase < t.phase
  \/ s.run = t.run /\ s.phase = t.phase /\ s.line < t.line

(***************************************************************************)
(* Every file is in the order the program works: by run, phase and input   *)
(* line, with one line for each that it has, and three for an inquiry.     *)
(* No listener is called twice for what its service announced once.        *)
(***************************************************************************)
FilesInProgramOrder ==
  \A f \in Journal :
    LET lines == IF f = "historicalInquiry" THEN 3 ELSE 1
    IN  \A i, j \in DOMAIN files[f] :
          /\ i <= j => ~ Before(files[f][j], files[f][i])
          /\ i + lines <= j => Before(files[f][i], files[f][j])

OnFile(f, stamp) == \E i \in DOMAIN files[f] : files[f][i] = stamp

\* The file that gets a line for every line read in a phase.
JournalOf ==
  <<"historicalStreaming", "historicalPosition", "historicalPosition", "historicalInquiry">>

\* Nothing was read in run r after this line, and the calls made for it had
\* not returned when the run died, or have not yet.
CutShort(r, p, line) ==
  /\ line = progress[r][p] /\ \A q \in Phase : q > p => progress[r][q] = 0
  /\ r \in died \/ (r = run /\ pending # <<>>)

(***************************************************************************)
(* Every price, trade and inquiry read is on file, in every run however it *)
(* ended and while it runs, but for the last line read before a death and  *)
(* the line in flight.  So a later phase never works on what an earlier    *)
(* one lost.                                                               *)
(***************************************************************************)
OnlyLastLineIsLost ==
  \A r \in 1 .. run, p \in {1, 2, 4} : \A line \in 1 .. progress[r][p] :
    \/ OnFile(JournalOf[p], [run |-> r, phase |-> p, line |-> line])
    \/ CutShort(r, p, line)

(***************************************************************************)
(* executions.txt and positions.txt agree on the market data phase: an     *)
(* execution on file has its position on file, at every moment and over    *)
(* all runs; a position whose execution is not on file is the last thing   *)
(* its run did, or is in flight.                                           *)
(***************************************************************************)
ExecutionsHavePositions ==
  LET Market(f) == {files[f][i] : i \in {i \in DOMAIN files[f] : files[f][i].phase = 3}}
      Unmatched == Market("historicalPosition") \ Market("historicalExecution")
  IN  /\ Market("historicalExecution") \subseteq Market("historicalPosition")
      /\ \A s \in Unmatched : CutShort(s.run, 3, s.line)

(***************************************************************************)
(* A run that does not die gets through the four files.                    *)
(***************************************************************************)
RunEnds ==
  \A r \in 1 .. MaxRuns :
    (run = r) ~> (run > r \/ phase = Ended \/ ~ alive)

=============================================================================
