------------------------------- MODULE Progress -----------------------------
(***************************************************************************)
(* What a finite command shows on its terminal (cmd/onomazo/progress.go    *)
(* and diagnostics.go): goroutines log the beginning, progress and end of  *)
(* stages and warnings, a ticker repaints the region of active stages, and *)
(* the command stops the display before it writes its report.              *)
(*                                                                         *)
(* Two mutexes are involved: oMu is commandOutput's, pMu terminalProgress's*)
(* and taken while oMu is held, by all but the ticker.  The report is      *)
(* written under neither.                                                  *)
(*                                                                         *)
(* The screen is a sequence of lines.  A frame is written without a final  *)
(* line break; erasing it clears as many lines as it is said to have.      *)
(***************************************************************************)
EXTENDS Integers, Sequences, FiniteSets

CONSTANTS
  Loggers,     \* goroutines that log
  Labels,      \* messages of stages
  Budget,      \* rows there is room for: min(6, height - 1)
  MaxRecords,  \* bound on the records a logger logs
  MaxDue       \* bound on how often a row becomes due

Nobody == "nobody"
Main == "main"

ASSUME ProgressAssumption ==
  /\ Nobody \notin Loggers /\ Main \notin Loggers
  /\ Budget \in Nat /\ MaxDue \in Nat
  /\ MaxRecords \in [Loggers -> Nat]

VARIABLES
  interactive, enabled, progress, oMu,  \* commandOutput; progress: it has a display
  rows, plain, stopped, quit, pMu,      \* terminalProgress; quit: it is closed
  shown, last,  \* the frame terminalProgress thinks is on the screen: lines, text
  ticker,       \* the goroutine that repaints
  logger,       \* each logger: where it is, with which record, records left
  main,         \* the command's goroutine: what it is doing, the step of a stop
  screen,       \* what the terminal shows
  written       \* history: lines written to stay, milestones included

output == <<interactive, enabled, progress>>
frame == <<shown, last>>
life == <<plain, stopped, quit>>
text == <<screen, written>>
vars == <<output, oMu, rows, life, pMu, frame, ticker, logger, main, text>>

NoRecord == [kind |-> "none"]
Activity == [kind : {"stage", "progress", "result"}, label : Labels]
Warning == [kind |-> "warning"]

Init ==
  /\ interactive \in BOOLEAN
  /\ enabled \in {e \in BOOLEAN : interactive => e}
  /\ progress = FALSE
  /\ oMu = Nobody /\ pMu = Nobody
  /\ rows = <<>> /\ shown = 0 /\ last = <<>>
  /\ plain = FALSE /\ stopped = FALSE /\ quit = FALSE /\ ticker = "none"
  /\ logger = [g \in Loggers |-> [at |-> "idle", record |-> NoRecord, left |-> MaxRecords[g]]]
  /\ main = [doing |-> "work", step |-> "go"]
  /\ screen = <<>> /\ written = <<>>

-----------------------------------------------------------------------------
(* The screen.                                                             *)

\* Fault: the cursor is moved up one line too many.
EraseTooMuch(s) == IF shown = 0 THEN s ELSE SubSeq(s, 1, Len(s) - shown - 1)

Erase(s) == IF shown = 0 THEN s ELSE SubSeq(s, 1, Len(s) - shown)

\* terminalProgress.clear: the frame, if any, is taken off the screen.
Clear ==
  /\ screen' = Erase(screen)
  /\ shown' = 0
  /\ last' = <<>>

Persist(line) ==
  /\ screen' = Append(screen, line)
  /\ written' = Append(written, line)

-----------------------------------------------------------------------------
(* Goroutines that log (activityHandler.Handle).                           *)

Go(g, place) == logger' = [logger EXCEPT ![g].at = place]

\* A record is logged, once oMu is free.
Log(g) ==
  /\ logger[g].at = "idle" /\ logger[g].left > 0
  /\ oMu = Nobody
  /\ oMu' = g
  /\ \E r \in Activity \cup {Warning} :
       logger' = [logger EXCEPT ![g] = [at |-> "handling", record |-> r, left |-> @.left - 1]]
  /\ UNCHANGED <<output, rows, life, pMu, frame, ticker, main, text>>

HandlesStage(g) == logger[g].at = "handling" /\ logger[g].record # Warning
HandlesWarning(g) == logger[g].at = "handling" /\ logger[g].record = Warning

Return(g) == oMu' = Nobody /\ Go(g, "idle")

Showing == enabled \/ interactive

\* Stages are not shown, or not any more.
Drop(g) ==
  /\ HandlesStage(g)
  /\ ~Showing
  /\ Return(g)
  /\ UNCHANGED <<output, rows, life, pMu, frame, ticker, main, text>>

\* The first record of a stage starts the display and its ticker.
Start(g) ==
  /\ HandlesStage(g)
  /\ Showing /\ ~progress
  /\ progress' = TRUE
  /\ rows' = <<>> /\ shown' = 0 /\ last' = <<>>
  /\ plain' = ~interactive /\ stopped' = FALSE /\ quit' = FALSE
  /\ ticker' = "select"
  /\ UNCHANGED <<interactive, enabled, oMu, pMu, logger, main, text>>

Matching(l) == {i \in DOMAIN rows : rows[i].label = l}

Without(i) == SubSeq(rows, 1, i - 1) \o SubSeq(rows, i + 1, Len(rows))

\* A row for a stage that begins; the first row of that label changes with its
\* progress and goes with its result.
RowsAfter(r) ==
  IF r.kind = "stage"
  THEN {Append(rows, [label |-> r.label, count |-> 0, due |-> FALSE, turns |-> 0])}
  ELSE IF Matching(r.label) = {} THEN {rows}
  ELSE {IF r.kind = "result" THEN Without(i) ELSE [rows EXCEPT ![i].count = 1] :
          i \in {j \in Matching(r.label) : \A k \in Matching(r.label) : j <= k}}

Update(g) ==
  /\ HandlesStage(g)
  /\ Showing /\ progress
  /\ pMu = Nobody
  /\ rows' \in IF stopped THEN {rows} ELSE RowsAfter(logger[g].record)
  /\ Return(g)
  /\ UNCHANGED <<output, life, pMu, frame, ticker, main, text>>

\* A warning with nothing on display.
Warn(g) ==
  /\ HandlesWarning(g)
  /\ ~progress
  /\ Persist(<<"warning", g>>)
  /\ Return(g)
  /\ UNCHANGED <<output, rows, life, pMu, frame, ticker, main>>

\* terminalProgress.write: the frame is cleared and the warning written, pMu
\* held from one to the other.
WriteClear(g) ==
  /\ HandlesWarning(g)
  /\ progress
  /\ pMu = Nobody
  /\ pMu' = g
  /\ Clear
  /\ Go(g, "writing")
  /\ UNCHANGED <<output, oMu, rows, life, ticker, main, written>>

WriteText(g) ==
  /\ logger[g].at = "writing"
  /\ Persist(<<"warning", g>>)
  /\ pMu' = Nobody
  /\ Return(g)
  /\ UNCHANGED <<output, rows, life, frame, ticker, main>>

-----------------------------------------------------------------------------
(* The ticker (terminalProgress.run and draw).                             *)

\* A stage has gone on for long enough to be shown, or announced again.
Due(i) ==
  /\ ~rows[i].due /\ rows[i].turns < MaxDue
  /\ rows' = LET due == [rows EXCEPT ![i].due = TRUE] IN [due EXCEPT ![i].turns = @ + 1]
  /\ UNCHANGED <<output, oMu, life, pMu, frame, ticker, logger, main, text>>

Tick ==
  /\ ticker = "select"
  /\ ticker' = "tick"
  /\ UNCHANGED <<output, oMu, rows, life, pMu, frame, logger, main, text>>

\* A tick is served once pMu is free, which is not given up in between.
Serve ==
  /\ ticker = "tick" /\ pMu = Nobody
  /\ ticker' = "select"
  /\ UNCHANGED <<output, oMu, life, pMu, logger, main>>

DueRows == {i \in DOMAIN rows : rows[i].due}

Smaller(a, b) == IF a <= b THEN a ELSE b

\* terminalProgress.view: the stages that are due, as many as there is room for.
Frame ==
  LET Nth(k) == CHOOSE i \in DueRows : Cardinality({j \in DueRows : j <= i}) = k
  IN  [k \in 1 .. Smaller(Cardinality(DueRows), Budget) |->
         <<"row", rows[Nth(k)].label, rows[Nth(k)].count>>]

\* Fault: with nothing to show nothing is painted.
RepaintsNonempty == Frame # last /\ Frame # <<>>

Repaints == Frame # last

\* A frame that changed is erased and painted again, in one write.
Paint ==
  /\ Serve
  /\ ~stopped /\ ~plain
  /\ Repaints
  /\ screen' = Erase(screen) \o Frame
  /\ last' = Frame
  /\ shown' = Len(Frame)
  /\ UNCHANGED <<rows, written>>

DueLast == rows # <<>> /\ rows[Len(rows)].due

\* Without repainting: a milestone of the stage that began last, if it is due.
Announce ==
  /\ Serve
  /\ ~stopped /\ plain
  /\ DueLast
  /\ Persist(<<"milestone", rows[Len(rows)].label>>)
  /\ rows' = [rows EXCEPT ![Len(rows)].due = FALSE]
  /\ UNCHANGED frame

\* Nothing to paint, or the tick came too late.
Pass ==
  /\ Serve
  /\ stopped \/ (plain /\ ~DueLast) \/ (~plain /\ ~Repaints)
  /\ UNCHANGED <<rows, frame, text>>

Quit ==
  /\ ticker = "select" /\ quit
  /\ ticker' = "exited"
  /\ UNCHANGED <<output, oMu, rows, life, pMu, frame, logger, main, text>>

-----------------------------------------------------------------------------
(* The command: its work done, it stops the display; writes its report, if *)
(* it has one, which stops the display; and finishes, which stops it too,  *)
(* with an error or without.                                               *)

Doing(place) == main = [doing |-> place, step |-> "go"]

Goes(places) == main' \in [doing : places, step : {"go"}]

Stops == {"stop", "stop_report", "stop_finish"}

After(stop) ==
  IF stop = "stop" THEN {"stop_report", "stop_finish"}
  ELSE IF stop = "stop_report" THEN {"report"} ELSE {"finish", "done"}

WorkDone ==
  /\ Doing("work")
  /\ Goes({"stop"})
  /\ UNCHANGED <<output, oMu, rows, life, pMu, frame, ticker, logger, text>>

\* commandOutput.stop finds nothing on display.
StopNothing ==
  /\ \E s \in Stops : Doing(s) /\ Goes(After(s))
  /\ oMu = Nobody
  /\ ~progress
  /\ interactive' = FALSE /\ enabled' = FALSE
  /\ UNCHANGED <<progress, oMu, rows, life, pMu, frame, ticker, logger, text>>

\* Fault: stages may still be shown.
StopEntersEnabled ==
  /\ \E s \in Stops : Doing(s)
  /\ oMu = Nobody
  /\ progress
  /\ oMu' = Main
  /\ main' = [main EXCEPT !.step = "stopping"]
  /\ interactive' = FALSE
  /\ UNCHANGED <<enabled, progress, rows, life, pMu, frame, ticker, logger, text>>

StopEnters ==
  /\ \E s \in Stops : Doing(s)
  /\ oMu = Nobody
  /\ progress
  /\ oMu' = Main
  /\ main' = [main EXCEPT !.step = "stopping"]
  /\ interactive' = FALSE /\ enabled' = FALSE
  /\ UNCHANGED <<progress, rows, life, pMu, frame, ticker, logger, text>>

\* Fault: pMu is kept until the ticker has exited.
StopDisplayLocked ==
  /\ main.step = "stopping" /\ pMu = Nobody
  /\ stopped' = TRUE
  /\ Clear
  /\ rows' = <<>>
  /\ quit' = TRUE
  /\ pMu' = Main
  /\ main' = [main EXCEPT !.step = "awaiting"]
  /\ UNCHANGED <<output, oMu, plain, ticker, logger, written>>

\* terminalProgress.stop, its critical section.
StopDisplay ==
  /\ main.step = "stopping" /\ pMu = Nobody
  /\ stopped' = TRUE
  /\ Clear
  /\ rows' = <<>>
  /\ quit' = TRUE
  /\ main' = [main EXCEPT !.step = "awaiting"]
  /\ UNCHANGED <<output, oMu, plain, pMu, ticker, logger, written>>

\* The ticker, which is awaited with oMu held, has exited.
StopReturns ==
  /\ main.step = "awaiting" /\ ticker = "exited"
  /\ progress' = FALSE
  /\ oMu' = Nobody
  /\ Goes(After(main.doing))
  /\ UNCHANGED <<interactive, enabled, rows, life, pMu, frame, ticker, logger, text>>

\* The report, and an error at the end, are written under no lock.
Report ==
  /\ Doing("report")
  /\ Persist(<<"report">>)
  /\ Goes({"stop_finish"})
  /\ UNCHANGED <<output, oMu, rows, life, pMu, frame, ticker, logger>>

Finish ==
  /\ Doing("finish")
  /\ Persist(<<"error">>)
  /\ Goes({"done"})
  /\ UNCHANGED <<output, oMu, rows, life, pMu, frame, ticker, logger>>

Ends == StopNothing \/ StopEnters \/ StopDisplay \/ StopReturns \/ Report \/ Finish

Handle(g) ==
  Drop(g) \/ Start(g) \/ Update(g) \/ Warn(g) \/ WriteClear(g) \/ WriteText(g)

Ticks == Tick \/ Paint \/ Announce \/ Pass

Next ==
  \/ WorkDone \/ Ends \/ Ticks \/ Quit
  \/ \E g \in Loggers : Log(g) \/ Handle(g)
  \/ \E i \in DOMAIN rows : Due(i)

Spec == Init /\ [][Next]_vars

FairSpec ==
  /\ Spec
  /\ WF_vars(Ends) /\ WF_vars(Ticks) /\ SF_vars(Quit)
  /\ \A g \in Loggers : WF_vars(Handle(g))

-----------------------------------------------------------------------------
(* Properties.                                                             *)

(* The terminal shows every line that was written to stay, whole and in    *)
(* order, and below them the frame terminalProgress thinks is there: no    *)
(* repaint erases a warning, and no line is written onto a frame.          *)
ScreenIntact == screen = written \o last /\ shown = Len(last)

(* Once the command has stopped the display, and before the report is      *)
(* written, progress is over for good (progress.go:82): no tick that came  *)
(* late and no stage that is logged late paints a frame or a milestone.    *)
ReportUndisturbed ==
  main.doing \in {"report", "stop_finish", "finish", "done"} =>
    /\ last = <<>>
    /\ \A i, j \in DOMAIN written :
         written[i] \in {<<"report">>, <<"error">>} /\ i < j => written[j][1] # "milestone"

OnScreen(l) == \E i \in DOMAIN screen : screen[i][1] = "row" /\ screen[i][2] = l

(* A stage that has ended does not stay on the screen.                     *)
EndedStagesVanish ==
  \A l \in Labels : OnScreen(l) /\ Matching(l) = {} ~> ~OnScreen(l) \/ Matching(l) # {}

(* Stopping the display, which waits for the ticker with oMu held, returns,*)
(* whatever is logged at the same time: the command comes to its end.      *)
CommandEnds == main.doing # "work" ~> main.doing = "done"

=============================================================================
