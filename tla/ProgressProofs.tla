---------------------------- MODULE ProgressProofs --------------------------
(***************************************************************************)
(* Theorems about Progress, for any number of goroutines that log, any     *)
(* stages and any height of the terminal: what was written stays whole,    *)
(* the report is not disturbed, and nobody writes but the holder of the    *)
(* mutexes.                                                                *)
(***************************************************************************)
EXTENDS Progress, FiniteSetTheorems, SequenceTheorems, WellFoundedInduction, TLAPS

Row == [label : Labels, count : {0, 1}, due : BOOLEAN, turns : Nat]

Lines ==
  {<<"warning", g>> : g \in Loggers} \cup {<<"milestone", l>> : l \in Labels}
    \cup {<<"row", l, n>> : l \in Labels, n \in {0, 1}} \cup {<<"report">>, <<"error">>}

TypeOK ==
  /\ interactive \in BOOLEAN /\ enabled \in BOOLEAN /\ progress \in BOOLEAN
  /\ oMu \in Loggers \cup {Nobody, Main}
  /\ pMu \in Loggers \cup {Nobody}
  /\ rows \in Seq(Row)
  /\ plain \in BOOLEAN /\ stopped \in BOOLEAN /\ quit \in BOOLEAN
  /\ shown \in Nat /\ last \in Seq(Lines)
  /\ ticker \in {"none", "select", "tick", "exited"}
  /\ logger \in [Loggers -> [at : {"idle", "handling", "writing"},
                             record : Activity \cup {Warning, NoRecord}, left : Nat]]
  /\ main \in [doing : {"work", "report", "finish", "done"} \cup Stops,
               step : {"go", "stopping", "awaiting"}]
  /\ screen \in Seq(Lines) /\ written \in Seq(Lines)

(* A goroutine handles a record, or the command stops the display, with    *)
(* oMu held; and a logger that is about to write holds pMu as well.        *)
Exclusion ==
  /\ \A g \in Loggers : oMu = g <=> logger[g].at # "idle"
  /\ oMu = Main <=> main.step # "go"
  /\ \A g \in Loggers : pMu = g <=> logger[g].at = "writing"

\* Whoever writes a line to stay finds no frame, nor a ticker that paints one:
\* there is none without a display, in milestone mode, and after the stop.
Frameless ==
  /\ ~progress \/ plain \/ stopped => last = <<>>
  /\ \A g \in Loggers : logger[g].at = "writing" => last = <<>>
  /\ ticker \in {"select", "tick"} => progress

\* Stages are shown until the command first stops the display, and never again.
Ending ==
  /\ main.step # "go" => main.doing = "stop" /\ progress /\ ~Showing
  /\ main.step = "awaiting" => stopped
  /\ main.doing \notin {"work", "stop"} => ~progress /\ ~Showing

Final == {<<"report">>, <<"error">>}

\* The report comes after the stop, milestones before it.
Reported ==
  /\ main.doing \in {"work", "stop"} => \A i \in DOMAIN written : written[i] \notin Final
  /\ \A i, j \in DOMAIN written :
       written[i] \in Final /\ i < j => written[j][1] # "milestone"

IInv == TypeOK /\ Exclusion /\ Frameless /\ Ending /\ Reported /\ ScreenIntact

-----------------------------------------------------------------------------
(* What is written and what is erased.                                     *)

\* A line is written where no frame is.
LEMMA PersistHolds ==
  ASSUME TypeOK, ScreenIntact, last = <<>>, NEW line \in Lines, Persist(line), UNCHANGED frame
  PROVE  /\ screen' \in Seq(Lines) /\ written' \in Seq(Lines)
         /\ ScreenIntact'
<1>1. screen = written
  BY DEF TypeOK, ScreenIntact
<1>2. screen' = Append(written, line) /\ written' = Append(written, line)
  BY <1>1 DEF Persist
<1>3. last' = <<>> /\ shown' = shown
  BY DEF frame
<1>4. QED
  BY <1>2, <1>3 DEF TypeOK, ScreenIntact

\* What a new line means for the order of reports and milestones.
LEMMA PersistReported ==
  ASSUME TypeOK, Reported, NEW line \in Lines, Persist(line),
         \/ main.doing \in {"work", "stop"} /\ UNCHANGED main /\ line \notin Final
         \/ main'.doing \notin {"work", "stop"} /\ line[1] # "milestone"
  PROVE  Reported'
<1>1. /\ Len(written') = Len(written) + 1 /\ DOMAIN written' = 1 .. Len(written) + 1
      /\ DOMAIN written = 1 .. Len(written) /\ Len(written) \in Nat
      /\ written'[Len(written) + 1] = line
      /\ \A i \in 1 .. Len(written) : written'[i] = written[i]
  BY DEF Persist, TypeOK
<1>2. CASE main.doing \in {"work", "stop"} /\ UNCHANGED main /\ line \notin Final
  <2>1. \A i \in DOMAIN written' : written'[i] \notin Final
    BY <1>1, <1>2 DEF Reported
  <2>2. QED
    BY <1>2, <2>1 DEF Reported, Final
<1>3. CASE main'.doing \notin {"work", "stop"} /\ line[1] # "milestone"
  <2>1. ASSUME NEW i \in DOMAIN written', NEW j \in DOMAIN written', written'[i] \in Final, i < j
        PROVE  written'[j][1] # "milestone"
    <3>1. CASE j = Len(written) + 1
      BY <1>1, <1>3, <3>1
    <3>2. CASE j # Len(written) + 1
      <4>1. i \in DOMAIN written /\ j \in DOMAIN written
        BY <1>1, <2>1, <3>2
      <4>2. QED
        BY <1>1, <2>1, <4>1 DEF Reported
    <3>3. QED
      BY <3>1, <3>2
  <2>2. QED
    BY <1>3, <2>1 DEF Reported, Final
<1>4. QED
  BY <1>2, <1>3

\* Erasing the frame leaves what was written.
LEMMA EraseWritten ==
  ASSUME TypeOK, ScreenIntact PROVE Erase(screen) = written
<1>1. CASE shown = 0
  <2>1. last \in Seq(Lines) /\ Len(last) = 0
    BY <1>1 DEF TypeOK, ScreenIntact
  <2>2. last = <<>>
    BY <2>1, EmptySeq
  <2>3. screen = written
    BY <2>2, ConcatEmptySeq DEF TypeOK, ScreenIntact
  <2>4. QED
    BY <1>1, <2>3 DEF Erase
<1>2. CASE shown # 0
  BY <1>2 DEF TypeOK, ScreenIntact, Erase
<1>3. QED
  BY <1>1, <1>2

LEMMA ClearHolds ==
  ASSUME TypeOK, ScreenIntact, Clear, UNCHANGED written
  PROVE  screen' \in Seq(Lines) /\ last' = <<>> /\ shown' = 0 /\ ScreenIntact'
BY EraseWritten DEF TypeOK, ScreenIntact, Clear

\* A set of natural numbers has a least element.
LEMMA LeastNatural ==
  ASSUME NEW T \in SUBSET Nat, T # {}
  PROVE  \E x \in T : \A y \in T : x <= y
<1> DEFINE Less == {p \in Nat \X Nat : p[1] < p[2]}
<1>1. Less = OpToRel(<, Nat)
  BY DEF OpToRel
<1>2. IsWellFoundedOn(Less, Nat)
  BY <1>1, NatLessThanWellFounded
<1>3. \E x \in T : \A y \in T : <<y, x>> \notin Less
  <2> HIDE DEF Less
  <2> QED BY <1>2, WFMin, Zenon
<1>4. \A x, y \in Nat : <<y, x>> \notin Less => x <= y
  OBVIOUS
<1>5. QED
  BY <1>3, <1>4

\* Of the rows that are due, some row is the k-th.
LEMMA NthIsDue ==
  ASSUME TypeOK, NEW k \in 1 .. Cardinality(DueRows)
  PROVE  \E i \in DueRows : Cardinality({j \in DueRows : j <= i}) = k
<1> DEFINE Upto(m) == {j \in DueRows : j <= m}
           T == {m \in 0 .. Len(rows) : k <= Cardinality(Upto(m))}
<1>1. DueRows \in SUBSET (1 .. Len(rows)) /\ Len(rows) \in Nat
  BY DEF TypeOK, DueRows
<1>2. IsFiniteSet(DueRows)
  <2>1. IsFiniteSet(1 .. Len(rows))
    BY <1>1, FS_Interval
  <2>2. QED
    BY <1>1, <2>1, FS_Subset
<1>3. \A m \in Int : IsFiniteSet(Upto(m)) /\ Cardinality(Upto(m)) \in Nat
  BY <1>2, FS_Subset, FS_CardinalityType
<1>4. Upto(0) = {} /\ Upto(Len(rows)) = DueRows
  <2>1. \A j \in DueRows : ~(j <= 0) /\ j <= Len(rows)
    BY <1>1
  <2>2. \A j : j \notin Upto(0)
    BY <2>1
  <2>3. \A j \in DueRows : j \in Upto(Len(rows))
    BY <2>1
  <2>4. QED
    BY <2>2, <2>3
<1>5. ASSUME NEW m \in 1 .. Len(rows)
      PROVE  /\ m \notin Upto(m - 1)
             /\ m \notin DueRows => Upto(m) = Upto(m - 1)
             /\ m \in DueRows => Upto(m) = Upto(m - 1) \cup {m}
  <2>1. \A j \in DueRows : j \in Int /\ (j <= m <=> j <= m - 1 \/ j = m)
    BY <1>1
  <2>2. \A j : j \in Upto(m) <=> j \in DueRows /\ j <= m
    OBVIOUS
  <2>3. \A j : j \in Upto(m - 1) <=> j \in DueRows /\ j <= m - 1
    OBVIOUS
  <2>4. ~(m <= m - 1)
    OBVIOUS
  <2> HIDE DEF Upto
  <2>5. QED
    BY <2>1, <2>2, <2>3, <2>4
<1> HIDE DEF Upto
<1>6. Cardinality(DueRows) \in Nat /\ k \in Nat /\ 0 < k /\ k <= Cardinality(DueRows)
  BY <1>2, FS_CardinalityType
<1>7. PICK m \in T : \A n \in T : m <= n
  <2>1. Len(rows) \in T
    BY <1>1, <1>4, <1>6
  <2>2. T \in SUBSET Nat
    BY <1>1
  <2> HIDE DEF T
  <2>3. QED
    BY <2>1, <2>2, LeastNatural
<1>8. m \in 1 .. Len(rows) /\ k <= Cardinality(Upto(m))
  <2>1. Cardinality(Upto(0)) = 0
    BY <1>4, FS_EmptySet
  <2>2. QED
    BY <1>1, <1>6, <1>7, <2>1
<1>9. ~(k <= Cardinality(Upto(m - 1)))
  <2>1. m - 1 \in 0 .. Len(rows) /\ ~(m <= m - 1)
    BY <1>1, <1>8
  <2>2. QED
    BY <1>7, <2>1
<1>10. m \in DueRows
  BY <1>5, <1>8, <1>9
<1>11. Cardinality(Upto(m)) = Cardinality(Upto(m - 1)) + 1
  <2>1. Upto(m) = Upto(m - 1) \cup {m} /\ m \notin Upto(m - 1)
    BY <1>5, <1>8, <1>10
  <2>2. IsFiniteSet(Upto(m - 1))
    BY <1>3, <1>1, <1>8
  <2>3. QED
    BY <2>1, <2>2, FS_AddElement
<1>12. Cardinality(Upto(m)) \in Nat /\ Cardinality(Upto(m - 1)) \in Nat
  BY <1>1, <1>3, <1>8
<1>13. Cardinality(Upto(m)) = k
  BY <1>6, <1>8, <1>9, <1>11, <1>12
<1>14. QED
  BY <1>10, <1>13 DEF Upto

\* A frame is a sequence of rows, however many are due.
LEMMA FrameIsLines ==
  ASSUME TypeOK PROVE Frame \in Seq(Lines) /\ Len(Frame) \in Nat
<1> DEFINE Nth(k) == CHOOSE i \in DueRows : Cardinality({j \in DueRows : j <= i}) = k
           Fits == Smaller(Cardinality(DueRows), Budget)
<1>1. IsFiniteSet(DueRows) /\ DueRows \subseteq DOMAIN rows
  <2>1. DOMAIN rows = 1 .. Len(rows) /\ Len(rows) \in Nat
    BY DEF TypeOK
  <2>2. IsFiniteSet(1 .. Len(rows))
    BY <2>1, FS_Interval
  <2>3. QED
    BY <2>1, <2>2, FS_Subset DEF DueRows
<1>2. Fits \in Nat /\ Fits <= Cardinality(DueRows)
  BY <1>1, FS_CardinalityType, ProgressAssumption DEF Smaller
<1>3. ASSUME NEW k \in 1 .. Fits PROVE Nth(k) \in DOMAIN rows
  <2>1. k \in 1 .. Cardinality(DueRows)
    <3> HIDE DEF Fits
    <3> QED BY <1>1, <1>2, FS_CardinalityType
  <2>2. \E i \in DueRows : Cardinality({j \in DueRows : j <= i}) = k
    BY <2>1, NthIsDue
  <2>3. Nth(k) \in DueRows
    BY <2>2
  <2>4. QED
    BY <1>1, <2>3
<1>4. \A k \in 1 .. Fits : <<"row", rows[Nth(k)].label, rows[Nth(k)].count>> \in Lines
  <2> HIDE DEF Nth, Fits
  <2>1. \A i \in DOMAIN rows : rows[i] \in Row
    BY DEF TypeOK
  <2>2. \A i \in DOMAIN rows : rows[i].label \in Labels /\ rows[i].count \in {0, 1}
    BY <2>1 DEF Row
  <2>3. QED
    BY <1>3, <2>2 DEF Lines
<1>5. Frame = [k \in 1 .. Fits |-> <<"row", rows[Nth(k)].label, rows[Nth(k)].count>>]
  BY DEF Frame
<1>6. QED
  <2> HIDE DEF Nth, Fits
  <2> QED BY <1>2, <1>4, <1>5

-----------------------------------------------------------------------------
(* Every step preserves the invariant.                                     *)

LEMMA InitHolds == Init => IInv
<1> SUFFICES ASSUME Init PROVE IInv
  OBVIOUS
<1> USE DEF Init
<1>1. TypeOK
  <2>1. rows \in Seq(Row) /\ last \in Seq(Lines) /\ screen \in Seq(Lines) /\ written \in Seq(Lines)
    BY EmptySeq
  <2>2. logger \in [Loggers -> [at : {"idle", "handling", "writing"},
                                record : Activity \cup {Warning, NoRecord}, left : Nat]]
    BY ProgressAssumption
  <2>3. main \in [doing : {"work", "report", "finish", "done"} \cup Stops,
                  step : {"go", "stopping", "awaiting"}]
    OBVIOUS
  <2>4. QED
    BY <2>1, <2>2, <2>3 DEF TypeOK
<1>2. Exclusion
  BY ProgressAssumption DEF Exclusion, Nobody, Main
<1>3. Frameless /\ Ending
  BY DEF Frameless, Ending
<1>4. Reported
  <2>1. DOMAIN written = {}
    OBVIOUS
  <2>2. QED
    BY <2>1 DEF Reported
<1>5. ScreenIntact
  BY DEF ScreenIntact
<1>6. QED
  BY <1>1, <1>2, <1>3, <1>4, <1>5 DEF IInv

\* The conjuncts that speak of the screen and the frame, if a step leaves them.
LEMMA ScreenKept ==
  ASSUME ScreenIntact, UNCHANGED <<frame, text>> PROVE ScreenIntact'
BY DEF ScreenIntact, frame, text

LEMMA ReportedKept ==
  ASSUME Reported, UNCHANGED written,
         main'.doing \in {"work", "stop"} => main.doing \in {"work", "stop"}
  PROVE  Reported'
BY DEF Reported

\* A record is taken up, or dropped.
LEMMA LogHolds ==
  ASSUME IInv, NEW g \in Loggers, Log(g) PROVE IInv'
<1> USE DEF IInv, Log, output, life, frame, text
<1>1. PICK r \in Activity \cup {Warning} :
        logger' = [logger EXCEPT ![g] = [at |-> "handling", record |-> r, left |-> @.left - 1]]
  OBVIOUS
<1>2. logger' \in [Loggers -> [at : {"idle", "handling", "writing"},
                               record : Activity \cup {Warning, NoRecord}, left : Nat]]
  BY <1>1 DEF TypeOK
<1>3. TypeOK'
  BY <1>2 DEF TypeOK
<1>4. /\ logger'[g].at = "handling"
      /\ \A h \in Loggers \ {g} : logger'[h] = logger[h]
  BY <1>1 DEF TypeOK
<1>5. Exclusion'
  BY <1>4, ProgressAssumption DEF Exclusion, Nobody, Main
<1>6. Frameless'
  BY <1>4 DEF Frameless
<1>7. Ending'
  BY DEF Ending, Showing
<1>8. Reported' /\ ScreenIntact'
  BY ScreenKept, ReportedKept
<1>9. QED
  BY <1>3, <1>5, <1>6, <1>7, <1>8

\* What a logger's return does to the types and to the exclusion.
LEMMA ReturnHolds ==
  ASSUME TypeOK, Exclusion, NEW g \in Loggers, logger[g].at # "idle", Return(g), UNCHANGED main,
         pMu' = IF logger[g].at = "writing" THEN Nobody ELSE pMu
  PROVE  /\ oMu' = Nobody /\ pMu' \in Loggers \cup {Nobody}
         /\ logger' \in [Loggers -> [at : {"idle", "handling", "writing"},
                                     record : Activity \cup {Warning, NoRecord}, left : Nat]]
         /\ Exclusion'
         /\ \A h \in Loggers : logger'[h].at = "writing" => logger[h].at = "writing"
<1>1. logger' \in [Loggers -> [at : {"idle", "handling", "writing"},
                               record : Activity \cup {Warning, NoRecord}, left : Nat]]
  BY DEF Return, Go, TypeOK
<1>2. /\ logger'[g].at = "idle"
      /\ \A h \in Loggers \ {g} : logger'[h] = logger[h]
  BY DEF Return, Go, TypeOK
<1>3. oMu' = Nobody /\ pMu' \in Loggers \cup {Nobody}
  BY DEF Return, TypeOK
<1>4. oMu = g /\ \A h \in Loggers \ {g} : logger[h].at = "idle"
  BY DEF Exclusion
<1>5. Exclusion'
  BY <1>2, <1>3, <1>4, ProgressAssumption DEF Exclusion, Nobody, Main
<1>6. QED
  BY <1>1, <1>2, <1>3, <1>5

LEMMA DropHolds ==
  ASSUME IInv, NEW g \in Loggers, Drop(g) PROVE IInv'
<1> USE DEF IInv, Drop, HandlesStage, output, life, frame, text
<1>1. /\ oMu' = Nobody
      /\ logger' \in [Loggers -> [at : {"idle", "handling", "writing"},
                                  record : Activity \cup {Warning, NoRecord}, left : Nat]]
      /\ Exclusion'
      /\ \A h \in Loggers : logger'[h].at = "writing" => logger[h].at = "writing"
  BY ReturnHolds
<1>2. TypeOK'
  BY <1>1 DEF TypeOK
<1>3. Frameless'
  BY <1>1 DEF Frameless
<1>4. Ending'
  BY DEF Ending, Showing
<1>5. Reported' /\ ScreenIntact'
  BY ScreenKept, ReportedKept
<1>6. QED
  BY <1>1, <1>2, <1>3, <1>4, <1>5

LEMMA StartHolds ==
  ASSUME IInv, NEW g \in Loggers, Start(g) PROVE IInv'
<1> USE DEF IInv, Start, HandlesStage, text
<1>1. TypeOK'
  BY EmptySeq DEF TypeOK
<1>2. Exclusion'
  BY DEF Exclusion
<1>3. last = <<>> /\ last' = <<>> /\ shown' = 0
  BY DEF Frameless
<1>4. Frameless'
  BY <1>3 DEF Frameless
<1>5. Ending'
  BY DEF Ending, Showing
<1>6. Reported'
  BY ReportedKept
<1>7. ScreenIntact'
  BY <1>3 DEF ScreenIntact
<1>8. QED
  BY <1>1, <1>2, <1>4, <1>5, <1>6, <1>7

LEMMA RowsAfterTyped ==
  ASSUME TypeOK, NEW r \in Activity \cup {Warning, NoRecord}, NEW s \in RowsAfter(r)
  PROVE  s \in Seq(Row)
<1>1. \A i \in DOMAIN rows : rows[i] \in Row
  BY DEF TypeOK
<1>2. CASE r.kind = "stage"
  <2>1. r.label \in Labels
    BY <1>2 DEF Activity, Warning, NoRecord
  <2>2. [label |-> r.label, count |-> 0, due |-> FALSE, turns |-> 0] \in Row
    BY <2>1 DEF Row
  <2>3. s = Append(rows, [label |-> r.label, count |-> 0, due |-> FALSE, turns |-> 0])
    BY <1>2 DEF RowsAfter
  <2>4. QED
    BY <2>2, <2>3 DEF TypeOK
<1>3. CASE r.kind # "stage"
  <2>1. CASE s = rows
    BY <2>1 DEF TypeOK
  <2>2. ASSUME NEW i \in DOMAIN rows, s = [rows EXCEPT ![i].count = 1]
        PROVE  s \in Seq(Row)
    <3>1. [rows[i] EXCEPT !.count = 1] \in Row
      BY <1>1 DEF Row
    <3>2. QED
      BY <2>2, <3>1 DEF TypeOK
  <2>3. ASSUME NEW i \in DOMAIN rows, s = Without(i)
        PROVE  s \in Seq(Row)
    <3>1. i \in 1 .. Len(rows) /\ Len(rows) \in Nat /\ rows \in Seq(Row)
      BY DEF TypeOK
    <3>2. SubSeq(rows, 1, i - 1) \in Seq(Row) /\ SubSeq(rows, i + 1, Len(rows)) \in Seq(Row)
      BY <3>1
    <3>3. QED
      BY <2>3, <3>2, ConcatProperties DEF Without
  <2>4. s = rows \/ \E i \in DOMAIN rows : s = Without(i) \/ s = [rows EXCEPT ![i].count = 1]
    BY <1>3 DEF RowsAfter, Matching
  <2>5. QED
    BY <2>1, <2>2, <2>3, <2>4
<1>4. QED
  BY <1>2, <1>3

LEMMA UpdateHolds ==
  ASSUME IInv, NEW g \in Loggers, Update(g) PROVE IInv'
<1> USE DEF IInv, Update, HandlesStage, output, life, frame, text
<1>1. /\ oMu' = Nobody
      /\ logger' \in [Loggers -> [at : {"idle", "handling", "writing"},
                                  record : Activity \cup {Warning, NoRecord}, left : Nat]]
      /\ Exclusion'
      /\ \A h \in Loggers : logger'[h].at = "writing" => logger[h].at = "writing"
  BY ReturnHolds
<1>2. rows' \in Seq(Row)
  <2>1. logger[g].record \in Activity \cup {Warning, NoRecord}
    BY DEF TypeOK
  <2>2. QED
    BY <2>1, RowsAfterTyped DEF TypeOK
<1>3. TypeOK'
  BY <1>1, <1>2 DEF TypeOK
<1>4. Frameless'
  BY <1>1 DEF Frameless
<1>5. Ending'
  BY DEF Ending, Showing
<1>6. Reported' /\ ScreenIntact'
  BY ScreenKept, ReportedKept
<1>7. QED
  BY <1>1, <1>3, <1>4, <1>5, <1>6

\* A warning is written, with a display or without: no frame is on the screen.
LEMMA WarningHolds ==
  ASSUME IInv, NEW g \in Loggers, Warn(g) \/ WriteText(g) PROVE IInv'
<1> USE DEF IInv, Warn, WriteText, HandlesWarning, output, life, frame
<1>1. /\ Persist(<<"warning", g>>) /\ Return(g) /\ logger[g].at # "idle"
      /\ UNCHANGED <<output, rows, life, frame, ticker, main>>
      /\ pMu' = IF logger[g].at = "writing" THEN Nobody ELSE pMu
  OBVIOUS
<1>2. /\ oMu' = Nobody /\ pMu' \in Loggers \cup {Nobody}
      /\ logger' \in [Loggers -> [at : {"idle", "handling", "writing"},
                                  record : Activity \cup {Warning, NoRecord}, left : Nat]]
      /\ Exclusion'
      /\ \A h \in Loggers : logger'[h].at = "writing" => logger[h].at = "writing"
  BY <1>1, ReturnHolds
<1>3. last = <<>>
  BY DEF Frameless
<1>4. <<"warning", g>> \in Lines
  BY DEF Lines
<1>5. screen' \in Seq(Lines) /\ written' \in Seq(Lines) /\ ScreenIntact'
  BY <1>1, <1>3, <1>4, PersistHolds
<1>6. TypeOK'
  BY <1>1, <1>2, <1>5 DEF TypeOK
<1>7. Frameless'
  BY <1>1, <1>2 DEF Frameless
<1>8. Ending'
  BY <1>1 DEF Ending, Showing
<1>9. Reported'
  <2>1. <<"warning", g>> \notin Final /\ <<"warning", g>>[1] # "milestone"
    BY DEF Final
  <2>2. QED
    BY <1>1, <1>4, <2>1, PersistReported
<1>10. QED
  BY <1>2, <1>5, <1>6, <1>7, <1>8, <1>9

LEMMA WriteClearHolds ==
  ASSUME IInv, NEW g \in Loggers, WriteClear(g) PROVE IInv'
<1> USE DEF IInv, WriteClear, HandlesWarning, output, life, Go
<1>1. screen' \in Seq(Lines) /\ last' = <<>> /\ shown' = 0 /\ ScreenIntact'
  BY ClearHolds
<1>2. logger' \in [Loggers -> [at : {"idle", "handling", "writing"},
                               record : Activity \cup {Warning, NoRecord}, left : Nat]]
  BY DEF TypeOK
<1>3. TypeOK'
  BY <1>1, <1>2, EmptySeq DEF TypeOK
<1>4. /\ logger'[g].at = "writing"
      /\ \A h \in Loggers \ {g} : logger'[h] = logger[h]
  BY DEF TypeOK
<1>5. Exclusion'
  BY <1>4, ProgressAssumption DEF Exclusion, Nobody, Main
<1>6. Frameless'
  BY <1>1 DEF Frameless
<1>7. Ending'
  BY DEF Ending, Showing
<1>8. Reported'
  BY ReportedKept
<1>9. QED
  BY <1>1, <1>3, <1>5, <1>6, <1>7, <1>8

LEMMA DueHolds ==
  ASSUME IInv, NEW i \in DOMAIN rows, Due(i) PROVE IInv'
<1> USE DEF IInv, Due, output, life, frame, text
<1> DEFINE due == [rows EXCEPT ![i].due = TRUE]
<1>1. due \in Seq(Row)
  <2>1. rows[i] \in Row
    BY DEF TypeOK
  <2>2. [rows[i] EXCEPT !.due = TRUE] \in Row
    BY <2>1 DEF Row
  <2>3. QED
    BY <2>2 DEF TypeOK
<1>2. rows' \in Seq(Row)
  <2>1. i \in DOMAIN due /\ due[i] \in Row
    BY <1>1 DEF TypeOK
  <2>2. rows' = [due EXCEPT ![i] = [due[i] EXCEPT !.turns = @ + 1]]
    OBVIOUS
  <2> HIDE DEF due, Due, IInv
  <2>3. [due[i] EXCEPT !.turns = @ + 1] \in Row
    BY <2>1 DEF Row
  <2>4. QED
    BY <1>1, <2>1, <2>2, <2>3
<1>3. TypeOK'
  BY <1>2 DEF TypeOK
<1>4. Exclusion' /\ Frameless' /\ Ending'
  BY DEF Exclusion, Frameless, Ending, Showing
<1>5. Reported' /\ ScreenIntact'
  BY ScreenKept, ReportedKept
<1>6. QED
  BY <1>3, <1>4, <1>5

\* The ticker ticks, finds nothing to do, or exits.
LEMMA TickHolds ==
  ASSUME IInv, Tick \/ Pass \/ Quit PROVE IInv'
<1> USE DEF IInv, Tick, Pass, Serve, Quit, output, life, frame, text
<1>1. UNCHANGED <<output, oMu, rows, life, pMu, frame, logger, main, text>>
  OBVIOUS
<1>2. TypeOK'
  BY <1>1 DEF TypeOK
<1>3. Exclusion' /\ Ending'
  BY <1>1 DEF Exclusion, Ending, Showing
<1>4. Frameless'
  BY <1>1 DEF Frameless
<1>5. Reported' /\ ScreenIntact'
  BY <1>1, ScreenKept, ReportedKept
<1>6. QED
  BY <1>2, <1>3, <1>4, <1>5

LEMMA PaintHolds ==
  ASSUME IInv, Paint PROVE IInv'
<1> USE DEF IInv, Paint, Serve, output, life
<1>1. Frame \in Seq(Lines) /\ Len(Frame) \in Nat
  BY FrameIsLines
<1>2. screen' = written \o Frame /\ written \in Seq(Lines)
  BY EraseWritten DEF TypeOK
<1>3. screen' \in Seq(Lines)
  BY <1>1, <1>2, ConcatProperties
<1>4. TypeOK'
  BY <1>1, <1>3 DEF TypeOK
<1>5. Exclusion' /\ Ending'
  BY DEF Exclusion, Ending, Showing
<1>6. Frameless'
  BY ProgressAssumption DEF Frameless, Exclusion
<1>7. Reported'
  BY ReportedKept
<1>8. ScreenIntact'
  BY <1>2 DEF ScreenIntact
<1>9. QED
  BY <1>4, <1>5, <1>6, <1>7, <1>8

LEMMA AnnounceHolds ==
  ASSUME IInv, Announce PROVE IInv'
<1> USE DEF IInv, Announce, Serve, DueLast, output, life, frame
<1> DEFINE row == rows[Len(rows)]
<1>1. rows \in Seq(Row) /\ rows # <<>>
  BY DEF TypeOK
<1>2. Len(rows) \in 1 .. Len(rows) /\ row \in Row
  <2>1. Len(rows) \in Nat \ {0}
    BY <1>1, EmptySeq
  <2>2. QED
    BY <1>1, <2>1
<1>3. <<"milestone", row.label>> \in Lines
  BY <1>2 DEF Row, Lines
<1>4. rows' \in Seq(Row)
  <2>1. [row EXCEPT !.due = FALSE] \in Row
    BY <1>2 DEF Row
  <2>2. QED
    BY <1>1, <1>2, <2>1
<1>5. last = <<>>
  BY DEF Frameless
<1>6. screen' \in Seq(Lines) /\ written' \in Seq(Lines) /\ ScreenIntact'
  BY <1>3, <1>5, PersistHolds
<1>7. TypeOK'
  BY <1>4, <1>6 DEF TypeOK
<1>8. Exclusion' /\ Frameless' /\ Ending'
  BY DEF Exclusion, Frameless, Ending, Showing
<1>9. Reported'
  <2>1. main.doing \in {"work", "stop"}
    BY DEF Frameless, Ending
  <2>2. <<"milestone", row.label>> \notin Final
    BY DEF Final
  <2>3. QED
    BY <1>3, <2>1, <2>2, PersistReported
<1>10. QED
  BY <1>6, <1>7, <1>8, <1>9

\* The command begins to stop the display, or finds none to stop.
LEMMA StopBeginsHolds ==
  ASSUME IInv, WorkDone \/ StopNothing \/ StopEnters PROVE IInv'
<1> USE DEF IInv, WorkDone, StopNothing, StopEnters, Doing, Goes, Stops, After, output, life, frame, text
<1>1. UNCHANGED <<progress, rows, life, pMu, frame, ticker, logger, text>>
  OBVIOUS
<1>2. TypeOK'
  BY <1>1 DEF TypeOK
<1>3. Exclusion'
  BY <1>1, ProgressAssumption DEF Exclusion, Nobody, Main
<1>4. Frameless'
  BY <1>1 DEF Frameless
<1>5. Ending'
  BY DEF Ending, Showing, TypeOK
<1>6. Reported'
  BY ReportedKept
<1>7. ScreenIntact'
  BY <1>1, ScreenKept
<1>8. QED
  BY <1>2, <1>3, <1>4, <1>5, <1>6, <1>7

\* Nobody is writing, since pMu is free, and the ticker paints no more.
LEMMA StopDisplayHolds ==
  ASSUME IInv, StopDisplay PROVE IInv'
<1> USE DEF IInv, StopDisplay, output
<1>1. screen' \in Seq(Lines) /\ last' = <<>> /\ shown' = 0 /\ ScreenIntact'
  BY ClearHolds
<1>2. rows' \in Seq(Row) /\ last' \in Seq(Lines)
  BY <1>1, EmptySeq
<1>3. TypeOK'
  BY <1>1, <1>2 DEF TypeOK
<1>4. Exclusion'
  BY DEF Exclusion, TypeOK
<1>5. Frameless'
  BY <1>1 DEF Frameless
<1>6. Ending'
  BY DEF Ending, Showing, TypeOK
<1>7. Reported'
  BY ReportedKept DEF TypeOK
<1>8. QED
  BY <1>1, <1>3, <1>4, <1>5, <1>6, <1>7

LEMMA StopReturnsHolds ==
  ASSUME IInv, StopReturns PROVE IInv'
<1> USE DEF IInv, StopReturns, Goes, After, life, frame, text
<1>1. main.doing = "stop" /\ stopped
  BY DEF Ending
<1>2. TypeOK'
  BY <1>1 DEF TypeOK, Stops
<1>3. Exclusion'
  BY <1>1, ProgressAssumption DEF Exclusion, Nobody, Main
<1>4. Frameless'
  BY <1>1 DEF Frameless
<1>5. Ending'
  BY <1>1 DEF Ending, Showing
<1>6. Reported'
  BY <1>1, ReportedKept
<1>7. ScreenIntact'
  BY ScreenKept
<1>8. QED
  BY <1>2, <1>3, <1>4, <1>5, <1>6, <1>7

\* The report, or the error, is written where no frame is, without a lock.
LEMMA ReportHolds ==
  ASSUME IInv, Report \/ Finish PROVE IInv'
<1> USE DEF IInv, Report, Finish, Doing, Goes, Stops, output, life, frame
<1>1. PICK line \in Final : Persist(line)
  BY DEF Final
<1>2. /\ UNCHANGED <<output, oMu, rows, life, pMu, frame, ticker, logger>>
      /\ main.doing \notin {"work", "stop"} /\ main'.doing \notin {"work", "stop"}
      /\ main.step = "go" /\ main'.step = "go"
  OBVIOUS
<1>3. line \in Lines /\ line[1] # "milestone"
  BY DEF Final, Lines
<1>4. last = <<>>
  BY <1>2 DEF Frameless, Ending
<1>5. screen' \in Seq(Lines) /\ written' \in Seq(Lines) /\ ScreenIntact'
  BY <1>1, <1>2, <1>3, <1>4, PersistHolds
<1>6. TypeOK'
  BY <1>5 DEF TypeOK
<1>7. Exclusion' /\ Frameless'
  BY <1>2 DEF Exclusion, Frameless
<1>8. Ending'
  BY <1>2 DEF Ending, Showing
<1>9. Reported'
  BY <1>1, <1>2, <1>3, PersistReported
<1>10. QED
  BY <1>5, <1>6, <1>7, <1>8, <1>9

LEMMA StutterHolds == IInv /\ UNCHANGED vars => IInv'
BY DEF IInv, vars, output, life, frame, text, TypeOK, Exclusion, Frameless, Ending, Showing,
       Reported, ScreenIntact

LEMMA NextHolds == IInv /\ [Next]_vars => IInv'
<1> SUFFICES ASSUME IInv, [Next]_vars PROVE IInv'
  OBVIOUS
<1>1. ASSUME NEW g \in Loggers, Log(g) \/ Handle(g) PROVE IInv'
  BY <1>1, LogHolds, DropHolds, StartHolds, UpdateHolds, WarningHolds, WriteClearHolds
  DEF Handle
<1>2. ASSUME NEW i \in DOMAIN rows, Due(i) PROVE IInv'
  BY <1>2, DueHolds
<1>3. CASE Ticks \/ Quit
  BY <1>3, TickHolds, PaintHolds, AnnounceHolds DEF Ticks
<1>4. CASE WorkDone \/ Ends
  BY <1>4, StopBeginsHolds, StopDisplayHolds, StopReturnsHolds, ReportHolds DEF Ends
<1>5. CASE UNCHANGED vars
  BY <1>5, StutterHolds
<1>6. QED
  BY <1>1, <1>2, <1>3, <1>4, <1>5 DEF Next

-----------------------------------------------------------------------------
(* The theorems.                                                           *)

(* The invariant the other theorems rest on holds in every reachable state *)
(* (progress.go, diagnostics.go).                                          *)
THEOREM Inductive == Spec => []IInv
BY InitHolds, NextHolds, PTL DEF Spec

(* Every variable keeps its type: rows and frames stay sequences, and the  *)
(* lines on the screen are warnings, milestones, rows and the report.      *)
THEOREM TypeCorrect == Spec => []TypeOK
BY Inductive, PTL DEF IInv

(* A record is handled by one goroutine at a time, and never while the     *)
(* command stops the display; the frame and the screen between clear and   *)
(* write are those of the one logger that holds both mutexes.              *)
THEOREM WritersExclude == Spec => []Exclusion
BY Inductive, PTL DEF IInv

(* However logging, ticks and the stop interleave, the terminal shows      *)
(* every line written to stay, whole and in order, above the frame that    *)
(* terminalProgress thinks is there (progress.go:237).                     *)
THEOREM ScreenStaysIntact == Spec => []ScreenIntact
BY Inductive, PTL DEF IInv

(* After the stop no late tick and no late stage paints a frame, and no    *)
(* milestone follows the report (progress.go:82).                          *)
THEOREM ReportStandsUndisturbed == Spec => []ReportUndisturbed
<1>1. IInv => ReportUndisturbed
  BY DEF IInv, ReportUndisturbed, Frameless, Ending, Reported, Final
<1>2. QED
  BY <1>1, Inductive, PTL

=============================================================================
