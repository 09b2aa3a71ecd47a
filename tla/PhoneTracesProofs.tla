-------------------------- MODULE PhoneTracesProofs --------------------------
(***************************************************************************)
(* The timers of a benchmark run exclude each other, for a catalogue of    *)
(* any length; and no trace is lost, of either screen, nor finalised by an *)
(* ack of an older subtitle once its own was sent, whatever the user, the  *)
(* timers, the backend and the glasses do, for every number of presses and *)
(* phrases.                                                                *)
(***************************************************************************)
EXTENDS PhoneTraces, TLAPS

----------------------------------------------------------------------------
\* The timers of a run.

Runs == [active : BOOLEAN, index : Nat, timeout : BOOLEAN, advance : BOOLEAN]

\* Inductive: with the type of the run, its timers exclude each other.
TimersInv == run \in Runs /\ OneTimer

\* What the timers are, of a value of run.
Exclusive(r) ==
    /\ r \in Runs
    /\ ~(r.timeout /\ r.advance)
    /\ r.timeout \/ r.advance => r.active

LEMMA TimersAreExclusive == TimersInv <=> Exclusive(run)
BY DEF TimersInv, OneTimer, Exclusive

LEMMA ArmedExclusive ==
    ASSUME NEW r \in Runs, r.active, ~r.advance
    PROVE  Exclusive(Armed(r))
BY BenchmarkConstants DEF Exclusive, Armed, Runs

LEMMA AdvancingExclusive ==
    ASSUME NEW r, Exclusive(r)
    PROVE  Exclusive(Advancing(r))
BY DEF Exclusive, Advancing, Runs

LEMMA CancelledExclusive ==
    ASSUME NEW r, Exclusive(r)
    PROVE  Exclusive([r EXCEPT !.timeout = FALSE])
BY DEF Exclusive, Runs

LEMMA NoRunExclusive == Exclusive(NoRun) /\ NoRun.active = FALSE
BY DEF Exclusive, NoRun, Runs

\* A new run is armed whatever the last one left behind; the next phrase, once
\* the timer that brought it has fired.
LEMMA StartExclusive == Exclusive(Armed([NoRun EXCEPT !.active = TRUE]))
<1>1. [NoRun EXCEPT !.active = TRUE] \in Runs
  BY DEF NoRun, Runs
<1>2. [NoRun EXCEPT !.active = TRUE].active /\ ~[NoRun EXCEPT !.active = TRUE].advance
  BY DEF NoRun
<1> QED BY <1>1, <1>2, ArmedExclusive

LEMMA NextPhraseExclusive ==
    ASSUME NEW r, Exclusive(r), r.advance
    PROVE  Exclusive(Armed([r EXCEPT !.advance = FALSE, !.index = @ + 1]))
<1> DEFINE s == [r EXCEPT !.advance = FALSE, !.index = @ + 1]
<1>1. s \in Runs
  <2>1. r \in Runs /\ r.index + 1 \in Nat
    BY DEF Exclusive, Runs
  <2> QED BY <2>1 DEF Runs
<1>2. s.active /\ ~s.advance
  <2>1. r \in Runs /\ r.active
    BY DEF Exclusive
  <2> QED BY <2>1 DEF Runs
<1>3. Exclusive(Armed(s))
  <2> HIDE DEF s
  <2> QED BY <1>1, <1>2, ArmedExclusive
<1> QED BY <1>3

\* The steps leave the run alone, move it on, stop its timeout, or are two of
\* its own.
LEMMA RunSteps ==
    ASSUME [Next]_vars
    PROVE  \/ run' \in {run, Advancing(run), [run EXCEPT !.timeout = FALSE],
                        Armed([NoRun EXCEPT !.active = TRUE])}
           \/ run.advance /\ run' = Armed([run EXCEPT !.advance = FALSE, !.index = @ + 1])
<1>1. CASE UNCHANGED vars
  BY <1>1 DEF vars
<1>2. CASE Run
  BY <1>2 DEF Run, StartRun, RunAdvances, RunTimesOut, ClearRows
<1>3. CASE Button
  BY <1>3 DEF Button, PressDown, PressUp, EndUtterance, TeardownEnds, CooldownElapses
<1>4. CASE Answers
  <2>1. CASE PartialText \/ FinalText \/ WsError
    BY <2>1 DEF PartialText, FinalText, WithoutGlasses, WsError, Ends
  <2>2. ASSUME NEW seq \in acks, BleAck(seq)
        PROVE  run' \in {run, Advancing(run)}
    BY <2>2 DEF BleAck
  <2> QED BY <1>4, <2>1, <2>2 DEF Answers
<1>5. ASSUME NEW c \in chains, Chain(c)
      PROVE  run' \in {run, Advancing(run)}
  BY <1>5 DEF Chain, PressIsOver, Connected, RecorderStarted, StartFails, Ends
<1> QED BY <1>1, <1>2, <1>3, <1>4, <1>5 DEF Next

LEMMA StepTimers == TimersInv /\ [Next]_vars => TimersInv'
<1> SUFFICES ASSUME TimersInv, [Next]_vars PROVE TimersInv'
  OBVIOUS
<1>1. Exclusive(run)
  BY TimersAreExclusive
<1>2. Exclusive(run')
  BY <1>1, RunSteps, AdvancingExclusive, CancelledExclusive, StartExclusive, NextPhraseExclusive
<1> QED BY <1>2 DEF TimersInv, OneTimer, Exclusive

LEMMA InitTimers == Init => TimersInv
BY NoRunExclusive DEF Init, TimersInv, OneTimer, Exclusive

\* Whatever is pressed, answered or lost, a phrase of a benchmark run never
\* times out while the run moves on, and no timer fires after its run has ended
\* (translate_screen.dart:497-537).
THEOREM RunHasOneTimer == Spec => []OneTimer
<1>1. TimersInv => OneTimer
  BY DEF TimersInv
<1> QED BY <1>1, InitTimers, StepTimers, PTL DEF Spec

----------------------------------------------------------------------------
\* The traces.

\* What is inductive of a log whose screen has numbered n presses or captures:
\* its rows and its trace have different numbers, none of them to come.
Numbered(l, n) ==
    /\ l = [trace |-> l.trace, rows |-> l.rows]
    /\ l.trace = [id |-> l.trace.id, label |-> l.trace.label,
                  marks |-> l.trace.marks, seq |-> l.trace.seq]
    /\ l.trace.id \in 0..n
    /\ l.trace.id = 0 => l.trace = NoTrace
    /\ \A row \in l.rows : row.id \in 1..n /\ row.id # l.trace.id
    /\ \A r1, r2 \in l.rows : r1.id = r2.id => r1 = r2

TracesInv ==
    /\ presses \in Nat /\ Numbered(log, presses)
    /\ captures \in Nat /\ Numbered(ocrLog, captures)

----------------------------------------------------------------------------
\* What a handler does to its log: it stamps the trace, closes it, empties the
\* log, or starts the trace of the next number.
Stamps(l, k) ==
    \/ k = l
    \/ \E stage : k = Mark(l, stage) \/ k = MarkFirst(l, stage)
    \/ \E seq : k = MarkAck(l, seq)

Handles(l, k, n, m) ==
    \/ k = EmptyLog /\ m \in Nat
    \/ m \in {n, n + 1} /\ Stamps(l, k)
    \/ m = n /\ \E mid, error : Stamps(l, mid) /\ k = Closed(mid, error)
    \/ m = n + 1 /\ \E label : k = Started(l, m, label)

LEMMA NumberedLater ==
    ASSUME NEW l, NEW n \in Nat, Numbered(l, n)
    PROVE  Numbered(l, n + 1)
BY DEF Numbered

LEMMA EmptyIsNumbered ==
    ASSUME NEW n \in Nat
    PROVE  Numbered(EmptyLog, n) /\ EmptyLog.rows = {}
BY DEF Numbered, EmptyLog, NoTrace, Trace

\* Of a log only the marks and the subtitle of its trace change.
LEMMA StampKeepsNumbers ==
    ASSUME NEW l, NEW n \in Nat, Numbered(l, n), NEW marks, NEW seq, InProgress(l),
           NEW k, k.rows = l.rows,
           k = [trace |-> k.trace, rows |-> k.rows],
           k.trace = [id |-> l.trace.id, label |-> l.trace.label, marks |-> marks, seq |-> seq]
    PROVE  Numbered(k, n) /\ k.trace.id = l.trace.id
BY DEF Numbered, InProgress

LEMMA MarkStamps ==
    ASSUME NEW l, NEW n \in Nat, Numbered(l, n), NEW stage, InProgress(l)
    PROVE  \E marks : Mark(l, stage) =
              [trace |-> [id |-> l.trace.id, label |-> l.trace.label,
                          marks |-> marks, seq |-> l.trace.seq],
               rows |-> l.rows]
<1> DEFINE marks == [m \in DOMAIN l.trace.marks \cup {stage} |->
                        (IF m = stage THEN DOMAIN l.trace.marks ELSE l.trace.marks[m]) \ {stage}]
<1>1. Mark(l, stage) = [l EXCEPT !.trace.marks = marks]
  BY DEF Mark
<1> HIDE DEF marks
<1>2. [l EXCEPT !.trace.marks = marks] =
          [trace |-> [id |-> l.trace.id, label |-> l.trace.label,
                      marks |-> marks, seq |-> l.trace.seq],
           rows |-> l.rows]
  BY DEF Numbered
<1> QED BY <1>1, <1>2

LEMMA StampsKeepNumbers ==
    ASSUME NEW l, NEW n \in Nat, Numbered(l, n), NEW k, Stamps(l, k)
    PROVE  Numbered(k, n) /\ k.trace.id = l.trace.id /\ k.rows = l.rows
<1>1. ASSUME NEW stage
      PROVE  LET t == Mark(l, stage)
             IN Numbered(t, n) /\ t.trace.id = l.trace.id /\ t.rows = l.rows
  <2>1. CASE InProgress(l)
    <3>1. PICK marks : Mark(l, stage) =
              [trace |-> [id |-> l.trace.id, label |-> l.trace.label,
                          marks |-> marks, seq |-> l.trace.seq],
               rows |-> l.rows]
      BY <2>1, MarkStamps
    <3> QED BY <2>1, <3>1, StampKeepsNumbers
  <2> QED BY <2>1 DEF Mark
<1>2. ASSUME NEW stage
      PROVE  LET t == MarkFirst(l, stage)
             IN Numbered(t, n) /\ t.trace.id = l.trace.id /\ t.rows = l.rows
  BY <1>1 DEF MarkFirst
<1>3. ASSUME NEW seq
      PROVE  LET t == MarkAck(l, seq)
             IN Numbered(t, n) /\ t.trace.id = l.trace.id /\ t.rows = l.rows
  <2>1. CASE InProgress(l)
    <3>1. PICK marks : Mark(l, "ack") =
              [trace |-> [id |-> l.trace.id, label |-> l.trace.label,
                          marks |-> marks, seq |-> l.trace.seq],
               rows |-> l.rows]
      BY <2>1, MarkStamps
    <3>2. MarkAck(l, seq) =
              [trace |-> [id |-> l.trace.id, label |-> l.trace.label,
                          marks |-> marks, seq |-> seq],
               rows |-> l.rows]
      BY <2>1, <3>1 DEF MarkAck
    <3> QED BY <2>1, <3>2, StampKeepsNumbers
  <2> QED BY <2>1 DEF MarkAck
<1> QED BY <1>1, <1>2, <1>3 DEF Stamps

LEMMA ClosedKeepsNumbers ==
    ASSUME NEW l, NEW n \in Nat, Numbered(l, n), NEW error
    PROVE  LET k == Closed(l, error) IN
           /\ Numbered(k, n) /\ k.trace = NoTrace
           /\ InProgress(l) => \E row \in k.rows : row.id = l.trace.id
<1>1. CASE InProgress(l)
  <2> DEFINE last == [id |-> l.trace.id, label |-> l.trace.label,
                      marks |-> l.trace.marks, seq |-> l.trace.seq, error |-> error]
             k == [trace |-> NoTrace, rows |-> l.rows \cup {last}]
  <2>1. Closed(l, error) = k
    BY <1>1 DEF Closed
  <2>2. last.id = l.trace.id /\ l.trace.id \in 1..n
    BY <1>1 DEF Numbered, InProgress
  <2>3. \A row \in k.rows : row.id \in 1..n
    <3> HIDE DEF last
    <3> QED BY <2>2 DEF Numbered
  <2>4. \A r1, r2 \in k.rows : r1.id = r2.id => r1 = r2
    <3> HIDE DEF last
    <3> QED BY <2>2 DEF Numbered
  <2>5. NoTrace.id = 0 /\ k.trace = NoTrace /\ k = [trace |-> k.trace, rows |-> k.rows]
        /\ NoTrace = [id |-> NoTrace.id, label |-> NoTrace.label,
                      marks |-> NoTrace.marks, seq |-> NoTrace.seq]
    BY DEF NoTrace, Trace
  <2>6. last \in k.rows
    OBVIOUS
  <2>7. Numbered(k, n)
    <3> HIDE DEF k
    <3> QED BY <2>3, <2>4, <2>5 DEF Numbered
  <2> HIDE DEF k, last
  <2> QED BY <2>1, <2>2, <2>5, <2>6, <2>7
<1>2. CASE ~InProgress(l)
  BY <1>2 DEF Closed, InProgress
<1> QED BY <1>1, <1>2

LEMMA StartedKeepsNumbers ==
    ASSUME NEW l, NEW n \in Nat, Numbered(l, n), NEW label
    PROVE  LET k == Started(l, n + 1, label) IN
           /\ Numbered(k, n + 1)
           /\ InProgress(l) => \E row \in k.rows : row.id = l.trace.id
<1> DEFINE mid == Closed(l, "discarded")
           t == [id |-> n + 1, label |-> label, marks |-> <<>>, seq |-> 0]
           k == [trace |-> t, rows |-> mid.rows]
<1>1. /\ Numbered(mid, n)
      /\ InProgress(l) => \E row \in mid.rows : row.id = l.trace.id
  BY ClosedKeepsNumbers
<1>2. Started(l, n + 1, label) = k
  <2>1. Started(l, n + 1, label) = [mid EXCEPT !.trace = t]
    BY DEF Started, Trace
  <2>2. mid = [trace |-> mid.trace, rows |-> mid.rows]
    BY <1>1 DEF Numbered
  <2> HIDE DEF mid, t
  <2> QED BY <2>1, <2>2
<1>3. Numbered(k, n + 1)
  <2> HIDE DEF mid
  <2> QED BY <1>1 DEF Numbered
<1> HIDE DEF mid, t
<1> QED BY <1>1, <1>2, <1>3

\* Whatever a handler does to its log keeps its numbers and its traces.
LEMMA HandlesKeeps ==
    ASSUME NEW l, NEW k, NEW n \in Nat, NEW m, Numbered(l, n), Handles(l, k, n, m)
    PROVE  m \in Nat /\ Numbered(k, m) /\ KeepsTraces(l, k)
<1>1. CASE k = EmptyLog /\ m \in Nat
  BY <1>1, EmptyIsNumbered DEF KeepsTraces
<1>2. CASE m \in {n, n + 1} /\ Stamps(l, k)
  <2>1. Numbered(k, n) /\ k.trace.id = l.trace.id
    BY <1>2, StampsKeepNumbers
  <2>2. m \in Nat /\ Numbered(k, m)
    BY <1>2, <2>1, NumberedLater
  <2> QED BY <2>1, <2>2 DEF KeepsTraces, Numbered
<1>3. ASSUME NEW mid, NEW error, m = n, Stamps(l, mid), k = Closed(mid, error)
      PROVE  m \in Nat /\ Numbered(k, m) /\ KeepsTraces(l, k)
  <2>1. Numbered(mid, n) /\ mid.trace.id = l.trace.id
    BY <1>3, StampsKeepNumbers
  <2>2. Numbered(k, n) /\ (InProgress(mid) => \E row \in k.rows : row.id = l.trace.id)
    BY <1>3, <2>1, ClosedKeepsNumbers
  <2>3. InProgress(l) => InProgress(mid)
    BY <2>1 DEF Numbered, InProgress, NoTrace, Trace
  <2> QED BY <1>3, <2>2, <2>3 DEF KeepsTraces, Numbered
<1>4. ASSUME NEW label, m = n + 1, k = Started(l, m, label)
      PROVE  m \in Nat /\ Numbered(k, m) /\ KeepsTraces(l, k)
  <2>1. Numbered(k, m) /\ (InProgress(l) => \E row \in k.rows : row.id = l.trace.id)
    BY <1>4, StartedKeepsNumbers
  <2> QED BY <1>4, <2>1 DEF KeepsTraces, Numbered
<1> QED BY <1>1, <1>2, <1>3, <1>4 DEF Handles

----------------------------------------------------------------------------
\* The steps of the translate screen.
LEMMA StepHandles ==
    ASSUME presses \in Nat, [Next]_vars
    PROVE  Handles(log, log', presses, presses')
<1>0. ASSUME Stamps(log, log'), presses' \in {presses, presses + 1}
      PROVE  Handles(log, log', presses, presses')
  BY <1>0 DEF Handles
<1>1. ASSUME NEW mid, NEW error, Stamps(log, mid), log' = Closed(mid, error), presses' = presses
      PROVE  Handles(log, log', presses, presses')
  BY <1>1 DEF Handles
<1>2. ASSUME NEW error, log' = Closed(log, error), presses' = presses
      PROVE  Handles(log, log', presses, presses')
  BY <1>1, <1>2 DEF Stamps
<1>3. ASSUME NEW stage, log' = Mark(log, stage), presses' = presses
      PROVE  Handles(log, log', presses, presses')
  BY <1>0, <1>3 DEF Stamps
<1>4. ASSUME NEW stage, log' = MarkFirst(log, stage), presses' = presses
      PROVE  Handles(log, log', presses, presses')
  BY <1>0, <1>4 DEF Stamps
<1>5. ASSUME log' = log, presses' \in {presses, presses + 1}
      PROVE  Handles(log, log', presses, presses')
  BY <1>0, <1>5 DEF Stamps
<1>6. CASE UNCHANGED vars
  BY <1>5, <1>6 DEF vars
<1>7. CASE RunAdvances \/ RunTimesOut
  BY <1>2, <1>5, <1>7 DEF RunAdvances, RunTimesOut
<1>8. CASE PressDown
  <2>1. CASE log' = log
    BY <1>5, <1>8, <2>1 DEF PressDown
  <2>2. CASE log' = Started(log, presses', CurrentPhrase)
    BY <1>8, <2>2 DEF PressDown, Handles
  <2> QED BY <1>8, <2>1, <2>2 DEF PressDown
<1>9. CASE PressUp
  BY <1>2, <1>3, <1>5, <1>9 DEF PressUp, ShortPress, Release
<1>10. CASE EndUtterance \/ TeardownEnds \/ CooldownElapses
  BY <1>5, <1>10 DEF EndUtterance, TeardownEnds, CooldownElapses
<1>11. CASE PartialText
  BY <1>4, <1>11 DEF PartialText
<1>12. CASE FinalText
  BY <1>1, <1>3, <1>12 DEF FinalText, WithoutGlasses, Stamps
<1>13. CASE WsError
  BY <1>2, <1>13 DEF WsError, Ends
<1>14. ASSUME NEW seq \in acks, BleAck(seq) PROVE Handles(log, log', presses, presses')
  <2>1. Stamps(log, MarkAck(log, seq))
    BY DEF Stamps
  <2> QED BY <1>1, <1>5, <1>14, <2>1 DEF BleAck
<1>15. ASSUME NEW c \in chains, Chain(c) PROVE Handles(log, log', presses, presses')
  BY <1>2, <1>3, <1>5, <1>15 DEF Chain, PressIsOver, Connected, RecorderStarted, StartFails, Ends
<1>16. CASE StartRun \/ ClearRows
  BY <1>16 DEF StartRun, ClearRows, Handles
<1> QED BY <1>6, <1>7, <1>8, <1>9, <1>10, <1>11, <1>12, <1>13, <1>14, <1>15, <1>16
           DEF Next, Run, Button, Answers

\* The OCR screen uses the same logger.
LEMMA SameTraces ==
    /\ Ocr!NoTrace = NoTrace /\ Ocr!EmptyLog = EmptyLog
    /\ \A l : Ocr!InProgress(l) <=> InProgress(l)
BY DEF Ocr!NoTrace, NoTrace, Ocr!Trace, Trace, Ocr!EmptyLog, EmptyLog,
       Ocr!InProgress, InProgress

LEMMA SameClosed ==
    ASSUME NEW l, NEW error
    PROVE  Ocr!Closed(l, error) = Closed(l, error)
BY SameTraces DEF Ocr!Closed, Closed

LEMMA SameMark ==
    ASSUME NEW l, NEW stage
    PROVE  Ocr!Mark(l, stage) = Mark(l, stage)
BY SameTraces DEF Ocr!Mark, Mark

LEMMA SameMarkAck ==
    ASSUME NEW l, NEW seq
    PROVE  Ocr!MarkAck(l, seq) = MarkAck(l, seq)
BY SameTraces, SameMark DEF Ocr!MarkAck, MarkAck

LEMMA SameStarted ==
    ASSUME NEW l, NEW id, NEW label
    PROVE  Ocr!Started(l, id, label) = Started(l, id, label)
BY SameClosed DEF Ocr!Started, Started, Ocr!Trace, Trace

\* The steps of the OCR screen.
LEMMA OcrStepHandles ==
    ASSUME captures \in Nat, Ocr!Next
    PROVE  Handles(ocrLog, ocrLog', captures, captures')
<1>0. ASSUME Stamps(ocrLog, ocrLog'), captures' = captures
      PROVE  Handles(ocrLog, ocrLog', captures, captures')
  BY <1>0 DEF Handles
<1>1. ASSUME NEW mid, NEW error, Stamps(ocrLog, mid), ocrLog' = Closed(mid, error),
             captures' = captures
      PROVE  Handles(ocrLog, ocrLog', captures, captures')
  BY <1>1 DEF Handles
<1>2. ASSUME NEW stage, NEW error, captures' = captures,
             \/ ocrLog' \in {ocrLog, Mark(ocrLog, stage)}
             \/ ocrLog' \in {Closed(ocrLog, error), Closed(Mark(ocrLog, stage), error)}
      PROVE  Handles(ocrLog, ocrLog', captures, captures')
  <2>1. Stamps(ocrLog, ocrLog) /\ Stamps(ocrLog, Mark(ocrLog, stage))
    BY DEF Stamps
  <2> QED BY <1>0, <1>1, <1>2, <2>1
<1>3. CASE Ocr!OpenScreen
  BY <1>2, <1>3 DEF Ocr!OpenScreen
<1>4. CASE Ocr!CloseScreen
  BY <1>4, SameTraces DEF Ocr!CloseScreen, Handles
<1>5. CASE Ocr!Capture
  BY <1>5, SameStarted DEF Ocr!Capture, Handles
<1>6. CASE Ocr!Recognised
  BY <1>2, <1>6, SameClosed, SameMark DEF Ocr!Recognised, Ocr!Aborts
<1>7. CASE Ocr!Translated
  BY <1>2, <1>7, SameClosed, SameMark DEF Ocr!Translated, Ocr!Aborts
<1>8. CASE Ocr!Sent
  BY <1>2, <1>8, SameClosed, SameMark DEF Ocr!Sent, Ocr!Aborts
<1>9. ASSUME NEW seq \in ocrAcks, Ocr!BleAck(seq)
      PROVE  Handles(ocrLog, ocrLog', captures, captures')
  <2>1. Stamps(ocrLog, MarkAck(ocrLog, seq))
    BY DEF Stamps
  <2> QED BY <1>1, <1>2, <1>9, <2>1, SameClosed, SameMarkAck, SameTraces DEF Ocr!BleAck
<1> QED BY <1>3, <1>4, <1>5, <1>6, <1>7, <1>8, <1>9 DEF Ocr!Next

LEMMA PhoneInitNumbers == PhoneInit => TracesInv
BY EmptyIsNumbered, SameTraces DEF PhoneInit, Init, Ocr!Init, TracesInv

LEMMA UnchangedKeeps ==
    ASSUME NEW l, NEW n \in Nat, Numbered(l, n)
    PROVE  KeepsTraces(l, l)
BY DEF KeepsTraces, Numbered

LEMMA PhoneStepKeeps ==
    ASSUME TracesInv, [PhoneNext]_allVars
    PROVE  TracesInv' /\ KeepsTraces(log, log') /\ KeepsTraces(ocrLog, ocrLog')
<1>1. CASE [Next]_vars /\ UNCHANGED ocrVars
  <2>1. presses' \in Nat /\ Numbered(log', presses') /\ KeepsTraces(log, log')
    <3>1. Handles(log, log', presses, presses')
      BY <1>1, StepHandles DEF TracesInv
    <3> QED BY <3>1, HandlesKeeps DEF TracesInv
  <2>2. captures' = captures /\ ocrLog' = ocrLog
    BY <1>1 DEF ocrVars
  <2> QED BY <2>1, <2>2, UnchangedKeeps DEF TracesInv
<1>2. CASE Ocr!Next /\ UNCHANGED vars
  <2>1. captures' \in Nat /\ Numbered(ocrLog', captures') /\ KeepsTraces(ocrLog, ocrLog')
    <3>1. Handles(ocrLog, ocrLog', captures, captures')
      BY <1>2, OcrStepHandles DEF TracesInv
    <3> QED BY <3>1, HandlesKeeps DEF TracesInv
  <2>2. presses' = presses /\ log' = log
    BY <1>2 DEF vars
  <2> QED BY <2>1, <2>2, UnchangedKeeps DEF TracesInv
<1> QED BY <1>1, <1>2 DEF PhoneNext, allVars

\* "so no data is lost" (latency_logger.dart:481 and 652): however presses,
\* captures, timeouts and acks overtake each other, a trace that is left behind
\* has become a row, and none has become two, for any number of presses,
\* captures and phrases.
THEOREM TracesAreKept == PhoneSpec => NoTraceIsLost
<1>1. TracesInv /\ [PhoneNext]_allVars => TracesInv'
  BY PhoneStepKeeps
<1>2. TracesInv /\ [PhoneNext]_allVars =>
          [KeepsTraces(log, log') /\ KeepsTraces(ocrLog, ocrLog')]_allVars
  BY PhoneStepKeeps
<1> QED BY <1>1, <1>2, PhoneInitNumbers, PTL DEF PhoneSpec, NoTraceIsLost

----------------------------------------------------------------------------
\* Acks.  What is inductive of a log: rows and trace are numbered, sent[q] is a
\* number that has been given, no ack but its own has finalised the trace of
\* subtitle q, and the trace that is active has what must come before the ack
\* once its subtitle has been sent.
OwnAcks(l, sub, n, before) ==
    /\ Numbered(l, n)
    /\ sub \in Seq(0..n)
    /\ FinalisedByOwnAck(l, sub, before)
    /\ InProgress(l) => \A q \in DOMAIN sub :
          sub[q] = l.trace.id => before \subseteq Stages(l.trace)

BeforeSpoken == {"opened", "final"}
BeforeSeen == {"recognised", "translated"}

\* The socket is listened to by a press that has stamped session.opened on
\* whatever trace there was, and no trace starts while it is; a capture is
\* translated after it was recognised.
SocketOpened ==
    /\ ptt = "idle" => socket = 0
    /\ socket # 0 /\ InProgress(log) => "opened" \in Stages(log.trace)

CaptureRecognised ==
    ocrStage = "translating" /\ InProgress(ocrLog) => "recognised" \in Stages(ocrLog.trace)

AcksInv ==
    /\ presses \in Nat /\ OwnAcks(log, sent, presses, BeforeSpoken) /\ SocketOpened
    /\ captures \in Nat /\ OwnAcks(ocrLog, ocrSent, captures, BeforeSeen) /\ CaptureRecognised

LEMMA InProgressById ==
    ASSUME NEW l, NEW n, Numbered(l, n)
    PROVE  InProgress(l) <=> l.trace.id # 0
BY DEF Numbered, InProgress, NoTrace, Trace

\* A stamp is later than all others.
LEMMA MarkTimes ==
    ASSUME NEW l, NEW n \in Nat, Numbered(l, n), NEW stage, InProgress(l)
    PROVE  LET k == Mark(l, stage) IN
           /\ Stages(k.trace) = Stages(l.trace) \cup {stage}
           /\ k.trace.marks[stage] = Stages(l.trace) \ {stage}
<1> DEFINE marks == [m \in DOMAIN l.trace.marks \cup {stage} |->
                        (IF m = stage THEN DOMAIN l.trace.marks ELSE l.trace.marks[m]) \ {stage}]
<1>1. Mark(l, stage) = [l EXCEPT !.trace.marks = marks]
  BY DEF Mark
<1>2. DOMAIN marks = DOMAIN l.trace.marks \cup {stage} /\ marks[stage] = DOMAIN l.trace.marks \ {stage}
  OBVIOUS
<1>3. Mark(l, stage).trace.marks = marks
  <2> HIDE DEF marks
  <2> QED BY <1>1 DEF Numbered
<1> HIDE DEF marks
<1> QED BY <1>2, <1>3 DEF Stages

\* No stamp takes another away.
LEMMA StampsTimes ==
    ASSUME NEW l, NEW n \in Nat, Numbered(l, n), NEW k, Stamps(l, k)
    PROVE  Stages(l.trace) \subseteq Stages(k.trace)
<1>1. ASSUME NEW stage PROVE Stages(l.trace) \subseteq Stages(Mark(l, stage).trace)
  <2>1. CASE InProgress(l)
    BY <2>1, MarkTimes
  <2>2. CASE ~InProgress(l)
    BY <2>2 DEF Mark
  <2> QED BY <2>1, <2>2
<1>2. ASSUME NEW stage PROVE Stages(l.trace) \subseteq Stages(MarkFirst(l, stage).trace)
  BY <1>1 DEF MarkFirst
<1>3. ASSUME NEW seq PROVE Stages(l.trace) \subseteq Stages(MarkAck(l, seq).trace)
  <2>1. CASE InProgress(l)
    <3>1. PICK marks : Mark(l, "ack") =
              [trace |-> [id |-> l.trace.id, label |-> l.trace.label,
                          marks |-> marks, seq |-> l.trace.seq],
               rows |-> l.rows]
      BY <2>1, MarkStamps
    <3>2. MarkAck(l, seq).trace.marks = Mark(l, "ack").trace.marks
      BY <2>1, <3>1 DEF MarkAck
    <3> QED BY <3>2, <1>1 DEF Stages
  <2> QED BY <2>1 DEF MarkAck
<1> QED BY <1>1, <1>2, <1>3 DEF Stamps

LEMMA OwnAcksLater ==
    ASSUME NEW l, NEW sub, NEW before, NEW n \in Nat, OwnAcks(l, sub, n, before)
    PROVE  OwnAcks(l, sub, n + 1, before)
<1>1. sub \in Seq(0..(n + 1))
  <2>1. sub \in Seq(0..n) /\ 0..n \subseteq 0..(n + 1)
    BY DEF OwnAcks
  <2> QED BY <2>1
<1> QED BY <1>1, NumberedLater DEF OwnAcks

\* A log that was emptied.
LEMMA EmptyOwnAcks ==
    ASSUME NEW sub, NEW before, NEW n \in Nat, sub \in Seq(0..n)
    PROVE  OwnAcks(EmptyLog, sub, n, before)
<1>1. Numbered(EmptyLog, n) /\ EmptyLog.rows = {}
  BY EmptyIsNumbered
<1>2. ~InProgress(EmptyLog)
  BY DEF EmptyLog, InProgress
<1> QED BY <1>1, <1>2 DEF OwnAcks, FinalisedByOwnAck

LEMMA StampsOwnAcks ==
    ASSUME NEW l, NEW sub, NEW before, NEW n \in Nat, OwnAcks(l, sub, n, before),
           NEW k, Stamps(l, k)
    PROVE  OwnAcks(k, sub, n, before)
<1>1. Numbered(l, n)
  BY DEF OwnAcks
<1>2. Numbered(k, n) /\ k.trace.id = l.trace.id /\ k.rows = l.rows
  BY <1>1, StampsKeepNumbers
<1>3. Stages(l.trace) \subseteq Stages(k.trace) /\ (InProgress(k) <=> InProgress(l))
  BY <1>1, <1>2, StampsTimes, InProgressById
<1> QED BY <1>2, <1>3 DEF OwnAcks, FinalisedByOwnAck

\* What becomes of a trace that is closed.
LEMMA ClosedRows ==
    ASSUME NEW l, NEW error
    PROVE  LET k == Closed(l, error) IN
           /\ \A row \in k.rows : \/ row \in l.rows
                                  \/ /\ InProgress(l)
                                     /\ row.id = l.trace.id /\ row.error = error
                                     /\ row.marks = l.trace.marks /\ row.seq = l.trace.seq
           /\ ~InProgress(k)
BY DEF Closed, InProgress

LEMMA ClosedOwnAcks ==
    ASSUME NEW l, NEW sub, NEW before, NEW n \in Nat, OwnAcks(l, sub, n, before),
           NEW error,
           \/ error # Clean
           \/ InProgress(l) => /\ l.trace.seq = Len(sub)
                               /\ "ack" \in Stages(l.trace)
                               /\ Stages(l.trace) \ {"ack"} \subseteq l.trace.marks["ack"]
    PROVE  OwnAcks(Closed(l, error), sub, n, before \ {"ack"})
<1> DEFINE k == Closed(l, error)
<1>1. Numbered(k, n) /\ ~InProgress(k)
  BY ClosedKeepsNumbers, ClosedRows DEF OwnAcks
<1>2. FinalisedByOwnAck(k, sub, before \ {"ack"})
  <2> SUFFICES ASSUME NEW row \in k.rows, NEW q \in DOMAIN sub,
                      row.error = Clean, sub[q] = row.id
               PROVE  row.seq >= q /\ "ack" \in Stages(row) /\ before \ {"ack"} \subseteq row.marks["ack"]
    BY DEF FinalisedByOwnAck
  <2>1. CASE row \in l.rows
    BY <2>1 DEF OwnAcks, FinalisedByOwnAck
  <2>2. CASE row \notin l.rows
    <3>1. /\ InProgress(l) /\ row.id = l.trace.id /\ row.error = error
          /\ row.marks = l.trace.marks /\ row.seq = l.trace.seq
      BY <2>2, ClosedRows
    <3>2. before \subseteq Stages(l.trace)
      BY <3>1 DEF OwnAcks
    <3>3. q \in 1..Len(sub)
      BY DEF OwnAcks
    <3>4. row.seq = Len(sub) /\ Len(sub) \in Nat /\ Stages(row) = Stages(l.trace)
      BY <3>1 DEF OwnAcks, Stages
    <3> QED BY <3>1, <3>2, <3>3, <3>4
  <2> QED BY <2>1, <2>2
<1> HIDE DEF k
<1> QED BY <1>1, <1>2 DEF OwnAcks, k

\* A handler closes the trace with an error.
LEMMA FailedOwnAcks ==
    ASSUME NEW l, NEW sub, NEW before, NEW n \in Nat, OwnAcks(l, sub, n, before),
           "ack" \notin before, NEW error, error # Clean
    PROVE  OwnAcks(Closed(l, error), sub, n, before)
<1>1. before \ {"ack"} = before
  OBVIOUS
<1> QED BY <1>1, ClosedOwnAcks

\* The ack of the last subtitle stamps the trace and closes it.
LEMMA AckedOwnAcks ==
    ASSUME NEW l, NEW sub, NEW before, NEW n \in Nat, OwnAcks(l, sub, n, before),
           "ack" \notin before
    PROVE  OwnAcks(Closed(MarkAck(l, Len(sub)), Clean), sub, n, before)
<1> DEFINE k == MarkAck(l, Len(sub))
<1>1. Numbered(l, n) /\ Stamps(l, k)
  BY DEF OwnAcks, Stamps
<1>2. OwnAcks(k, sub, n, before)
  BY <1>1, StampsOwnAcks
<1>3. InProgress(k) <=> InProgress(l)
  BY <1>1, <1>2, StampsKeepNumbers, InProgressById DEF OwnAcks
<1>4. ASSUME InProgress(l)
      PROVE  /\ k.trace.seq = Len(sub) /\ "ack" \in Stages(k.trace)
             /\ Stages(k.trace) \ {"ack"} \subseteq k.trace.marks["ack"]
  <2> DEFINE m == Mark(l, "ack")
  <2>1. PICK marks : m = [trace |-> [id |-> l.trace.id, label |-> l.trace.label,
                                     marks |-> marks, seq |-> l.trace.seq],
                          rows |-> l.rows]
    BY <1>1, <1>4, MarkStamps
  <2>2. k.trace.seq = Len(sub) /\ k.trace.marks = m.trace.marks
    <3>1. k = [m EXCEPT !.trace.seq = Len(sub)]
      BY <1>4 DEF MarkAck
    <3> HIDE DEF m, k
    <3> QED BY <3>1, <2>1
  <2>3. Stages(m.trace) = Stages(l.trace) \cup {"ack"} /\ m.trace.marks["ack"] = Stages(l.trace) \ {"ack"}
    BY <1>1, <1>4, MarkTimes
  <2> HIDE DEF m, k
  <2> QED BY <2>2, <2>3 DEF Stages
<1>5. before \ {"ack"} = before
  OBVIOUS
<1> HIDE DEF k
<1>6. OwnAcks(Closed(k, Clean), sub, n, before \ {"ack"})
  BY <1>2, <1>3, <1>4, ClosedOwnAcks
<1> QED BY <1>5, <1>6 DEF k

\* A new trace has a number no subtitle was sent for.
LEMMA StartedOwnAcks ==
    ASSUME NEW l, NEW sub, NEW before, NEW n \in Nat, OwnAcks(l, sub, n, before),
           "ack" \notin before, NEW label
    PROVE  OwnAcks(Started(l, n + 1, label), sub, n + 1, before)
<1> DEFINE mid == Closed(l, "discarded")
           k == Started(l, n + 1, label)
<1>1. OwnAcks(mid, sub, n, before)
  BY FailedOwnAcks DEF Clean
<1>2. Numbered(k, n + 1)
  BY StartedKeepsNumbers DEF OwnAcks
<1>3. k.rows = mid.rows /\ k.trace.id = n + 1
  <2>1. mid = [trace |-> mid.trace, rows |-> mid.rows]
    BY <1>1 DEF OwnAcks, Numbered
  <2>2. k = [mid EXCEPT !.trace = Trace(n + 1, label)]
    BY DEF Started
  <2> HIDE DEF mid, k
  <2> QED BY <2>1, <2>2 DEF Trace
<1>4. OwnAcks(mid, sub, n + 1, before)
  BY <1>1, OwnAcksLater
<1>5. \A q \in DOMAIN sub : sub[q] \in 0..n
  BY DEF OwnAcks
<1>6. \A q \in DOMAIN sub : sub[q] # n + 1
  BY <1>5
<1>7. FinalisedByOwnAck(k, sub, before)
  <2> HIDE DEF mid, k
  <2> QED BY <1>3, <1>4 DEF OwnAcks, FinalisedByOwnAck
<1> HIDE DEF k
<1> QED BY <1>2, <1>3, <1>4, <1>6, <1>7 DEF OwnAcks, k

\* A subtitle is sent for a trace that gets its last stamp before the ack.
LEMMA SentOwnAcks ==
    ASSUME NEW l, NEW sub, NEW before, NEW n \in Nat, OwnAcks(l, sub, n, before), NEW stage,
           InProgress(l) => before \subseteq Stages(l.trace) \cup {stage}
    PROVE  OwnAcks(Mark(l, stage), Append(sub, l.trace.id), n, before)
<1> DEFINE k == Mark(l, stage)
           more == Append(sub, l.trace.id)
<1>1. Numbered(l, n) /\ Stamps(l, k)
  BY DEF OwnAcks, Stamps
<1>2. OwnAcks(k, sub, n, before)
  BY <1>1, StampsOwnAcks
<1>3. k.trace.id = l.trace.id /\ k.rows = l.rows /\ (InProgress(k) <=> InProgress(l))
  BY <1>1, <1>2, StampsKeepNumbers, InProgressById DEF OwnAcks
<1>4. InProgress(l) => before \subseteq Stages(k.trace)
  BY <1>1, MarkTimes
<1>5. /\ more \in Seq(0..n)
      /\ \A q \in DOMAIN more : (q \in DOMAIN sub /\ more[q] = sub[q]) \/ more[q] = l.trace.id
  <2>1. sub \in Seq(0..n) /\ l.trace.id \in 0..n
    BY DEF OwnAcks, Numbered
  <2> QED BY <2>1
<1> HIDE DEF k, more
<1>6. FinalisedByOwnAck(k, more, before)
  <2>1. \A row \in k.rows : row.id # l.trace.id
    BY <1>1, <1>3 DEF Numbered
  <2> QED BY <1>2, <1>5, <2>1 DEF OwnAcks, FinalisedByOwnAck
<1> QED BY <1>2, <1>3, <1>4, <1>5, <1>6 DEF OwnAcks, k, more

\* The steps of the translate screen.
LEMMA StepSocketOpened ==
    ASSUME presses \in Nat, Numbered(log, presses), SocketOpened, [Next]_vars
    PROVE  SocketOpened'
<1>1. ASSUME Stamps(log, log'), socket' = socket, ptt' = ptt \/ ptt' # "idle"
      PROVE  SocketOpened'
  <2>1. log'.trace.id = log.trace.id /\ Numbered(log', presses)
    BY <1>1, StampsKeepNumbers
  <2>2. InProgress(log') <=> InProgress(log)
    BY <2>1, InProgressById
  <2>3. Stages(log.trace) \subseteq Stages(log'.trace)
    BY <1>1, StampsTimes
  <2>4. (InProgress(log))' <=> InProgress(log')
    BY DEF InProgress
  <2>5. (Stages(log.trace))' = Stages(log'.trace)
    BY DEF Stages
  <2> QED BY <1>1, <2>2, <2>3, <2>4, <2>5 DEF SocketOpened
<1>2. ASSUME NEW l, NEW error, log' = Closed(l, error), socket' \in {socket, 0},
             ptt' = ptt \/ ptt' # "idle"
      PROVE  SocketOpened'
  BY <1>2, ClosedRows DEF SocketOpened, InProgress
<1>3. ASSUME socket' = 0 PROVE SocketOpened'
  BY <1>3 DEF SocketOpened
<1>4. \A stage : Stamps(log, Mark(log, stage)) /\ Stamps(log, MarkFirst(log, stage))
  BY DEF Stamps
<1>5. Stamps(log, log)
  BY DEF Stamps
<1>6. CASE UNCHANGED vars
  BY <1>1, <1>5, <1>6 DEF vars, pttVars
<1>7. CASE StartRun \/ ClearRows
  BY <1>7 DEF StartRun, ClearRows, pttVars, SocketOpened, InProgress, EmptyLog
<1>8. CASE RunAdvances
  BY <1>1, <1>5, <1>8 DEF RunAdvances, pttVars
<1>9. CASE RunTimesOut
  BY <1>2, <1>9 DEF RunTimesOut
<1>10. CASE PressDown
  <2>1. CASE ptt # "idle" \/ cooldown
    BY <1>1, <1>5, <1>10, <2>1 DEF PressDown
  <2>2. CASE ptt = "idle" /\ ~cooldown
    BY <1>3, <1>10, <2>2 DEF PressDown, SocketOpened
  <2> QED BY <2>1, <2>2
<1>11. CASE PressUp
  <2>1. CASE ptt = "idle" /\ UNCHANGED <<ptt, tearing, releasing, log, run>>
    BY <1>1, <1>5, <1>11, <2>1 DEF PressUp
  <2>2. CASE ShortPress
    BY <1>2, <1>11, <2>2 DEF PressUp, ShortPress
  <2>3. CASE Release
    <3>1. log' = Mark(log, "released") /\ socket' = socket /\ ptt # "idle"
      BY <1>11, <2>3 DEF PressUp, Release
    <3>2. ptt' \in {"aborting", "ending", ptt}
      BY <2>3 DEF Release
    <3> QED BY <1>1, <1>4, <3>1, <3>2
  <2> QED BY <1>11, <2>1, <2>2, <2>3 DEF PressUp
<1>12. CASE EndUtterance \/ CooldownElapses
  BY <1>1, <1>5, <1>12 DEF EndUtterance, CooldownElapses
<1>13. CASE TeardownEnds
  BY <1>3, <1>13 DEF TeardownEnds
<1>14. CASE PartialText
  BY <1>1, <1>4, <1>14 DEF PartialText, pttVars
<1>15. CASE FinalText \/ WsError
  BY <1>3, <1>15 DEF FinalText, WsError
<1>16. ASSUME NEW seq \in acks, BleAck(seq) PROVE SocketOpened'
  BY <1>1, <1>2, <1>5, <1>16 DEF BleAck, pttVars
<1>17. ASSUME NEW c \in chains, Chain(c) PROVE SocketOpened'
  <2>1. CASE PressIsOver(c)
    BY <1>1, <1>5, <2>1 DEF PressIsOver
  <2>2. CASE Connected(c)
    <3>1. CASE ptt # "starting"
      BY <1>1, <1>4, <2>2, <3>1 DEF Connected
    <3>2. CASE ptt = "starting"
      <4>1. ptt' = "starting" /\ log' = Mark(log, "opened")
        BY <2>2, <3>2 DEF Connected
      <4>2. InProgress(log) => "opened" \in Stages(log'.trace)
        BY <4>1, MarkTimes
      <4>3. InProgress(log') <=> InProgress(log)
        <5>1. log'.trace.id = log.trace.id /\ Numbered(log', presses)
          BY <1>4, <4>1, StampsKeepNumbers
        <5> QED BY <5>1, InProgressById
      <4> QED BY <4>1, <4>2, <4>3 DEF SocketOpened, InProgress, Stages
    <3> QED BY <3>1, <3>2
  <2>3. CASE RecorderStarted(c)
    <3>1. log' = log /\ (socket' = 0 \/ (socket' = socket /\ ptt' # "idle"))
      BY <2>3 DEF RecorderStarted
    <3> QED BY <1>1, <1>3, <1>5, <3>1
  <2>4. CASE StartFails(c)
    BY <1>2, <2>4 DEF StartFails, Ends
  <2> QED BY <1>17, <2>1, <2>2, <2>3, <2>4 DEF Chain
<1> QED BY <1>6, <1>7, <1>8, <1>9, <1>10, <1>11, <1>12, <1>13, <1>14, <1>15, <1>16, <1>17
           DEF Next, Run, Button, Answers

LEMMA StepOwnAcks ==
    ASSUME presses \in Nat, OwnAcks(log, sent, presses, BeforeSpoken), SocketOpened, [Next]_vars
    PROVE  presses' \in Nat /\ OwnAcks(log', sent', presses', BeforeSpoken)
<1>0. "ack" \notin BeforeSpoken /\ sent \in Seq(0..presses) /\ Numbered(log, presses)
  BY DEF BeforeSpoken, OwnAcks
<1>1. ASSUME NEW k, Stamps(log, k), log' = k, sent' = sent, presses' \in {presses, presses + 1}
      PROVE  presses' \in Nat /\ OwnAcks(log', sent', presses', BeforeSpoken)
  <2>1. OwnAcks(k, sent, presses, BeforeSpoken)
    BY <1>1, StampsOwnAcks
  <2> QED BY <1>1, <2>1, OwnAcksLater
<1>2. ASSUME NEW mid, NEW error, Stamps(log, mid), error # Clean, log' = Closed(mid, error),
             sent' = sent, presses' = presses
      PROVE  presses' \in Nat /\ OwnAcks(log', sent', presses', BeforeSpoken)
  <2>1. OwnAcks(mid, sent, presses, BeforeSpoken)
    BY <1>2, StampsOwnAcks
  <2> QED BY <1>0, <1>2, <2>1, FailedOwnAcks
<1>3. \A stage : Stamps(log, Mark(log, stage)) /\ Stamps(log, MarkFirst(log, stage))
  BY DEF Stamps
<1>4. Stamps(log, log)
  BY DEF Stamps
<1>5. CASE UNCHANGED vars
  BY <1>1, <1>4, <1>5 DEF vars
<1>6. CASE StartRun \/ ClearRows
  <2>1. log' = EmptyLog /\ sent' = sent /\ presses' = presses
    BY <1>6 DEF StartRun, ClearRows
  <2> QED BY <1>0, <2>1, EmptyOwnAcks
<1>7. CASE RunAdvances \/ EndUtterance \/ TeardownEnds \/ CooldownElapses
  BY <1>1, <1>4, <1>7 DEF RunAdvances, EndUtterance, TeardownEnds, CooldownElapses
<1>8. CASE RunTimesOut
  BY <1>2, <1>4, <1>8 DEF RunTimesOut, Clean
<1>9. CASE PressDown
  <2>1. CASE log' = log
    BY <1>1, <1>4, <1>9, <2>1 DEF PressDown
  <2>2. CASE log' = Started(log, presses', CurrentPhrase)
    <3>1. presses' = presses + 1 /\ sent' = sent
      BY <1>9 DEF PressDown
    <3> QED BY <1>0, <2>2, <3>1, StartedOwnAcks
  <2> QED BY <1>9, <2>1, <2>2 DEF PressDown
<1>10. CASE PressUp
  <2>1. sent' = sent /\ presses' = presses
    BY <1>10 DEF PressUp
  <2>2. CASE ShortPress
    BY <1>2, <1>4, <2>1, <2>2 DEF ShortPress, Clean
  <2>3. CASE Release
    BY <1>1, <1>3, <2>1, <2>3 DEF Release
  <2>4. CASE log' = log
    BY <1>1, <1>4, <2>1, <2>4
  <2> QED BY <1>10, <2>2, <2>3, <2>4 DEF PressUp
<1>11. CASE PartialText
  BY <1>1, <1>3, <1>11 DEF PartialText
<1>12. CASE FinalText
  <2>1. presses' = presses /\ socket # 0
    BY <1>12 DEF FinalText
  <2>2. CASE SendToBle /\ log' = Mark(log, "final")
    <3>1. InProgress(log) => BeforeSpoken \subseteq Stages(log.trace) \cup {"final"}
      BY <2>1 DEF SocketOpened, BeforeSpoken
    <3>2. OwnAcks(Mark(log, "final"), Append(sent, log.trace.id), presses, BeforeSpoken)
      BY <3>1, SentOwnAcks
    <3> QED BY <2>1, <2>2, <3>2 DEF SendToBle
  <2>3. CASE WithoutGlasses /\ sent' = sent
    BY <1>2, <1>3, <2>1, <2>3 DEF WithoutGlasses, Clean
  <2> QED BY <1>12, <2>2, <2>3 DEF FinalText
<1>13. CASE WsError
  BY <1>2, <1>4, <1>13 DEF WsError, Ends, Clean
<1>14. ASSUME NEW seq \in acks, BleAck(seq)
       PROVE  presses' \in Nat /\ OwnAcks(log', sent', presses', BeforeSpoken)
  <2>1. sent' = sent /\ presses' = presses
    BY <1>14 DEF BleAck
  <2>2. CASE seq = Len(sent)
    <3>1. log' = Closed(MarkAck(log, Len(sent)), Clean)
      BY <1>14, <2>2 DEF BleAck, AcksLast, bleSeq
    <3> QED BY <1>0, <2>1, <3>1, AckedOwnAcks
  <2>3. CASE seq # Len(sent)
    BY <1>1, <1>4, <1>14, <2>1, <2>3 DEF BleAck, AcksLast, bleSeq
  <2> QED BY <2>2, <2>3
<1>15. ASSUME NEW c \in chains, Chain(c)
       PROVE  presses' \in Nat /\ OwnAcks(log', sent', presses', BeforeSpoken)
  <2>1. CASE PressIsOver(c) \/ RecorderStarted(c)
    BY <1>1, <1>4, <2>1 DEF PressIsOver, RecorderStarted
  <2>2. CASE Connected(c)
    BY <1>1, <1>3, <2>2 DEF Connected
  <2>3. CASE StartFails(c)
    BY <1>2, <1>4, <2>3 DEF StartFails, Ends, Clean
  <2> QED BY <1>15, <2>1, <2>2, <2>3 DEF Chain
<1> QED BY <1>5, <1>6, <1>7, <1>8, <1>9, <1>10, <1>11, <1>12, <1>13, <1>14, <1>15
           DEF Next, Run, Button, Answers

\* The steps of the OCR screen.
LEMMA OcrStepOwnAcks ==
    ASSUME captures \in Nat, OwnAcks(ocrLog, ocrSent, captures, BeforeSeen), CaptureRecognised,
           Ocr!Next
    PROVE  captures' \in Nat /\ OwnAcks(ocrLog', ocrSent', captures', BeforeSeen)
<1>0. "ack" \notin BeforeSeen /\ ocrSent \in Seq(0..captures) /\ Numbered(ocrLog, captures)
  BY DEF BeforeSeen, OwnAcks
<1>1. ASSUME NEW k, Stamps(ocrLog, k), ocrLog' = k, ocrSent' = ocrSent, captures' = captures
      PROVE  captures' \in Nat /\ OwnAcks(ocrLog', ocrSent', captures', BeforeSeen)
  BY <1>1, StampsOwnAcks
<1>2. ASSUME NEW mid, NEW error, Stamps(ocrLog, mid), error # Clean,
             ocrLog' = Closed(mid, error), ocrSent' = ocrSent, captures' = captures
      PROVE  captures' \in Nat /\ OwnAcks(ocrLog', ocrSent', captures', BeforeSeen)
  <2>1. OwnAcks(mid, ocrSent, captures, BeforeSeen)
    BY <1>2, StampsOwnAcks
  <2> QED BY <1>0, <1>2, <2>1, FailedOwnAcks
<1>3. \A stage : Stamps(ocrLog, Mark(ocrLog, stage))
  BY DEF Stamps
<1>4. Stamps(ocrLog, ocrLog)
  BY DEF Stamps
<1>5. ASSUME NEW error, error # Clean, Ocr!Aborts(error)
      PROVE  captures' \in Nat /\ OwnAcks(ocrLog', ocrSent', captures', BeforeSeen)
  BY <1>2, <1>4, <1>5, SameClosed DEF Ocr!Aborts
<1>6. CASE Ocr!OpenScreen
  BY <1>1, <1>4, <1>6 DEF Ocr!OpenScreen
<1>7. CASE Ocr!CloseScreen
  <2>1. ocrLog' = EmptyLog /\ ocrSent' = <<>> /\ captures' = 0
    BY <1>7, SameTraces DEF Ocr!CloseScreen
  <2>2. <<>> \in Seq(0..0)
    OBVIOUS
  <2> QED BY <2>1, <2>2, EmptyOwnAcks
<1>8. CASE Ocr!Capture
  <2>1. ocrLog' = Started(ocrLog, captures + 1, captures + 1) /\ ocrSent' = ocrSent
        /\ captures' = captures + 1
    BY <1>8, SameStarted DEF Ocr!Capture
  <2> QED BY <1>0, <2>1, StartedOwnAcks
<1>9. CASE Ocr!Recognised
  <2>1. CASE Ocr!Aborts("ocr_error")
    BY <1>5, <2>1 DEF Clean
  <2>2. CASE /\ ocrLog' = Ocr!Closed(Ocr!Mark(ocrLog, "recognised"), "no_text")
             /\ ocrSent' = ocrSent /\ captures' = captures
    BY <1>2, <1>3, <2>2, SameClosed, SameMark DEF Clean
  <2>3. CASE /\ ocrLog' = Ocr!Mark(ocrLog, "recognised")
             /\ ocrSent' = ocrSent /\ captures' = captures
    BY <1>1, <1>3, <2>3, SameMark
  <2> QED BY <1>9, <2>1, <2>2, <2>3 DEF Ocr!Recognised
<1>10. CASE Ocr!Translated
  <2>1. CASE Ocr!Aborts("translate_error")
    BY <1>5, <2>1 DEF Clean
  <2>2. CASE /\ ocrLog' = Ocr!Closed(Ocr!Mark(ocrLog, "translated"), "ble_unavailable")
             /\ ocrSent' = ocrSent /\ captures' = captures
    BY <1>2, <1>3, <2>2, SameClosed, SameMark DEF Clean
  <2>3. CASE /\ ocrLog' = Ocr!Mark(ocrLog, "translated")
             /\ ocrSent' = Append(ocrSent, ocrLog.trace.id) /\ captures' = captures
    <3>1. InProgress(ocrLog) => BeforeSeen \subseteq Stages(ocrLog.trace) \cup {"translated"}
      BY <1>10 DEF CaptureRecognised, BeforeSeen, Ocr!Translated
    <3>2. OwnAcks(Mark(ocrLog, "translated"), Append(ocrSent, ocrLog.trace.id), captures, BeforeSeen)
      BY <3>1, SentOwnAcks
    <3> QED BY <2>3, <3>2, SameMark
  <2> QED BY <1>10, <2>1, <2>2, <2>3 DEF Ocr!Translated
<1>11. CASE Ocr!Sent
  <2>1. CASE Ocr!Aborts("ble_error")
    BY <1>5, <2>1 DEF Clean
  <2> QED BY <1>1, <1>4, <1>11, <2>1 DEF Ocr!Sent
<1>12. ASSUME NEW seq \in ocrAcks, Ocr!BleAck(seq)
       PROVE  captures' \in Nat /\ OwnAcks(ocrLog', ocrSent', captures', BeforeSeen)
  <2>1. ocrSent' = ocrSent /\ captures' = captures
    BY <1>12 DEF Ocr!BleAck
  <2>2. CASE seq = Len(ocrSent)
    <3>1. ocrLog' = Closed(MarkAck(ocrLog, Len(ocrSent)), Clean)
      BY <1>12, <2>2, SameClosed, SameMarkAck
         DEF Ocr!BleAck, Ocr!AcksLast, Ocr!bleSeq, Ocr!Clean, Clean
    <3> QED BY <1>0, <2>1, <3>1, AckedOwnAcks
  <2>3. CASE seq # Len(ocrSent)
    BY <1>1, <1>4, <1>12, <2>1, <2>3 DEF Ocr!BleAck, Ocr!AcksLast, Ocr!bleSeq
  <2> QED BY <2>2, <2>3
<1> QED BY <1>6, <1>7, <1>8, <1>9, <1>10, <1>11, <1>12 DEF Ocr!Next

LEMMA OcrStepRecognised ==
    ASSUME captures \in Nat, Numbered(ocrLog, captures), CaptureRecognised, Ocr!Next
    PROVE  CaptureRecognised'
<1>1. ASSUME ocrStage' # "translating" PROVE CaptureRecognised'
  BY <1>1 DEF CaptureRecognised
<1>2. ASSUME ocrStage' = ocrStage, ocrLog' = ocrLog PROVE CaptureRecognised'
  BY <1>2 DEF CaptureRecognised, InProgress, Stages
<1>3. CASE Ocr!OpenScreen
  BY <1>2, <1>3 DEF Ocr!OpenScreen
<1>4. CASE Ocr!CloseScreen \/ Ocr!Capture
  BY <1>1, <1>4 DEF Ocr!CloseScreen, Ocr!Capture
<1>5. CASE Ocr!Recognised
  <2>1. CASE ocrLog' = Mark(ocrLog, "recognised")
    <3>1. InProgress(ocrLog) => "recognised" \in Stages(ocrLog'.trace)
      BY <2>1, MarkTimes
    <3>2. InProgress(ocrLog') => InProgress(ocrLog)
      BY <2>1 DEF Mark
    <3> QED BY <3>1, <3>2 DEF CaptureRecognised, InProgress, Stages
  <2>2. CASE ocrStage' = "idle"
    BY <1>1, <2>2
  <2> QED BY <1>5, <2>1, <2>2, SameMark DEF Ocr!Recognised, Ocr!Aborts
<1>6. CASE Ocr!Translated \/ Ocr!Sent
  BY <1>1, <1>2, <1>6 DEF Ocr!Translated, Ocr!Sent, Ocr!Aborts
<1>7. ASSUME NEW seq \in ocrAcks, Ocr!BleAck(seq) PROVE CaptureRecognised'
  <2>1. ocrStage' = ocrStage
    BY <1>7 DEF Ocr!BleAck
  <2>2. CASE ocrLog' = Closed(MarkAck(ocrLog, seq), Clean)
    BY <2>2, ClosedRows DEF CaptureRecognised, InProgress
  <2> QED BY <1>2, <1>7, <2>1, <2>2, SameClosed, SameMarkAck DEF Ocr!BleAck, Ocr!Clean, Clean
<1> QED BY <1>3, <1>4, <1>5, <1>6, <1>7 DEF Ocr!Next

LEMMA PhoneInitAcks == PhoneInit => AcksInv
<1> SUFFICES ASSUME PhoneInit PROVE AcksInv
  OBVIOUS
<1>1. /\ presses = 0 /\ sent = <<>> /\ log = EmptyLog /\ socket = 0
      /\ captures = 0 /\ ocrSent = <<>> /\ ocrLog = EmptyLog /\ ocrStage = "idle"
  BY SameTraces DEF PhoneInit, Init, Ocr!Init
<1>2. <<>> \in Seq(0..0)
  OBVIOUS
<1>3. \A before : OwnAcks(EmptyLog, <<>>, 0, before)
  BY <1>2, EmptyOwnAcks
<1> QED BY <1>1, <1>3 DEF AcksInv, SocketOpened, CaptureRecognised

LEMMA PhoneStepAcks == AcksInv /\ [PhoneNext]_allVars => AcksInv'
<1> SUFFICES ASSUME AcksInv, [PhoneNext]_allVars PROVE AcksInv'
  OBVIOUS
<1>0. Numbered(log, presses) /\ Numbered(ocrLog, captures)
  BY DEF AcksInv, OwnAcks
<1>1. CASE [Next]_vars /\ UNCHANGED ocrVars
  <2>1. presses' \in Nat /\ OwnAcks(log', sent', presses', BeforeSpoken) /\ SocketOpened'
    BY <1>0, <1>1, StepOwnAcks, StepSocketOpened DEF AcksInv
  <2>2. ocrLog' = ocrLog /\ ocrSent' = ocrSent /\ captures' = captures /\ ocrStage' = ocrStage
    BY <1>1 DEF ocrVars
  <2>3. CaptureRecognised'
    BY <2>2 DEF AcksInv, CaptureRecognised, InProgress, Stages
  <2> QED BY <2>1, <2>2, <2>3 DEF AcksInv, OwnAcks, Numbered, FinalisedByOwnAck, InProgress, Stages, BeforeSpoken, BeforeSeen
<1>2. CASE Ocr!Next /\ UNCHANGED vars
  <2>1. captures' \in Nat /\ OwnAcks(ocrLog', ocrSent', captures', BeforeSeen) /\ CaptureRecognised'
    BY <1>0, <1>2, OcrStepOwnAcks, OcrStepRecognised DEF AcksInv
  <2>2. log' = log /\ sent' = sent /\ presses' = presses /\ socket' = socket /\ ptt' = ptt
    BY <1>2 DEF vars, pttVars
  <2>3. SocketOpened'
    BY <2>2 DEF AcksInv, SocketOpened, InProgress, Stages
  <2> QED BY <2>1, <2>2, <2>3 DEF AcksInv, OwnAcks, Numbered, FinalisedByOwnAck, InProgress, Stages, BeforeSpoken, BeforeSeen
<1> QED BY <1>1, <1>2 DEF PhoneNext, allVars

\* An ack is matched with the last number sent and not with a trace
\* (translate_screen.dart:475, ocr_screen.dart:256): however late it is, as long as
\* the number has not wrapped since, the row of a trace whose subtitle was sent
\* is finalised by no ack of an older one, and has what comes before an ack.
THEOREM OldAcksFinaliseNothing == PhoneSpec => []OldAckNeverFinalises
<1>1. AcksInv => OldAckNeverFinalises
  BY DEF AcksInv, OwnAcks, OldAckNeverFinalises, BeforeSpoken, BeforeSeen
<1> QED BY <1>1, PhoneInitAcks, PhoneStepAcks, PTL DEF PhoneSpec
==============================================================================
