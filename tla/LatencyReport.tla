---------------------------- MODULE LatencyReport ----------------------------
(***************************************************************************)
(* The Go/No-Go reports of tools/latency_report.py over the tables the     *)
(* phone exports: Phase F (BLE leg), S1 (speech, end to end), S2 (accuracy *)
(* and retries of the same table) and S3 (OCR).  A table grows as the      *)
(* phone measures, and the operator fills in one column by eye.            *)
(*                                                                         *)
(* Times are whole units, percentages are compared by cross multiplication *)
(* and a report is what its verdict and its tallies say; the layout of the *)
(* tables and the columns that are shown for information are left out.     *)
(***************************************************************************)
EXTENDS Integers, Sequences, FiniteSets, TLC

FX == INSTANCE FiniteSetsExt

CONSTANTS
    BleTarget, S1Target, S2Target, S3Target,    \* the latency gates
    GatePct,            \* the percentile they look at, 95
    AccuracyMinPct, AccuracyGood,   \* S2_ACCURACY_MIN_PCT, S2_ACCURACY_GOOD
    RetryMaxPct,                    \* S2_RETRY_RATE_MAX_PCT
    RecognitionMinPct,              \* S3_RECOGNITION_MIN_PCT
    Samples,            \* bound: rows the phone may write, by table
    Marks,              \* bound: what the operator may fill in, by table
    MaxRows             \* bound: rows of a table

ASSUME ReportConstants ==
    /\ GatePct \in 0..100 /\ MaxRows \in Nat
    /\ {BleTarget, S1Target, S2Target, S3Target, AccuracyGood} \subseteq Int
    /\ {AccuracyMinPct, RetryMaxPct, RecognitionMinPct} \subseteq 0..100

VARIABLES table, rows

vars == <<table, rows>>

NoCell == -1000000      \* an empty cell
Clean == ""             \* an empty error column

----------------------------------------------------------------------------
\* Percentiles and cells.

\* Mutant: the index is rounded up.
RoundUp(a, b) == (a + b - 1) \div b

\* Python's round of a / b: the even neighbour of a half.
Round(a, b) ==
    LET q == a \div b
        r == a % b
    IN IF 2 * r < b \/ (2 * r = b /\ q % 2 = 0) THEN q ELSE q + 1

\* The index percentile() takes, counted from 0.
Rank(n, pct) == Round((n - 1) * pct, 100)

\* Of a sorted, non-empty list.
Percentile(sorted, pct) == sorted[Rank(Len(sorted), pct) + 1]

\* The same in LatencyLogger.summarise: Dart's round() takes a half upwards.
PhoneRank(n, pct) == (2 * (n - 1) * pct + 100) \div 200

PhonePercentile(sorted, pct) == sorted[PhoneRank(Len(sorted), pct) + 1]

Sorted(values) == SortSeq(values, <)

\* One value of every row that has one, in order.
Column(s, F(_)) ==
    Sorted(SelectSeq([i \in DOMAIN s |-> F(s[i])], LAMBDA v : v # NoCell))

Minus(end, start) == IF NoCell \in {end, start} THEN NoCell ELSE end - start
NoNegative(v) == IF v < 0 THEN NoCell ELSE v
Where(s, P(_)) == {i \in DOMAIN s : P(s[i])}
Count(s, P(_)) == Cardinality(Where(s, P))

SystemLatency(r) == Minus(r.ble, r.audio)
CleanRows(s) == SelectSeq(s, LAMBDA r : r.error = Clean)
Aborted(s) == Count(s, LAMBDA r : r.error # Clean)

AtMostPct(part, whole, pct) == 100 * part <= pct * whole
AtLeastPct(part, whole, pct) == 100 * part >= pct * whole

----------------------------------------------------------------------------
\* Phase F: one verdict over the groups of equal MTU.

OkRtts(s, mtu) ==
    Column(s, LAMBDA r : IF r.mtu = mtu /\ r.ok THEN r.rtt ELSE NoCell)

\* A group without an Ok sample has no part in the verdict.
MeasuredMtus(s) == {m \in {s[i].mtu : i \in DOMAIN s} : OkRtts(s, m) # <<>>}

\* verdict() of the worst p95.
BleResult(s) ==
    IF MeasuredMtus(s) = {} THEN "NO DATA"
    ELSE IF \A m \in MeasuredMtus(s) : Percentile(OkRtts(s, m), GatePct) <= BleTarget
         THEN "GO" ELSE "NO-GO"

----------------------------------------------------------------------------
\* S1: latency after the release, and the stages it consists of.

\* Mutant: translation is timed from the release.
S1StagesFromRelease == [stt |-> <<"audio", "first">>,
                        translate |-> <<"audio", "full">>,
                        ble |-> <<"full", "ble">>]

S1Stages == [stt |-> <<"audio", "first">>,
             translate |-> <<"first", "full">>,
             ble |-> <<"full", "ble">>]

Stage(r, label) == Minus(r[S1Stages[label][2]], r[S1Stages[label][1]])

\* A negative difference is reported as skew and counted as zero.
Clamped(v) == IF v = NoCell THEN NoCell ELSE IF v < 0 THEN 0 ELSE v
Negative(v) == v # NoCell /\ v < 0

\* Mutant: the gate of the first S1 report, which counted the hold.
S1LatenciesTotal(s) == Column(CleanRows(s), LAMBDA r : Clamped(r.ble))

S1Latencies(s) == Column(CleanRows(s), LAMBDA r : Clamped(SystemLatency(r)))

Skewed(r) ==
    Negative(SystemLatency(r)) \/ \E label \in DOMAIN S1Stages : Negative(Stage(r, label))

S1Result(s) ==
    IF S1Latencies(s) = <<>> THEN "NO DATA"
    ELSE IF Percentile(S1Latencies(s), GatePct) <= S1Target THEN "GO" ELSE "NO-GO"

----------------------------------------------------------------------------
\* S2: accuracy of both directions, latency and retries.

Directions == {"ja->vi", "vi->ja"}

\* _direction: what the prefix of the phrase id says.
Direction(phrase) ==
    IF phrase \in {"ja-1", "ja-2"} THEN "ja->vi"
    ELSE IF phrase \in {"vi-1", "vi-2"} THEN "vi->ja" ELSE "?"

Attempts(s, phrase) == Count(CleanRows(s), LAMBDA r : r.phrase = phrase)
Seen(s) == {CleanRows(s)[i].phrase : i \in DOMAIN CleanRows(s)}
RetryPhrases(s) == {p \in Seen(s) : Attempts(s, p) > 1}
\* Mutant: the first clean attempt of a repeated phrase is a redo as well.
DuplicateRowsAll(s) == FX!MapThenSumSet(LAMBDA p : Attempts(s, p), RetryPhrases(s))

DuplicateRows(s) == FX!MapThenSumSet(LAMBDA p : Attempts(s, p) - 1, RetryPhrases(s))
\* Mutant: only clean re-runs are redos.
RedoAttemptsClean(s) == DuplicateRows(s)

RedoAttempts(s) == DuplicateRows(s) + Aborted(s)

\* Unlike S1, a negative latency is left out, and so is an unknown direction.
S2Latencies(s) ==
    Column(CleanRows(s), LAMBDA r :
        IF Direction(r.phrase) \in Directions THEN NoNegative(SystemLatency(r)) ELSE NoCell)

Scored(s) == SelectSeq(CleanRows(s), LAMBDA r : r.mark # NoCell)
ScoredOf(s, dir) == SelectSeq(Scored(s), LAMBDA r : Direction(r.phrase) = dir)

AccuracyPass(s, dir) ==
    /\ ScoredOf(s, dir) # <<>>
    /\ AtLeastPct(Count(ScoredOf(s, dir), LAMBDA r : r.mark >= AccuracyGood),
                  Len(ScoredOf(s, dir)), AccuracyMinPct)

S2LatencyPass(s) ==
    S2Latencies(s) # <<>> /\ Percentile(S2Latencies(s), GatePct) <= S2Target
RetryPass(s) == AtMostPct(RedoAttempts(s), Len(s), RetryMaxPct)

\* Mutant: the hard gates are looked at until something is scored.
S2ResultSoft(s) ==
    IF Scored(s) = <<>>
    THEN IF S2LatencyPass(s) /\ RetryPass(s) THEN "PENDING" ELSE "NO-GO"
    ELSE IF \A dir \in Directions : AccuracyPass(s, dir) THEN "GO" ELSE "NO-GO"

\* Latency and retries are hard gates, also while nothing is scored.
S2Result(s) ==
    IF ~S2LatencyPass(s) \/ ~RetryPass(s) THEN "NO-GO"
    ELSE IF Scored(s) = <<>> THEN "PENDING"
    ELSE IF \A dir \in Directions : AccuracyPass(s, dir) THEN "GO" ELSE "NO-GO"

----------------------------------------------------------------------------
\* S3: recognition over all marked captures, latency over completed ones.

Completed(s) == SelectSeq(s, LAMBDA r : r.error = Clean /\ r.ble # NoCell)
S3Latencies(s) == Column(Completed(s), LAMBDA r : NoNegative(r.ble))

S3Legs == [recognise |-> <<"capture", "recognised">>,
           translate |-> <<"recognised", "translated">>,
           ble |-> <<"translated", "ble">>]

\* The times of a capture count from the capture itself.
CaptureCell(r, column) == IF column = "capture" THEN 0 ELSE r[column]
Leg(r, label) ==
    NoNegative(Minus(CaptureCell(r, S3Legs[label][2]), CaptureCell(r, S3Legs[label][1])))

Judged(s) == SelectSeq(s, LAMBDA r : r.mark # NoCell)
Recognised(s) == Count(Judged(s), LAMBDA r : r.mark = 1)

S3LatencyPass(s) ==
    S3Latencies(s) # <<>> /\ Percentile(S3Latencies(s), GatePct) <= S3Target

S3Result(s) ==
    IF ~S3LatencyPass(s) THEN "NO-GO"
    ELSE IF Judged(s) = <<>> THEN "PENDING"
    ELSE IF AtLeastPct(Recognised(s), Len(Judged(s)), RecognitionMinPct)
         THEN "GO" ELSE "NO-GO"
----------------------------------------------------------------------------
\* The tables.

Init == table \in DOMAIN Samples /\ rows = <<>>

\* The phone finishes a measurement.
Record(r) ==
    /\ Len(rows) < MaxRows
    /\ rows' = Append(rows, r)
    /\ UNCHANGED table

\* The operator marks a row: accuracy_score, or recognised_pass.
Annotate(i, mark) ==
    /\ rows[i].mark = NoCell
    /\ rows' = [rows EXCEPT ![i].mark = mark]
    /\ UNCHANGED table

Next ==
    \/ \E r \in Samples[table] : Record(r)
    \/ \E i \in DOMAIN rows, mark \in Marks[table] : Annotate(i, mark)

Spec == Init /\ [][Next]_vars

----------------------------------------------------------------------------
\* "The two are disjoint ... so summing them never double-counts a row"
\* (latency_report.py:462): every attempt of an S2 run is either the first
\* clean one of its phrase or a redo.
AttemptsBalance ==
    table = "speech" => RedoAttempts(rows) + Cardinality(Seen(rows)) = Len(rows)

Worth == [result \in {"NO DATA", "NO-GO", "PENDING", "GO"} |->
             CASE result = "GO" -> 2 [] result = "PENDING" -> 1 [] OTHER -> 0]

RecordsAborted ==
    Len(rows') = Len(rows) + 1 /\ rows'[Len(rows')].error # Clean

\* "An aborted row carries no usable latency ... but still counts as an
\* attempt" (latency_report.py:458): measuring once more and failing never
\* makes a report better.  It changes nothing in S1 and S3, and in S2 it can
\* only cost the retry gate.
AbortNeverHelps ==
    [][/\ table = "speech" /\ RecordsAborted =>
             /\ S1Result(rows') = S1Result(rows)
             /\ Worth[S2Result(rows')] <= Worth[S2Result(rows)]
       /\ table = "ocr" /\ RecordsAborted => S3Result(rows') = S3Result(rows)]_vars

MarksRow(i) == Len(rows') = Len(rows) /\ rows'[i].mark # rows[i].mark

\* "Latency + retry are hard data gates; a failure there is NO-GO even while
\* accuracy is unscored" (latency_report.py:672): no mark lifts such a NO-GO.
\* And marks count the way they are meant: a good one never loses a GO, a bad
\* one never earns it.
MarksMoveVerdict ==
    [][\A i \in DOMAIN rows : MarksRow(i) =>
          /\ table = "speech" =>
                /\ ~S2LatencyPass(rows) \/ ~RetryPass(rows) => S2Result(rows') = "NO-GO"
                /\ IF rows'[i].mark >= AccuracyGood
                   THEN S2Result(rows) = "GO" => S2Result(rows') = "GO"
                   ELSE S2Result(rows') = "GO" => S2Result(rows) = "GO"
          /\ table = "ocr" =>
                /\ ~S3LatencyPass(rows) => S3Result(rows') = "NO-GO"
                /\ IF rows'[i].mark = 1
                   THEN S3Result(rows) = "GO" => S3Result(rows') = "GO"
                   ELSE S3Result(rows') = "GO" => S3Result(rows) = "GO"]_vars

\* "Decomposed into stt / translate / ble post-release stages"
\* (latency_report.py:240): the stages of a row that has them all make up its
\* latency, unless the row is reported as skewed; so do the legs of a capture.
StagesMakeLatency ==
    \A i \in DOMAIN rows :
        LET r == rows[i] IN
        /\ table = "speech" /\ r.error = Clean /\ ~Skewed(r)
           /\ (\A label \in DOMAIN S1Stages : Stage(r, label) # NoCell) =>
              Stage(r, "stt") + Stage(r, "translate") + Stage(r, "ble") = SystemLatency(r)
        /\ table = "ocr" /\ r.error = Clean
           /\ (\A label \in DOMAIN S3Legs : Leg(r, label) # NoCell) =>
              Leg(r, "recognise") + Leg(r, "translate") + Leg(r, "ble") = r.ble

\* Nothing in the sums of a report is left out or counted twice: not the attempts
\* of the retry gate, not the stages of a latency.
SumsAddUp == AttemptsBalance /\ StagesMakeLatency

\* S1 and S2 judge one table by the same latency, S2 more strictly: a run of
\* catalogued phrases that passes the S2 gate is a GO of S1.
PassesS1WhenS2 ==
    table = "speech" /\ S2Target <= S1Target
    /\ (\A p \in Seen(rows) : Direction(p) \in Directions)
    /\ S2LatencyPass(rows) => S1Result(rows) = "GO"

\* "matches the LatencyLogger.summarise formula closely enough"
\* (latency_report.py:122): for a table of one MTU every percentile of the
\* report is the one the phone showed, or the sample just below it; a gate
\* passed on the phone is passed in the report.
AgreesWithPhone ==
    table = "ble" => \A m \in MeasuredMtus(rows), pct \in {50, 90, 95, GatePct} :
        LET rtts == OkRtts(rows, m)
            rank == Rank(Len(rtts), pct)
        IN /\ PhoneRank(Len(rtts), pct) \in {rank, rank + 1}
           /\ Percentile(rtts, pct) <= PhonePercentile(rtts, pct)
           /\ MeasuredMtus(rows) = {m} /\ PhonePercentile(rtts, GatePct) <= BleTarget =>
                 BleResult(rows) = "GO"
=============================================================================
