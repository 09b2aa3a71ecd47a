---------------------------- MODULE LatencyLogger ----------------------------
(***************************************************************************)
(* One family of traces of latency_logger.dart: the utterances (e2e...) or *)
(* the captures (ocr...), which the class keeps side by side and treats    *)
(* alike.  A log is the active trace and the rows committed so far.  Of    *)
(* the time stamps of a trace only their order is kept.                    *)
(***************************************************************************)
EXTENDS Naturals, Sequences

\* The press or capture it belongs to, the phrase, its time stamps, and
\* bleSequenceId.  marks[stage] is the set of the stages stamped before stage;
\* a stage that is not in its domain has no time stamp.
Trace(id, label) == [id |-> id, label |-> label, marks |-> <<>>, seq |-> 0]
NoTrace == Trace(0, 0)
Clean == ""             \* errorCode is null
EmptyLog == [trace |-> NoTrace, rows |-> {}]

InProgress(log) == log.trace # NoTrace
Stages(row) == DOMAIN row.marks

\* e2eMark...: a later stamp replaces the earlier one; without a trace, nothing.
Mark(log, stage) ==
    IF ~InProgress(log) THEN log
    ELSE [log EXCEPT !.trace.marks =
            [m \in DOMAIN @ \cup {stage} |->
                (IF m = stage THEN DOMAIN @ ELSE @[m]) \ {stage}]]

\* e2eMarkFirstText keeps the first.
MarkFirst(log, stage) == IF stage \in Stages(log.trace) THEN log ELSE Mark(log, stage)

\* e2eMarkBleAck
MarkAck(log, seq) ==
    IF ~InProgress(log) THEN log ELSE [Mark(log, "ack") EXCEPT !.trace.seq = seq]

\* e2eFinalize, and e2eAbort with an error code.
Closed(log, error) ==
    IF ~InProgress(log) THEN log
    ELSE [trace |-> NoTrace,
          rows |-> log.rows \cup {[id |-> log.trace.id, label |-> log.trace.label,
                                   marks |-> log.trace.marks, seq |-> log.trace.seq,
                                   error |-> error]}]

\* Mutant: the prior trace is overwritten.
StartedOver(log, id, label) ==
    [log EXCEPT !.trace = Trace(id, label)]

\* e2eStart: a prior trace becomes a row of its own.
Started(log, id, label) ==
    [Closed(log, "discarded") EXCEPT !.trace = Trace(id, label)]

\* Every row of a trace whose subtitle was sent has the stages before it and is
\* finalised by no ack of an older subtitle.  sent[n] is the trace that was
\* active when subtitle n was sent.
FinalisedByOwnAck(log, sent, before) ==
    \A row \in log.rows, seq \in DOMAIN sent :
        row.error = Clean /\ sent[seq] = row.id =>
            row.seq >= seq /\ "ack" \in Stages(row) /\ before \subseteq row.marks["ack"]

\* A trace that ends, however it does, becomes a row, and none has two, unless
\* the log is emptied.
KeepsTraces(log, next) ==
    /\ InProgress(log) /\ next.trace.id # log.trace.id /\ next # EmptyLog =>
          \E row \in next.rows : row.id = log.trace.id
    /\ \A r1, r2 \in next.rows : r1.id = r2.id => r1 = r2

\* Whether the call that turned log into next committed a row: it returned one.
Commits(log, next) == next.rows # log.rows
=============================================================================
