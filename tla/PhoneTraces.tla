----------------------------- MODULE PhoneTraces -----------------------------
(***************************************************************************)
(* The two screens that measure latencies: the translate screen, and on    *)
(* top of it, while it is open, the OCR screen.  Each has a logger and a   *)
(* BLE connection of its own; the user reaches the screen on top only.     *)
(***************************************************************************)
EXTENDS BenchmarkRun

VARIABLES ocrOpen, ocrStage, captures, ocrSent, ocrAcks, ocrLog

ocrVars == <<ocrOpen, ocrStage, captures, ocrSent, ocrAcks, ocrLog>>
allVars == <<vars, ocrVars>>

Ocr == INSTANCE OcrScreen WITH
    open <- ocrOpen, stage <- ocrStage, sent <- ocrSent, acks <- ocrAcks, log <- ocrLog,
    MaxCaptures <- MaxPresses

PhoneInit == Init /\ Ocr!Init

\* What the user does on the translate screen.
Foreground == ocrOpen => UNCHANGED <<finger, presses, clears>>

\* The OCR screen is opened from the drawer.
Navigates == (ocrOpen' # ocrOpen) => ~finger

\* The bound on presses is one on presses and captures together.
Bounded == presses' + captures' <= MaxPresses

PhoneNext ==
    \/ Next /\ UNCHANGED ocrVars /\ Foreground /\ Bounded
    \/ Ocr!Next /\ UNCHANGED vars /\ Navigates /\ Bounded

PhoneFairness ==
    /\ Fairness
    /\ WF_allVars(Ocr!Recognised /\ UNCHANGED vars)
    /\ WF_allVars(Ocr!Translated /\ UNCHANGED vars)
    /\ WF_allVars(Ocr!Sent /\ UNCHANGED vars)

PhoneSpec == PhoneInit /\ [][PhoneNext]_allVars /\ PhoneFairness

----------------------------------------------------------------------------
\* "Discards any prior unfinalised trace by finalising it ... first so no data is
\* lost" (latency_logger.dart:481 and 652): whatever overtakes a trace, its
\* utterance or capture has a row, and one only.
NoTraceIsLost == [][KeepsTraces(log, log') /\ KeepsTraces(ocrLog, ocrLog')]_allVars

\* Two presses or captures in a row: once the subtitle of a trace has been sent,
\* no ack of an older one finalises it, and the row it then becomes has all that
\* comes before an ack.
OldAckNeverFinalises ==
    /\ FinalisedByOwnAck(log, sent, {"opened", "final"})
    /\ FinalisedByOwnAck(ocrLog, ocrSent, {"recognised", "translated"})
=============================================================================
