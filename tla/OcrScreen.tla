------------------------------ MODULE OcrScreen ------------------------------
(***************************************************************************)
(* The capture pipeline of ocr_screen.dart: photograph, recognise,         *)
(* translate, send to the glasses, and the trace of it, which an ack       *)
(* closes.  Leaving the screen throws its state away.                      *)
(***************************************************************************)
EXTENDS LatencyLogger

CONSTANT MaxCaptures    \* bound

VARIABLES
    open,       \* the screen is mounted
    stage,      \* _stage, which says what the pipeline awaits
    captures,   \* _captureCounter
    sent,       \* captures traced when subtitle 1, 2 ... was sent
    acks,       \* Ok acks on their way
    log

vars == <<open, stage, captures, sent, acks, log>>

bleSeq == Len(sent)

Init ==
    /\ open = FALSE /\ stage = "idle" /\ captures = 0
    /\ sent = <<>> /\ acks = {} /\ log = EmptyLog

OpenScreen == ~open /\ open' = TRUE /\ UNCHANGED <<stage, captures, sent, acks, log>>

\* dispose: the transport, its subscription and the log go with the screen.
CloseScreen ==
    /\ open /\ open' = FALSE
    /\ stage' = "idle" /\ captures' = 0 /\ sent' = <<>> /\ acks' = {} /\ log' = EmptyLog

Idle == stage = "idle"

\* _captureTranslateSend until takePicture.
Capture ==
    /\ open /\ Idle /\ captures < MaxCaptures
    /\ captures' = captures + 1
    /\ log' = Started(log, captures', captures')
    /\ stage' = "recognising"
    /\ UNCHANGED <<open, sent, acks>>

\* A leg throws or finds nothing: the trace is aborted, the screen idle.
Aborts(error) ==
    /\ log' = Closed(log, error)
    /\ stage' = "idle"
    /\ UNCHANGED <<open, captures, sent, acks>>

\* takePicture and recognise return.
Recognised ==
    /\ stage = "recognising"
    /\ \/ Aborts("ocr_error")
       \/ /\ log' = Closed(Mark(log, "recognised"), "no_text")
          /\ stage' = "idle"
          /\ UNCHANGED <<open, captures, sent, acks>>
       \/ /\ log' = Mark(log, "recognised")
          /\ stage' = "translating"
          /\ UNCHANGED <<open, captures, sent, acks>>

\* translate returns, and with glasses the subtitle is numbered and written; its
\* ack may be lost.
Translated ==
    /\ stage = "translating"
    /\ \/ Aborts("translate_error")
       \/ /\ log' = Closed(Mark(log, "translated"), "ble_unavailable")
          /\ stage' = "idle"
          /\ UNCHANGED <<open, captures, sent, acks>>
       \/ /\ log' = Mark(log, "translated")
          /\ stage' = "sending"
          /\ sent' = Append(sent, log.trace.id)
          /\ acks' \in {acks, acks \cup {bleSeq + 1}}
          /\ UNCHANGED <<open, captures>>

\* sendSubtitle returns, before or after the ack.
Sent ==
    /\ stage = "sending"
    /\ \/ Aborts("ble_error")
       \/ stage' = "idle" /\ UNCHANGED <<open, captures, sent, acks, log>>

AcksLast(seq) == seq = bleSeq

\* _onBleAck
BleAck(seq) ==
    /\ acks' = acks \ {seq}
    /\ log' = IF AcksLast(seq) THEN Closed(MarkAck(log, seq), Clean) ELSE log
    /\ UNCHANGED <<open, stage, captures, sent>>

Next ==
    \/ OpenScreen \/ CloseScreen \/ Capture
    \/ Recognised \/ Translated \/ Sent
    \/ \E seq \in acks : BleAck(seq)
=============================================================================
