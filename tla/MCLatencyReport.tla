--------------------------- MODULE MCLatencyReport ---------------------------
(***************************************************************************)
(* Rows a phone exports, one for each way the reports treat a row.         *)
(***************************************************************************)
EXTENDS LatencyReport

Speech(phrase, error, audio, first, full, ble) ==
    [phrase |-> phrase, error |-> error, audio |-> audio, first |-> first,
     full |-> full, ble |-> ble, mark |-> NoCell]

MCSpeech == {
    Speech("ja-1", Clean, 3, 4, 4, 5),              \* a long hold
    Speech("ja-1", Clean, 1, 2, 4, 6),              \* beyond both gates
    Speech("ja-1", Clean, 4, 2, 2, 3),              \* skewed
    Speech("ja-1", "timeout", 0, 1, NoCell, NoCell),
    Speech("vi-1", Clean, 1, 1, 2, 2),
    Speech("vi-1", Clean, 1, 0, 2, 4),              \* text before the release; beyond S2
    Speech("vi-1", Clean, 0, NoCell, NoCell, 1),    \* finalised by a late ack
    Speech("greeting-01", Clean, 1, 2, 2, 3)}       \* of the S1 catalogue

Capture(error, recognised, translated, ble) ==
    [error |-> error, recognised |-> recognised, translated |-> translated,
     ble |-> ble, mark |-> NoCell]

MCCaptures == {
    Capture(Clean, 1, 1, 2), Capture(Clean, 1, 3, 4),
    Capture(Clean, NoCell, NoCell, 1),              \* finalised by a late ack
    Capture("no_text", 1, NoCell, NoCell)}

MCAcks == [mtu : {23, 247}, ok : BOOLEAN, rtt : 1..3]

MCSamples == [speech |-> MCSpeech, ocr |-> MCCaptures, ble |-> MCAcks]
MCMarks == [speech |-> {3, 5}, ocr |-> {0, 1}, ble |-> {}]
=============================================================================
