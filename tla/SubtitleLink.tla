---------------------------- MODULE SubtitleLink ----------------------------
(***************************************************************************)
(* Subtitles from the phone to the glasses and the acknowledgements back:  *)
(* _sendToBle / _onBleAck of the translate screen, BleTransport's          *)
(* sendSubtitle and its connection bookkeeping, the BLE link, and the      *)
(* firmware's onSubtitleWrite with the SubtitleAssembler it feeds.         *)
(*                                                                         *)
(* Subtitles are numbered 1, 2, ... in the order they are sent.  A packet  *)
(* carries, beside its header, the number of its subtitle (text) and the   *)
(* true number of fragments of that subtitle (of), neither of which the    *)
(* firmware can see, and whether it is intact, which decode_fragment       *)
(* finds out.  Every payload has length 1.  A time stamp is modelled by    *)
(* the packet on whose arrival it was taken.                               *)
(***************************************************************************)
EXTENDS SubtitleAssembler, FiniteSets

CONSTANTS
    MaxTexts,        \* bound: subtitles sent in a behaviour
    FragmentCounts,  \* fragments a subtitle may need
    FirstSeqs,       \* _bleSeq before the first subtitle of the behaviour
    MaxInFlight,     \* bound: sendSubtitle calls that overlap
    MaxDrops,        \* bound: packets lost or garbled while it is up
    MaxBreaks        \* bound: times the link breaks

ASSUME LinkConstants ==
    /\ MaxTexts \in Nat /\ FragmentCounts \subseteq Nat
    /\ FirstSeqs \subseteq SeqIds
    /\ MaxInFlight \in Nat /\ MaxDrops \in Nat /\ MaxBreaks \in Nat

Texts == 1..MaxTexts
NoSeq == SeqSpace - 1       \* 0xFFFF, "no current sequence"

VARIABLES
    \* phone
    sent,           \* subtitles sent so far
    bleSeq,         \* _bleSeq of the screen
    sends,          \* sendSubtitle calls awaiting a write
    phoneConnected, \* _isBleConnected, as of the last connectionChanges event
    accepted,       \* the subtitle of the last ack that passed _onBleAck
    \* link
    linkUp,         \* the two ends are connected
    down, up,       \* packets on their way to the glasses, acks to the phone
    drops, breaks,
    \* firmware, beside asm and result
    seqInProgress,  \* g_seq_in_progress
    seqRecv,        \* g_seq_recv_ms: the fragment on whose arrival it was set
    shown,          \* fragments of the subtitle on the display
    \* history
    damaged,        \* subtitles that cannot arrive whole
    ackLost,        \* an ack with status Ok was lost
    verdicts        \* acks the firmware sent for each subtitle, by status

phoneVars == <<sent, bleSeq, sends, phoneConnected, accepted>>
firmwareVars == <<asm, result, seqInProgress, seqRecv, shown>>
vars == <<phoneVars, linkUp, down, up, drops, breaks, firmwareVars,
          damaged, ackLost, verdicts>>

----------------------------------------------------------------------------
\* Mutant: the count written is the last index.
EncodeLastIndex(s, i) ==
    [seq |-> s.seq, index |-> i % ByteMod, count |-> (s.n - 1) % ByteMod, len |-> 1,
     text |-> s.text, of |-> s.n, intact |-> TRUE]

\* Fragment i of send s as encodeFragment writes it: index and count are
\* stored in one byte each, which keeps their low 8 bits only.
Encode(s, i) ==
    [seq |-> s.seq, index |-> i % ByteMod, count |-> s.n % ByteMod, len |-> 1,
     text |-> s.text, of |-> s.n, intact |-> TRUE]

\* A subtitle the assembler can hold.
Deliverable(n) == n \in 1..MaxFragments /\ n <= AssembledMax

\* What a broken link costs: the subtitles some packet of which is unsent,
\* under way or waiting in the assembler for the rest.
Unfinished ==
    {s.text : s \in sends} \cup {down[i].text : i \in DOMAIN down}
        \cup (IF asm.active THEN {asm.assembled[1].text} ELSE {})

HasOk(acks) == \E i \in DOMAIN acks : acks[i].status = "Ok"

LinkInit ==
    /\ Init
    /\ sent = 0 /\ bleSeq \in FirstSeqs /\ sends = {}
    /\ phoneConnected = TRUE /\ accepted = 0
    /\ linkUp = TRUE /\ down = <<>> /\ up = <<>> /\ drops = 0 /\ breaks = 0
    /\ seqInProgress = NoSeq /\ seqRecv = <<0, 0>> /\ shown = <<>>
    /\ damaged = {} /\ ackLost = FALSE
    /\ verdicts = [t \in Texts |-> [ok |-> 0, error |-> 0]]

----------------------------------------------------------------------------
\* Phone.

\* _bleSeq = (_bleSeq + 1) & 0xFFFF
NextSeq(seq) == (seq + 1) % SeqSpace

\* Mutant: any Ok ack is taken.
AnswersAny(ack) == ack.status = "Ok"

\* Mutant: the number before the increment is compared.
AnswersPrevious(ack) == ack.status = "Ok" /\ ack.seq = bleSeq - 1

\* _onBleAck: the ack answers the last subtitle sent.
AnswersCurrent(ack) == ack.status = "Ok" /\ ack.seq = bleSeq

\* A final translation while _isBleConnected: _sendToBle takes the next
\* sequence number and calls sendSubtitle without waiting for it.  The first
\* fragment is written before sendSubtitle first yields.  On a link that just
\* broke the write throws and _sendToBle only logs it.
SendToBle(n) ==
    LET s == [text |-> sent + 1, seq |-> NextSeq(bleSeq), n |-> n, next |-> 1] IN
    /\ phoneConnected
    /\ sent < MaxTexts
    /\ Cardinality(sends) < MaxInFlight
    /\ sent' = s.text
    /\ bleSeq' = s.seq
    /\ down' = IF linkUp /\ n > 0 THEN Append(down, Encode(s, 0)) ELSE down
    /\ sends' = IF linkUp /\ n > 1 THEN sends \cup {s} ELSE sends
    /\ damaged' = IF linkUp /\ Deliverable(n) THEN damaged ELSE damaged \cup {s.text}
    /\ UNCHANGED <<phoneConnected, accepted, linkUp, up, drops, breaks,
                   firmwareVars, ackLost, verdicts>>

\* The previous write returned: the loop of sendSubtitle writes the next
\* fragment, to the characteristic it read before its first write.
WriteFragment(s) ==
    /\ linkUp
    /\ down' = Append(down, Encode(s, s.next))
    /\ sends' = (sends \ {s}) \cup
                (IF s.next + 1 < s.n THEN {[s EXCEPT !.next = @ + 1]} ELSE {})
    /\ UNCHANGED <<sent, bleSeq, phoneConnected, accepted, linkUp, up, drops,
                   breaks, firmwareVars, damaged, ackLost, verdicts>>

\* The write throws on a broken link: the rest of the subtitle is not sent.
WriteFails(s) ==
    /\ ~linkUp
    /\ sends' = sends \ {s}
    /\ UNCHANGED <<sent, bleSeq, phoneConnected, accepted, linkUp, down, up,
                   drops, breaks, firmwareVars, damaged, ackLost, verdicts>>

\* An ack arrives; _handleAck passes it to _onBleAck.
OnBleAck ==
    /\ up # <<>>
    /\ up' = Tail(up)
    /\ accepted' = IF AnswersCurrent(Head(up)) THEN Head(up).text ELSE accepted
    /\ UNCHANGED <<sent, bleSeq, sends, phoneConnected, linkUp, down, drops,
                   breaks, firmwareVars, damaged, ackLost, verdicts>>

\* The connectionState stream reports the loss: _handleExternalDisconnect.
HandleExternalDisconnect ==
    /\ ~linkUp /\ phoneConnected
    /\ phoneConnected' = FALSE
    /\ UNCHANGED <<sent, bleSeq, sends, accepted, linkUp, down, up, drops,
                   breaks, firmwareVars, damaged, ackLost, verdicts>>

\* The user connects again: scanAndConnect, once the loss has been noticed.
ScanAndConnect ==
    /\ ~linkUp /\ ~phoneConnected
    /\ linkUp' = TRUE /\ phoneConnected' = TRUE
    /\ UNCHANGED <<sent, bleSeq, sends, accepted, down, up, drops, breaks,
                   firmwareVars, damaged, ackLost, verdicts>>

----------------------------------------------------------------------------
\* Link.

\* A write without response, or a notification, for which the receiver has no
\* buffer is dropped.
DropPacket ==
    /\ down # <<>> /\ drops < MaxDrops
    /\ down' = Tail(down) /\ drops' = drops + 1
    /\ damaged' = damaged \cup {Head(down).text}
    /\ UNCHANGED <<phoneVars, linkUp, up, breaks, firmwareVars, ackLost, verdicts>>

DropAck ==
    /\ up # <<>> /\ drops < MaxDrops
    /\ up' = Tail(up) /\ drops' = drops + 1
    /\ ackLost' = (ackLost \/ Head(up).status = "Ok")
    /\ UNCHANGED <<phoneVars, linkUp, down, breaks, firmwareVars, damaged, verdicts>>

\* A packet whose bytes fail the checks of decode_fragment.
CorruptPacket ==
    /\ down # <<>> /\ drops < MaxDrops /\ Head(down).intact
    /\ down' = [down EXCEPT ![1].intact = FALSE]
    /\ drops' = drops + 1
    /\ damaged' = damaged \cup {Head(down).text}
    /\ UNCHANGED <<phoneVars, linkUp, up, breaks, firmwareVars, ackLost, verdicts>>

\* The link breaks and what it carries is lost.  The firmware's onDisconnect
\* restarts advertising and runs onBleDisconnect.
LinkBreaks ==
    /\ linkUp /\ breaks < MaxBreaks
    /\ linkUp' = FALSE /\ breaks' = breaks + 1
    /\ down' = <<>> /\ up' = <<>>
    /\ Disconnect
    /\ seqInProgress' = NoSeq
    /\ damaged' = damaged \cup Unfinished
    /\ ackLost' = (ackLost \/ HasOk(up))
    /\ UNCHANGED <<phoneVars, drops, seqRecv, shown, verdicts>>

----------------------------------------------------------------------------
\* Firmware.

\* sendAck: a notification for packet p, numbered seq.
SendAck(p, seq, status, recv) ==
    /\ up' = Append(up, [text |-> p.text, seq |-> seq, status |-> status, recv |-> recv])
    /\ verdicts' = IF status = "Ok" THEN [verdicts EXCEPT ![p.text].ok = @ + 1]
                   ELSE [verdicts EXCEPT ![p.text].error = @ + 1]

\* Mutant: a latched time is kept until the sequence ends, whatever arrives.
LatchedOnce(p, arrival) == IF seqInProgress # NoSeq THEN seqRecv ELSE arrival

\* The latched arrival time is kept while the sequence number stays the same.
Latched(p, arrival) == IF p.seq = seqInProgress THEN seqRecv ELSE arrival

\* onSubtitleWrite for a packet that does not decode: an error ack with the
\* sequence number found in it, or the sentinel when it is too short.
OnUndecodableWrite ==
    LET p == Head(down) IN
    /\ down # <<>> /\ ~p.intact
    /\ down' = Tail(down)
    /\ \E guess \in {p.seq, NoSeq} : SendAck(p, guess, "DecodeError", <<p.text, p.index>>)
    /\ UNCHANGED <<phoneVars, linkUp, drops, breaks, firmwareVars, damaged, ackLost>>

\* onSubtitleWrite for a packet that decodes: latch the arrival time when the
\* sequence number is not the latched one, feed the assembler, then act on
\* what it returned.  The phone sends no type but Subtitle.
OnSubtitleWrite ==
    LET p       == Head(down)
        arrival == <<p.text, p.index>>
        latched == Latched(p, arrival)
    IN
    /\ down # <<>> /\ p.intact
    /\ down' = Tail(down)
    /\ Feed(p)
    /\ seqRecv' = latched
    /\ \/ /\ result' = "Incomplete"
          /\ seqInProgress' = p.seq
          /\ UNCHANGED <<shown, up, verdicts>>
       \/ /\ result' = "Complete"
          /\ shown' = asm'.assembled
          /\ SendAck(p, p.seq, "Ok", latched)
          /\ seqInProgress' = NoSeq
       \/ /\ result' = "Stale"
          /\ SendAck(p, p.seq, "DecodeError", arrival)
          /\ seqInProgress' = p.seq
          /\ UNCHANGED shown
       \/ /\ result' \in {"OutOfOrder", "Inconsistent", "Overflow"}
          /\ SendAck(p, p.seq, "DecodeError", latched)
          /\ seqInProgress' = NoSeq
          /\ UNCHANGED shown
    /\ UNCHANGED <<phoneVars, linkUp, drops, breaks, damaged, ackLost>>

----------------------------------------------------------------------------
LinkNext ==
    \/ \E n \in FragmentCounts : SendToBle(n)
    \/ \E s \in sends : WriteFragment(s) \/ WriteFails(s)
    \/ OnBleAck \/ HandleExternalDisconnect \/ ScanAndConnect
    \/ DropPacket \/ DropAck \/ CorruptPacket \/ LinkBreaks
    \/ OnUndecodableWrite \/ OnSubtitleWrite

LinkSpec == LinkInit /\ [][LinkNext]_vars

\* The event loop of the phone runs the continuations of its writes and its
\* ack and connection handlers; the NimBLE host task of the firmware runs the
\* write handler for each packet that arrived.  Sending, reconnecting and the
\* failures of the link happen or not.
Fairness ==
    /\ WF_vars(\E s \in sends : WriteFragment(s) \/ WriteFails(s))
    /\ WF_vars(OnBleAck) /\ WF_vars(HandleExternalDisconnect)
    /\ WF_vars(OnUndecodableWrite \/ OnSubtitleWrite)

FairLinkSpec == LinkSpec /\ Fairness

----------------------------------------------------------------------------
\* The display shows all of one subtitle: every fragment the phone split it
\* into, in order, none of another ("ACK status=0x01 only on full assembly",
\* main.cpp:9; "Newer sequence drops stale buffer", main.cpp:8).
DisplayWhole ==
    shown # <<>> =>
        /\ Len(shown) = shown[1].of
        /\ \A i \in DOMAIN shown : shown[i].text = shown[1].text /\ shown[i].index = i - 1

\* The firmware passes one verdict on a subtitle: displayed at most once, and
\* never both displayed and in error, so a sender that took the first Ok, or
\* any error, as final would not be wrong (main.cpp:183-184, 221).
VerdictFinal ==
    \A t \in Texts : verdicts[t].ok <= 1 /\ (verdicts[t].ok = 0 \/ verdicts[t].error = 0)

\* The arrival time in an Ok ack was taken on a fragment of the subtitle it
\* acknowledges, whatever fragments of older ones came between: a latency
\* report never mixes two subtitles (main.cpp:202-208, 228-239).  The number
\* that equals the sentinel is never latched and is excepted.
AckTimesOwnSubtitle ==
    \A i \in DOMAIN up :
        up[i].status = "Ok" /\ up[i].seq # NoSeq => up[i].recv[1] = up[i].text

ShownText == IF shown = <<>> THEN 0 ELSE shown[1].text

\* The link keeps the promise of SubtitleDelivery.
Delivery == INSTANCE SubtitleDelivery WITH shown <- ShownText, confirmed <- accepted
DeliverySpec == Delivery!Spec

\* A subtitle that was sent is displayed, or a newer one is, unless one of
\* those could not arrive whole: overlapping sends do not starve the last one.
EventuallyShown ==
    \A t \in Texts :
        (sent >= t) ~> (ShownText >= t \/ \E u \in t..sent : u \in damaged)

\* Once the last subtitle is on the display the phone learns it, unless the
\* ack was lost or another subtitle was sent meanwhile.
EventuallyConfirmed ==
    \A t \in Texts :
        (ShownText = t /\ sent = t) ~> (accepted = t \/ sent > t \/ ackLost)
=============================================================================
